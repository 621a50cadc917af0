# Verification of the FlatPPL toolchain

FlatPPL is a workspace of Rust crates: a probabilistic modelling language with
a parser, a type and measure inference, a determinizer, back ends (StableHLO,
HS3, FlatPIR), a command line, a language server and bindings. This directory
holds TLA+ models of the parts of it that keep state over time, the TLC
configurations that check them, and TLAPS proofs about them.

Paths below are relative to the repository (`src/` here).

## 1. The system and its parts

| Part | State it keeps | Operations | Talks to |
|---|---|---|---|
| **lsp: request path** (`lsp/src/server.rs`, `pool.rs`, `outbound.rs`) | pending ids, cancelled ids, bounded job queue, worker threads, results channel, writer channel, diagnostics deadline | request, cancel, edit, reply, panic, flush, shutdown | client (JSON-RPC over stdio), salsa database clones, writer thread |
| **lsp: documents** (`server.rs`, `db.rs`, `queries.rs`) | tracked files, their texts, editor-open set, document versions, file set, dirty set, debounce deadline | didOpen, didChange, didClose, watched files, bundle and URL sources, flush | disk, request path (drain and clone barrier), import graph |
| **lsp: handshake** (`server.rs`) | initialize state | initialize, initialized, exit | client |
| **lsp: rename** (`rename.rs`, `names.rs`) | none of its own; the texts change between requests | prepareRename, rename, references | salsa, editor |
| **lsp: features** (`capabilities.rs`, `signature.rs`) | none, queries over the database | hover, completion ... | salsa |
| **fileaccess** (`cache.rs`, `fetch.rs`, `trust.rs`) | URL cache on disk: objects, metadata, trust markers, temporary files | get, refetch, approve, store | network, other processes sharing the cache directory |
| **cli: resolution** (`cli/src/resolve.rs`) | approved URLs, walked set, bundle under construction | resolve one dependency, walk the graph, prompt in waves | fileaccess, infer's module bundle |
| **infer: modules** (`infer/src/modules.rs`) | module bundle, memo of inferred dependencies, stack of modules in progress | insert, resolve, finish, lookup of callables | trace |
| **infer: trace** (`infer/src/trace.rs`) | work list of bindings, their states | demand, visit, finish, cycle report | ops, modules |
| **infer: rules** (`infer/src/ops.rs`, `core/src/ty.rs`, `consteval`, catalogue) | the annotations of the nodes below | type, value set, mass class and phase of each operation | trace |
| **core** (`core/src`) | module arena | build, substitute, rename | everything |
| **syntax: expressions** (`syntax/src/parser.rs`, `printer.rs`) | the parser's frame stack and scopes, within one call | parse a text, print a tree in either syntax | core |
| **syntax: tokens, flatpir, formula, mathdoc, convert, lint, data** | none beyond one call | lex, parse, print, render | core |
| **determinizer, stablehlo, hs3** | one module under rewriting | rule application to a fixed point, emission | core, infer |
| **bundle** (`bundle/src/lib.rs`) | archive index | open, look up, extract | host, lsp client |
| **host, python-api, wasm-api** | compiler session memo | compile, pack | all the above |

Hard behaviours, and where they are:

* *Concurrency*: the language server's main thread, its worker pool, the shared
  cancelled set and the writer thread; database clones that an edit must wait
  for; several processes sharing one URL cache.
* *Ordering*: an edit overtaking a finished reply; a cancel before its request;
  an older document version after a newer one; a watched-file event for a file
  that is open in the editor.
* *Failure*: a handler panics, the writer's pipe breaks, a process dies between
  the two writes of a cache entry, a fetch fails or redirects.
* *Limits*: queue capacity, cancelled-id cap, writer backlog, redirect limit.
* *Graph walks*: import cycles, diamonds, self imports, ambiguous names.

## 2. What makes each part correct

* Request path: exactly one response per request; no request forgotten; an
  edit never waits for the backlog nor deadlocks with the workers; no job reads
  a mixture of revisions; results held back while the client does not read;
  every request answered, every edit's diagnostics delivered.
* Documents: what the client last saw of a document is either current or marked
  dirty with the deadline armed; document versions never run backwards; unsaved
  editor text is never overwritten from disk; closing returns to disk.
* URL cache: a present object is complete and has its metadata; nothing is
  fetched without trust or offline; crashes leave the cache usable; redirects
  are bounded.
* Resolution and inference: every walk ends on cyclic graphs, visits each
  module once, and a memoised answer is the answer a fresh run would give.
* Rules: what an annotation says of a node is true of what the node means: its
  value lies in the set, its mass is of the class, nothing called fixed varies, and
  only probability measures are drawn from.
* Rename: the files mean afterwards what they meant before.
* Parser and printer: each frame finds the frames and scopes it left, and what
  is printed is read back as the tree it was printed from.

## 3. Modules

| Module | What it is |
|---|---|
| `RequestContract` | abstract: exactly one response per request, and every request answered while the server serves |
| `LspRequests` | the request path of the language server; implements `RequestContract` |
| `MCLspRequests`, `LspRequestClaims`, `LspRequestsProofs` | its instance for TLC, a claim of the comments it refutes, its proofs |
| `LspDocuments` | what the notification handlers do to documents, imports and diagnostics |
| `MCLspDocuments`, `LspDocumentsProofs` | its instance, its proofs |
| `UrlCache` | the shared cache of remote sources and the processes that walk a model's modules through it |
| `MCUrlCache`, `UrlCacheProofs` | its instance, its proofs |
| `InferProgram` | the programs inference works on, and what is read off their graphs without annotations |
| `InferWalk` | inference of one program: the work stack, the scopes, the session |
| `MCInferWalk`, `InferWalkClaims` | programs for TLC and the reference evaluation, a claim it refutes |
| `InferWalkProofs`, `InferWalkReportProofs` | proofs about the stacks of the walk and what the session remembers; about the errors it reports and the annotations it reads |
| `HostContext` | the context of a host: modules loaded from files, directories, archives and inline text, and their names |
| `MCHostContext`, `HostContextProofs` | its instance, its proofs |
| `Determinizer` | density and sampling queries of one module, lowered one after the other over shared bindings |
| `MCDeterminizer`, `DeterminizerClaims` | modules for TLC, what their densities and samples are, a claim it refutes |
| `ExpressionTrees` | names, expression trees and tokens |
| `ExpressionPrinter` | the tokens the printer gives a tree |
| `ExpressionParser` | the parser's loop over frames, and the round text, tree, text, tree |
| `MCExpressions`, `ExpressionParserProofs` | trees and texts for TLC, the parser's proofs |
| `ValueSets` | sets of values, their order, their meets and joins |
| `MeasureTypes` | what the rules annotate a node of the measure language with |
| `MeasureMeaning` | what the node is, by summation over the worlds it may be evaluated in; the properties |
| `MeasureCalls` | a callable's body annotated again for a call |
| `MCMeasureTypes`, `MeasureProofs` | programs for TLC, the proofs about phases and about the algebra of sets |
| `LspRename` | textDocument/rename over the files of a workspace, and what each name in them denotes |
| `MCLspRename` | workspaces for TLC |

`LspRequests` and `LspDocuments` cut the language server's main thread along
the line the code itself draws. Handlers run one at a time, so for the
documents each handler is one action. For the requests a handler is a drain of
the queue, then at most one wait for database clones; which document it changes
does not matter there, only that an input is written (`rev`). `UrlCache` joins
`fileaccess` and the resolver of the command line: neither promises anything
without the other, since the cache asks the resolver for consent and the
resolver walks what the cache returns.

### LspRequests

| State | In the code |
|---|---|
| `pc`, `cancelling` | where the main thread is: in `select!`, between recording and answering a cancel, draining the queue, waiting for clones, ended |
| `pending`, `cancelled` | the two sets of `run_on`; the second is shared with the workers |
| `queue`, `wstate`, `wjob` | the pool's bounded channel and its threads, each with the `Db` clone of its job |
| `results`, `out`, `writerUp` | the channels from workers to main loop and from main loop to writer thread |
| `rev`, `armed`, `shown` | salsa input writes, the debounce deadline, the revision of the last diagnostics the client got |
| `asked`, `answered`, `budget` | history of the client's side; `budget` bounds what the client sends |

A request is one of `RefuseCancelled`, `Dispatch`, `RefuseFull`. A cancel is
two steps, `ReceiveCancel` and `AnswerCancelled`, because a worker can read the
set between them. An edit is `ReceiveEdit`, some `DrainQueued`, `BeginWrite`
and `WriteInput` (or `FinishWithoutWrite`). A job is `Take`, then
`SkipCancelled` or `Start`, then `Finish`, `Unwind` (salsa's cancellation) or
`Panic` with `ReportPanic`, and `Release` when its clone drops. `TakeReply` is
the results arm of the `select!`, closed while `Throttled`; `FlushDirty` is its
default arm; `WriteMessage` and `FailWrite` are the writer thread.

### LspDocuments

| State | In the code |
|---|---|
| `tracked`, `fed`, `made` | `uri_to_file`, `url_to_file`; `made` gives every new salsa `SourceFile` an identity of its own |
| `fileset` | the `FileSet` input that imports resolve against |
| `open`, `versions` | `editor_open_uris`, `doc_versions` |
| `dirty`, `armed` | the documents to publish and the deadline |
| `disk`, `reports` | the file system, and what the client's watcher has not reported yet |
| `shown` | what each set of diagnostics on the client's screen was computed from |
| `newest`, `lost`, `mounted` | history: the editor's newest buffer, open documents deleted on disk, the last mounted texts |

One action per notification: `DidOpen`, `DidChange`, `DidClose`,
`DidChangeWatchedFiles` (a batch of reports, folded in order), `BundleSources`,
`UrlSources`; `FlushDirty`; and `ChangeDisk` for the world outside. Every
handler's trailing `sync_file_set` and dirty marking belong to its action.
Imports are resolved by identity of the document: relative paths, URL forms and
symbolic links are not modelled.

### UrlCache

| State | In the code |
|---|---|
| `objects`, `metas`, `markers` | the three files of a cache entry |
| `run[p]` | a process: its place, the walk of `fetch_graph` (level, next level, data files, walked set), its approvals, the URL it resolves with redirect count and temporary file |
| `consents`, `contacted` | history: what users agreed to, which requests went out |

`CheckTrust` looks up one URL of a level, or the single URL to be resolved, and
`EnsureTrusted` with `AnswerPrompt` is the prompt for those that need it; `PickUrl`, `NextLevel` and `Read` are the walk; `Lookup`,
`Hop`, `Ask`, `Mark`, `Fetch`, `CreateTmp`, `Publish`, `WriteFails` are one
resolution. Each is at most one access to the shared files (a check looks for an object
and its marker at once), so that any two processes interleave there, and `Crash` may come between any two. Commands that
only read (`infer`, `convert`) follow the same walk in offline mode; local files
and archives never reach the cache and are left out.

### InferWalk

| State | In the code |
|---|---|
| `program` | the `ModuleBundle`, with the root; never changes |
| `here` | `Inferencer.module`: the module at work; for a call of an imported callable, a copy with the call appended |
| `scope` | the tables `suspend_scope` puts aside: annotations, seeds, active bindings, carried results, errors |
| `work` | the work stack; a Resume item holds the suspended module and scope |
| `stack`, `memo`, `depErrors` | the session's dependencies in progress, its finished ones, their errors |
| `recursive` | `recursive_bodies` |

One action per arm of `drain_work`, split where the arm branches: `Binding`,
`LeaveBinding`; `EnterSeeded`, `EnterKnown`, `EnterRef`, `EnterNode`;
`FinishPlain`, the three outcomes of an import (`ImportFails`,
`ImportRemembered`, `ImportInfers`), the three of a call (`ApplyPlain`,
`ApplyBody`, `ApplyImported`); `ResumeModule`, `ResumeBody`, `ResumeCall`.
`Panic` is the `expect` of `node_annotation`.

The walk is modelled whole, the typing rules by a fragment that needs all of it:
scalars, one-element vectors, inputs, unknown names, references, imports with
substitutions, callables of one input (a placeholder or a binding) and calls.
Every value is fixed-phase there, so phases decide nothing. Value sets, measures
and kernels, broadcasts, standard modules and auto-inputs are left out; the
walk treats them by the same items. Errors are kept by kind, not by text.

### HostContext

| State | In the code |
|---|---|
| `sources`, `files`, `registry`, `print` | the fields of `Context`: texts read, definitions by location and by member, registered names, the remembered fingerprint |
| `nextInline` | `NEXT_DEFINITION`, `NEXT_MODULE_ID`: the numbers of identities and of generated names |
| `modules` | the `LoadedModule`s in the caller's hands |
| `frames` | the recursion of `definition` over imports: the definitions being made, with the imports already resolved |
| `call` | the call under way with what `restore_registry` has in its locals |
| `disk`, `edits` | the files, which change also in the middle of a call |
| `packed` | history: the archives that were exported, and what each should restore |

`Load`, `LoadBundle` and `Parse` begin a call; `Open`, one `Import` per import,
and `Finish` are `definition`; `Instantiate` is inference and the result;
`RestoreName`, `ObtainNamed` and `Restore` bring back an archive's registry.
`Register`, `Derive` (every call that makes a changed copy: `set`, `slice`,
`determinize`), `Transform`, `Export` and `Fingerprint` read no file and are one
action each; `DeriveFails` and `TransformFails` are the ways in which the changed copies
fail, before their number is spent or after, and after the module was registered. A path is a directory and a name, `Real` says where links lead. Of
an error only that there is one is kept, of inference only whether it succeeds.

### Determinizer

| State | In the code |
|---|---|
| `program` | the module as given, the order of its bindings, the outputs asked for |
| `rhs` | `Module`'s bindings as they are now |
| `declared` | `query_pinned`: what a binding was before a query overwrote it with its point or its sample |
| `status` | whether `determinize` is at work, has returned or has refused |

A turn of the driver's loop is `Split` or `LowerQuery`. `Split` comes first: a part of a
disintegrated law, or a `restrict`, becomes the law of some fields and a kernel from those to
the others. `LowerQuery` lowers the first query in order, all densities before the first
sample, with every rule that takes, pins its draws and sweeps dead measure bindings. `Finish` is the end: bindings no root reaches are dropped, and what
is left must hold no measure and no cycle. The free-draw check is in `Init`.

The rules are those a pin can go wrong in: laws of values and of records,
marginals over latents, `weighted`, `superpose`, keyword `joint`, `pushfwd`, kernels
applied, likelihoods, joint likelihoods and posteriors. `Current` and `Traced`
are the two ways of the code to follow a name, `Substitute` and `Inline` its two
substitutions, and each rule uses the one the code uses there.

A sample is a term that reads a generator's state; its two parts are the value and
the next state, which the next sample starts from. A law that names pinned draws is sampled from
copies of them (`Restored`). The latents a record shares are sampled once, each after those it
is drawn with, bound to a name and pinned (`SampleLatents`); other fields are sampled where they stand. A
sample is a pair when something takes it apart and a value otherwise.

Values are residues modulo three and a distribution is a table of weights, so
a density is a number that can be summed up by brute force: `DensityAt` in
`MCDeterminizer` does, over all worlds the draws could make, and `SamplesCorrect` weighs the
worlds of all the samples of a module together. Densities are kept
without the logarithm; of the invertible maps there are translations, of the
conjugate rows the one whose parameter is the latent itself. Records that share a
latent have a closed form for normals in the code and are refused here. Draws
are bindings of their own, kernels have inputs and likelihoods are of kernels.
Laws of records are disintegrated by lists of fields or by one field; a field that is a kernel's
input is labelled with its binding.
Left out: samples of `iid`, `locscale`, tilts, mixtures and broadcasts, disintegration of vectors,
chains, densities of `iid` and broadcasts, truncation and normalisation, integrals by quadrature, vectors, and grafting across modules.

### ExpressionParser and ExpressionPrinter

| State | In the code |
|---|---|
| `toks`, `pos` | the token stream and the cursor |
| `work` | the frames of `parse_expr`; the variants of `ExprFrame` are the values of `frame` |
| `value` | the node the last finished frame returned |
| `scopes` | `reify_frames`: lambdas with their parameters, `fn(` with its holes, explicit `functionof` |
| `stage`, `style`, `tree` | where the round is, the syntax and width printed in, the tree it was printed from |

There is one action per arm of the loop: levels of operators and their right
sides, comparison chains, unary, postfix and member access, primaries, groups,
lambdas, `fn(`, call arguments, array and index elements. `ExpressionPrinter` is a
recursive function, as in the code, from a tree to tokens; `PrintTree` applies
it in one of the two syntaxes, to the tree of a user's text or to one the
program built, and the parser reads the result. `Flat` is the text on one line; `Wide` is
`render`, which breaks what exceeds the width and then uses other forms: calls with a comma
after the last argument, also for operations, but within brackets an operation is broken
at the operators of its left spine (`Spine`, `Operands`). The breaks themselves
are always within brackets, where the lexer skips them, and are left out like all white
space; widths are counted in tokens. The module's bindings, which of them load modules
and which are aliases of those, are constants. Statements, docs and the depth guard are left out; of numerals only that they
swallow a dot and may be negative. The parser knows the printer by its result
only (`TextOf`, which the run sets to `print_with`).

### MeasureTypes, MeasureCalls, ValueSets and MeasureMeaning

| State | In the code |
|---|---|
| `prog` | the nodes of a module in the order inference finishes them |
| `ann` | the annotation of each: `Type`, `ValueSet`, `Phase`, and what `law_phase` would give |

One action, `Define`, adds a node with the annotation the rules compute from those of its
arguments: `TypeOf` (`op_rule`, `reification_type`, `user_call_type`), `SetOf` (`call_valueset`,
`support_or_natural`), `FillMass` and `PhaseOf`. `ValueSets` is `core/src/ty.rs`: membership, `subset_of`, the meet and join
of supports. `MeasureMeaning` translates no code: it says what each node *is* in a world, a
point or a table of weights, by summing over the draws it depends on. Its programs grow by
any node that is well formed (`Written`) and means something there, as `Legal` states: weights are not
negative, a callable is applied within its input's range, what is normalized has a finite mass.
A call annotates the body of its callable again (`SubstitutedResult`), and so the calls in
it; the rules take that result as a constant, `Substituted`, which the run sets.
The walks that the code makes over reference chains, with a work list and pruning, are the
sets they reach (`Walked`). Keyword arguments under `lawof`, and reifications over draws of a body that takes a law itself, are
kept out of the programs.

### LspRename

| State | In the code |
|---|---|
| `program` | the texts of the workspace's files, as trees of nodes with the names written in them |
| `meant` | history: what each name denoted when the session began |
| `renames`, `beyond` | history: how many renames there were, and the gap the last one fell into |

One action, `Rename`, for a request with the cursor on any name, its refusals, and the editor
applying the edits in all files. `Read` and `ReadMember` are what the parser makes of a name at its
place, `Definitions` is `resolve_ref_def`, `TargetAt` is `resolve_target`; `CallablesOf`,
`KeywordSites` and `Escapes` are `callable_uses`; `Occurrences` are those that references and
prepareRename answer with as well. A place in a text is the node and the slot that hold
the name. `Denotes` is not from the code: it says what a name stands for in the language,
following callables through parameters and records' fields into the calls that name their inputs.

## 4. What is checked

| Run | Instance | States |
|---|---|---|
| `requests` | 2 reusable ids, 2 workers, queue of 1, cancel cap 1, backlog 1, 4 messages; fairness, deadlock | 199 000 |
| `documents` | 2 files, one excluded, an archive member, a fetched module; import chains, cycles, a self import; 2 versions; 3 events; fairness | 133 000 |
| `cache_runs` | 2 processes in 4 modes, 5 URLs, a level of two modules, a circle of redirects, one hop allowed; fairness | 533 000 |
| `infer_walk` | some 800 programs of three modules, with cycles of bindings, calls and imports; fairness | 68 500 |
| `host_context` | a bundle with a link that leads out of it, an archive, two states of the disk; 3 calls, 1 change of the disk; fairness | 57 000 |
| `determinizer` | 8 802 programs: a module and two of 25 density and 16 sampling queries, in both orders, with and without roots | 38 800 |
| `typing` | 23 beginnings of programs, each with every legal continuation by two nodes | 11 000 |
| `rename` | 114 workspaces of two files, all renames to any of 8 names, two in a row | 43 000 |
| `expressions` | some 3 400 trees, every form over every form, and 42 texts, in the minimal syntax and in the full one at widths of 0, 7 and 100 tokens; deadlock | 985 000 |

What they show:

* `requests`. `AnsweredOnce`: five paths can answer an id, and at every
  moment exactly one of them still has it, or one response is on its way.
  `NoRequestForgotten`: a job that finds its id cancelled returns silently and a
  drained job is dropped, but some path always remains that will answer.
  `SnapshotsCurrent`: no clone outlives the input write it should have blocked,
  so no job sees two revisions. `ImplementsFairContract`: all of it refines
  `RequestContract`, where every request is answered. `EditsComplete`: the main
  thread's wait for clones ends, although it takes no replies meanwhile.
  `DiagnosticsCatchUp`: diagnostics go out in spite of replies that take
  precedence in the `select!`.
* `documents`. `StaleIsDirty`: whatever is on the screen was computed from
  present texts and imports, through any number of imports, or is due.
  `FileSetCurrent`: also after a batch that deletes one file and creates
  another. `EditorTextKept`: neither the disk, the watcher, a mount nor an
  overtaken version replaces the buffer. `SettledIsDisk`: a file that is not
  open, and that the client never mounted a text over, follows the disk once its
  reports are in. `ArchiveReadOnly`: no editing
  sequence changes a mounted member. `DiagnosticsConverge`: when everyone falls
  silent the screen is right.
* `cache_runs`. `ObjectHasMeta`, `TypeOK`: no interleaving, failure or kill
  leaves a half-written object or an object without metadata. `Consent`: no
  server is asked without a yes to that very URL. `PromptedOnce`: the two
  prompts and the redirect oracle never ask twice. `PreparedIsCached`: after a
  successful `prepare` an offline process finds all it needs. `RunsEnd`. The process that
  asks its user also updates (`--update`): what it does when it does not, read an object that is
  there, the others do.
* `infer_walk`. `ImporterIsCurrent`: however scopes nest, the session's innermost
  module is the one at work, so that load literals are resolved against the
  file that wrote them. `NeverInsideItself`. `FailedIsReported`: a failed type
  that is left has its error, although scopes opened for calls drop theirs and
  dependencies are inferred once. `ReadsAreComplete`: rules read only what is
  finished in their scope, but for the case below. `ResultsAgree`: a program
  without errors gets the types that plain recursion (`Meaning`) gives it, and
  each remembered dependency has the types of its substitutions.
  `Terminates`: bindings, callables and modules in circles.
* `host_context`. `OneDefinitionPerIdentity`: inference, `pack` and `fingerprint`
  find definitions by identity, and failed loads, cycles, archives and copies
  never give one identity to two. `OneTextPerFile`: a file has one text under all
  its names and roots, whatever the disk does between two reads. `Contained`:
  what a bundle's modules import lies in the bundle, links and earlier loads
  notwithstanding. `FingerprintCurrent`: the remembered fingerprint is that of the
  names. `RoundTrip`: an exported archive brings back the same main module and
  the same names, also into a context that has other names. It speaks of what was made of
  one archive: a ZIP on the disk that is rewritten between two loads is mixed with what the first
  left behind (`Rewritten`; see below), an archive in memory never is. `CallsReturn`.

* `determinizer`. `QueriesCorrect`: an accepted density is that of the measure
  that was declared, at its own point, although an earlier query has overwritten
  the draws and the sweep has cleared bindings; the samples of a module, taken
  together, are distributed as the module says, whatever was scored or sampled before, and no
  two are taken from one state. A density of what another query sampled is the density
  there. `QueriesIndependent`: a module is refused only when one of its queries would
  be refused alone, and with roots accepted only when all would. A conditional is checked
  against the joint measure it was taken from, so a split that loses a dependence shows. Six
  combinations are kept out of the programs of this run (`Diverges`): `DerivedField`, the one of
  `claim_own_point`; `LostCondition`, a conditional on a function of a draw, or on an alias
  of one, that the selected field is drawn with; `DerivedInput`, a kernel input that is a
  function of a draw, which is refused when another query has pinned it (`theta_inlined_binding`,
  `density.rs:1013`, reads what the binding is now, the check at `density.rs:1640` what
  it was declared as) and accepted when it is not; and of sampling `LostInput`, `DerivedParameter` and
  `OwnLatent` (for these and `LostCondition` see below).
* `expressions`. `FramesAgree`: the frames and the scopes on the two stacks belong
  to each other, through every nesting and every early end, so a placeholder or a
  hole is always collected by the callable that it was written in. `RoundTrip`:
  what is printed, in either syntax, on one line or over several, is read back as the same
  tree, whatever form stands in whatever other, except where a spine of powers or of
  comparisons is broken (`Rejoined`, see below), and there it never is. At width 0 every
  level is broken, at 7 the outer ones, at 100 none. `Spelled` names what the property leaves out, because
  it is known not to come back: names that a lambda's parameter hides, placeholders applied
  outside a lambda, applied built-in constants and fields of aliases of modules
  (see below); a negative numeral comes back as a negation of a positive one.

* `typing`. `MassSound`: the class of a measure (null, probability, finite, locally
  finite) is that of its sum over all values, in every world, and a kernel's that of all
  its measures. `SupportSound`: values and variates lie in the set and have the shape that
  is annotated. `DrawsNormalized`: whatever is accepted by `draw` sums to one; the
  proofs the code has for a mixture (complements, literal weights, coordinates of a
  simplex) are where this could fail. `PhaseSound`: a fixed node is the same
  in all worlds, a parametric one does not depend on draws, and a callable reads nothing but
  its inputs. The programs leave out the two cases under `Met on the way` below and images of
  unbounded measures under maps other than shifts.

* `rename`. `NamesKeepTheirMeaning`: after a rename every name in every file denotes what it
  denoted, or the request was refused; of the calls that pass the renamed input by keyword none is
  left behind, however they reach the callable. `Gaps` lists the exceptions (see
  below; one of them, a binding that hides a built-in, is documented at
  `rename.rs:880`), and the property is an equivalence: there are no others, and each of them is one.

Every property has been checked against at least one mutation of the model (a
dropped guard, a missing reset, a swapped order); the mutated forms stand next
to the definitions they replace and are listed in `PROJECT.json`.

**Bounds.** The limits of the code (queue 256, cancel cap 4096, backlog 4,
redirects 10) are constants, set so low that a handful of messages reaches
them. Client messages, document events and processes are bounded in number.
The width of 100 characters of `expressions` is 0, 7 or 100 tokens, on trees of at most
some thirty tokens. Four messages suffice for ask, cancel, edit, ask again under the same id; three
document events for open, disk change, close. The programs of `infer_walk` are
products of a few shapes per binding, in both orders of definition, chosen so
that each kind of cycle, substitution, refusal and call meets the others; `ResultsAgree`
speaks of those free of errors and of calls through substituted bindings. The proofs below have no bounds.

In `rename` a library defines its callable as a lambda, by keyword boundary, bare boundary
or none, with nested callables and with captures; the other file reaches it directly, through an alias
of the module or of the callable, `broadcast`, `fchain`, a parameter, a record. The second rename
starts from texts that the first has made.

In `typing` the real line is five cells: below, zero, a half, one and above. The outer two are
unbounded and a reference measure gives them infinite weight, the others a finite one, so that a
sum over cells is finite where the integral is. Vectors and records have two entries; two more nodes suffice for an
operation upon an operation upon each beginning, and each rule of three (`normalize` of a mixture of
truncations) is among the beginnings.

**Fairness.** Weak fairness of steps the process takes by itself: the main loop
and the flush (a loop with a timer), each worker's own steps (a query ends),
the writer (the client reads), the watcher's reports, and each running
process (users answer, servers answer or time out); inference is a loop that is
not interrupted. No client message, disk
change, panic, write failure, crash or start is ever obliged.

### Disagreements between code and documentation

Each of these runs expects TLC to refute a sentence of the repository.

* `claim_stale_result`. `select!` may take an edit while a finished reply is
  ready, and `answer` (`server.rs:319`) then sends a result computed before the
  edit; `protocol_smoke.rs:884` says that must never happen.
* `claim_no_abort`. In the body of a callable, a call through a binding that the
  callable takes as its input, where the binding is an import from a module
  loaded with substitutions, reads the annotation of a substituted value that
  the body's scope never made (`trace.rs:657`), and inference aborts;
  `trace.rs:652` says that reading never crosses a substituted boundary.
* `claim_own_point`. In the law of a record with a field `x = b`, where `b` is a
  function of the draw `a`, another field that depends on `a` itself keeps the
  reference (`density.rs:2473`). Alone the query is refused; beside a query that
  scored `a` it is accepted, and comes out at that query's point, which the
  comment at `density.rs:2462` says must not happen.
Met on the way and kept in the models as the code has them, without a run:
a file deleted on disk keeps its diagnostics on the screen (`server.rs:541`), though the
comment in didClose says they are withdrawn;
an id cancelled after its answer stays in the cancelled set, and a client that
reuses the id has that request refused (`server.rs:299`, `652`); replies wait
without bound in the results channel while the client does not read
(`server.rs:764`); a checkout that deletes and recreates an open file drops its
buffer (`server.rs:519`); a mount replaces the text of an open document whose file was
deleted (`server.rs:1482`); a file of an excluded directory stays tracked once
it has been opened and closed (`server.rs:451`); a fetched URL module is hidden
by a mounted one of the same address (`server.rs:1433`); a didChange that
arrives after didClose would revive the document (`server.rs:370`); a failed fetch keeps its trust
marker (`cache.rs:297`); `_meta.json` may describe another fetch than the one
its object came from (`cache.rs:323`); and when loading an archive fails half-way, the members that
were finished stay in `files` (`compiler.rs:1126`) and, after the archive was replaced,
are combined with members of the new one, though "source snapshots are
append-only" (`host/README.md:24`). In inference: callees are followed
through substituted bindings, so a callable that is passed as an argument is not
the one whose body is typed (`ops.rs:6734`, against the comment on `seeds`,
`trace.rs:134`); an import that closes a cycle loses the cycle's failed type
when it is resolved (`trace.rs:925`), which other nodes keep; and the ids in
`recursive_bodies` are looked up in every module, not only in theirs. In the
syntax: when an expression exceeds the width, `break_parts` prints the operands of a left
spine one after the other with the precedence of a right operand, so that within brackets
`pow(pow(a, b), c)` becomes `a ^ b ^ c`, which is read as `pow(a, pow(b, c))`, and
`lt(lt(a, b), c)` becomes `a < b < c`, which is read as a chain (`printer.rs:797`), though
"parse → print is semantically faithful" (`printer.rs:5`), the floors are kept "so a broken
chain re-parses to the same tree" (`printer.rs:102`), and chains "are short enough never to
wrap" (`printer.rs:891`); without its exception `RoundTrip` is violated, first by
`neg(pow(pow(x, x), x))`; the minimal form of `f -> f(1)` is `functionof(_f_(1), f = _f_)`, which is read
as a call of a built-in `_f_` (`printer.rs:706`, `parser.rs:1690`); with `H = h` for a
loaded module `h`, the index `H["x"]` is printed as `H.x`, which is read as a member of
the module (`printer.rs:610` knows loaded modules only, `parser.rs:69` their aliases too);
a binding named `fn` that is called is printed as `fn(3)`, which opens a scope of holes;
`inf -> inf + base.inf` is printed as `inf -> inf + inf` and read back as a function that
adds its argument to itself (`printer.rs:671`, against `printer.rs:19`);
the literal of minus infinity is printed as `neg(inf)` even where bindings hide
these names (`printer.rs:993`); and an axis under a power, `.i ^ 2`, is read as an upper axis.
In the determinizer: `restrict(lawof(record(b = b, c = c)), record(c = 2))` with `b = a + 1` and
`c ~ Dist(a)` splits off a kernel with the input `b`, applying which integrates `a` out, so the
conditional is the product of the two marginals (the check at `disintegrate.rs:186` looks for what the
kept fields are made of, not for what the selected ones still need), and likewise with an alias of
`a` for `b`; by `disintegrate.rs:150` "the split is valid only when `jointchain(marginal, kernel) ≡
joint`" and what is not valid is refused. In sampling: once a query has pinned what a kernel's draws
are drawn with, `rand` of the kernel applied restores copies of these draws whose law reads the
copied latent and not the kernel's input (`substitute_dependencies` leaves the input alone only
below the `kernelof`; the copies are bindings beside it, `sample.rs:145`), so a kernel over a record is
sampled from the marginal and one over a scalar refused, against "reification still denotes its
declared law, not the value supplied to that earlier query" (`kernel.rs:642`); for
`c ~ Dist(b)`, `b = a + 1`, the order of latents follows names of draws only (`sample.rs:1395`, because a
kernel input "names its latents directly", `sample.rs:1235`), so a record with `c` is refused or
ends in a cycle, and is accepted once another query has pinned `a`; a draw that a kernel reads but does not take as an
input is sampled once for a record and the kernel applied in it (`kernel.rs:428`), though the kernel's density
integrates it out; a nested record and a field outside it that share a latent sample it twice
(`requires_shared_binding_rewrite` looks at the outer fields), against `sample.rs:9`. In the rules: `truncate`, `weighted` and `normalize` of a kernel keep the kernel's
`%normalized`, which the comment at `ops.rs:11510` explains away for products and joints
only; `markovchain`, `kchain` and `jointchain` trust it (`ops.rs:11380`), and their result
passes the gate of `draw`, as a run of `typing` with `ChainLifted = TRUE` shows;
`pushfwd` keeps the mass class of its base for every map (`ops.rs:11366`), so the image of
`Lebesgue(reals)` under `exp` is called locally finite, which is to mean "finite mass on every
bounded set" (`ty.rs:86`), although it has infinite mass on (0, 1), and truncated to
`unitinterval` it is `%finite` and accepted by `normalize` and `draw` (`PushAnyMap = TRUE`); and
`law_phase` looks at positional arguments only (`ops.rs:4425`), so
`lawof(record(a = theta))` is fixed though `theta` is a parameter. In a rename
(`Gaps` in `LspRename`; TLC shows that each changes what a name means): a binding is given the
name of a parameter that its uses stand under, `f(c) = x + c` with `x` renamed to `c`
(`rename.rs:910` looks at bindings only, though for inputs `check_argument_rename` looks at
captures); `self.x` keeps the old name (`rename.rs:779` reads the text at the start of the reference, which
is `self`), and so do the keywords of `self.f(a = 1)`; the keyword of `load_module("r", x = 1)`,
and that of a call of a callable whose inputs are named by bindings (`functionof(e, x)`,
`functionof(e)`), when `x` is renamed; the fields of a record whose
fields become the inputs of a call (`f(record(a = 1, b = 2))`, which the escape check takes for a
positional call, `rename.rs:664`); `_a_` written in the body of `a -> _a_ + 1`; and a boundary value
`x` below a lambda whose parameter is renamed to `x`, which is no child of its node
(`node.rs:159`) and so not seen by the check for captures.

## 5. What is proved

For every value of the constants, from the assumptions that the modules name.
TLC evaluates each assumption on the instances of section 4, so each has a model, and they say no
more than how the constants are to be read: ids and documents are finitely many and capacities are
not zero (`LspRequests`, `LspDocuments`); files, members and URLs are different
documents (`DocsAssumption`); what a web server or a file may hold is among the
answers and texts (`ConstantsAssumption`, `TextsAssumption`); links lead to
files, and resolving twice is resolving once (`PathsAssumption`); members of archives are texts (`ArchivesAssumption`); a program is a
bundle with a root, its graphs are trees of known operations and names stay in
their module (`ProgramsAssumption`, by `WellFormed`).

* `LspRequestsProofs`: `TypeCorrect`, `OneResponse`, `ClonesAreCurrent`,
  `NothingForgotten` and `Implements`. `AnsweredOnce`, `SnapshotsCurrent` and
  `NoRequestForgotten` are each inductive beside `TypeOK`; the first is, because it
  speaks of `pending` and of the writer's channel and not just of two counters.
  Lemmas say what `Append` and `Tail` do to the positions of an id in a channel,
  and one lemma per way of sending (`Send`, `Answer`) serves every action that
  sends. `Implements` is the safety part of the refinement: the initial states
  map to initial states of `RequestContract`, and each step is one `Ask`, one
  `Respond` or a stutter there, since by `AnsweredOnce` no step answers an id
  that no path holds.
* `LspDocumentsProofs`: `TypeCorrect` and the five invariants of the run
  (`FileSetIsCurrent`, `MembersAreReadOnly`, `EditorIsFollowed`,
  `DiskIsFollowed`, `StaleDiagnosticsAreDue`). `FileSetCurrent` and `StaleIsDirty` are
  inductive beside the type; the others need more. A member stays as mounted because only members are
  tracked as members, and only URLs are fetched (`ArchiveInv`). The buffer stays
  because the server's version of an open document is the newest (`EditorInv`);
  otherwise an older change could pass for a newer one. The disk is followed because the last report
  about a file says whether it exists now (`LastReportTrue`) and one without reports is as on disk
  (`DiskInv`). A notification brings any number of reports; `AfterReports` is
  stepped along them, and `LeastNumber` replaces the induction.
* `UrlCacheProofs`: `TypeCorrect`, `MetaAlways`, `AskedFirst`, `AskedOnce` and
  `PrepareCovers`. One inductive invariant carries them all. Its part about a
  single process, `RunInv`, says what the process has in hand at each place
  (`InHand`), which consent it relies on (`Agreed`), what of the walk is done or
  still waiting (`Walk`) and what a finished one left (`Done`). Each of these
  only ever needs files and consents to be there, and no step of anyone takes
  one away (`Grow`): so a process keeps `RunInv` while others move (`Kept`), and
  a step is proved by looking at the one that moves (`OneMoves`). `TypeOK` alone
  is not inductive: that an object is a text follows only from what a process
  in `store` has in hand.
* `InferWalkProofs`: `NotInsideItself`, `ImporterStaysCurrent` and `DependenciesInferredOnce`. For the
  first, the type of the stack suffices: every way into a dependency
  (`ImportInfers`, `ApplyImported`) asks `InProgress` first, and every way out
  takes one module off. The second needs to know where on the work stack each
  module was entered. `WalkInv` counts the items from the bottom, so that what lies
  below does not move when the top is worked on, and says of each Resume item that it restores
  the module that is innermost when as many crossings lie below it as the
  session has modules (`Returns`, `Crosses`, `Depth`), and of every item that its node
  or name belongs to the module it will be worked on in (`Fits`). The third is an action property: what the
  session remembers of a dependency is never replaced. Each Resume item that will remember something
  has a key that is still free (`KeysFree`), and two of them never have the same: a key names
  the module that was entered at the item's depth, the depths differ, and no module is in progress twice.
* `InferWalkReportProofs`: `FailuresAreReported`, for all programs. A failed type
  moves between scopes as an annotation, as a result carried for a callable, as
  a seed, as an argument held by a Resume item and through the session's memo.
  `ReportInv` says of each where its reason is: with the scope's own errors,
  with the session's, or with the scope below, for what a scope was opened with
  (`ScopeOK`, `Link`). A body's scope is dropped with its errors when its target
  is annotated; therefore the target of each open one is annotated already or
  its item is still waiting on top (`Waits`). That a recursive callable is reported
  is an invariant of its own (`CycleNoted`): the report may be in a scope of a module
  or with the session, and one that is dropped was always handed on.
  `ReadsAreThere`, for all programs, on top of these
  invariants. `AllSound` says two things of every scope, at work or suspended, at its
  place on the stack. Its waiting items are `Attended`: what they will read is annotated in
  that scope, or an item above them, of that scope, is there to annotate it. And it is `Settled`:
  where an annotated node is a reference that leads to an import, and passes no seed on
  the way, the values that the import's module was loaded with are annotated. A call of an
  imported callable reads those values and not its own children's, which is why
  `Attended` alone would not do. That no scope is opened for a reference is part of the
  invariant, since a node gets its annotation when the scope opened for it ends.
  Where a chain of references leads (`Route`) is a recursive function of the number of hops;
  what the proof needs of it (`RouteBegins`, `RefLeadsOn`, `OtherStays`) is shown by the least hop
  at which it would fail, without an induction theorem.
* `HostContextProofs`: `PrintIsCurrent`, `IdentitiesAreUnique`,
  `TextsAreSnapshots` and `BundlesAreClosed`. The first is inductive. For the others `IInv`
  describes all places a definition lives in: the files table, the registry, the
  caller's modules, an archive that is being restored, the imports of the frames (`LiveInv`), and the
  definitions that are still being made (`FramesInv`): no two frames have
  one identity (a cycle is refused), none is in the table yet, and each
  lies within the root of the one that imports it. So `Finish` adds one
  definition of a new identity, whatever failed before, and a text comes from `sources` or
  goes there.
  `ExportsComeBack` is `RoundTrip` for every archive. One half is about `pack` alone: collecting
  breadth first, for as many turns as there are definitions, finds all that is imported, each identity once (`CollectedAll`); the
  member names it makes up differ (`NamesDiffer`); so the archive says, member by member, what the
  definitions say (`PackedTells`). The other half is an invariant of loading (`AInv`): a
  definition made of a member has the member's text and its imports in order (`MadeInv`), a frame has
  those finished so far (`MakingInv`), and what is handed on or restored was
  finished (`HandInv`). It needs that two members of one archive were read from one content: always
  so for archives in memory (`MemoryArchivesStayApart`, as their numbers are given once),
  and for a ZIP while it is not rewritten. `DefinitionsLast` is an action property: no call takes away a definition or
  a name. The recursive functions of `pack` are followed a step at a time (`Stepwise`: a set that has 0
  and with each number the next).
* `ExpressionParserProofs`: `FramesStayInStep`, for every text, tree and printer.
  `ParseInv` says of the whole stack what `FramesAgree` says of its top: the frames below the
  one at work all wait for a node (`Waiting`), and those of calls and
  comparisons are formed as they were opened (`Formed`). Which scopes belong to
  which frames (`Paired`) is then known frame by frame, from two lemmas on what a
  frame on top adds (`PlainFrame`, `OwningFrame`), and each arm of the loop is one
  of five moves: it yields a node, closes a scope, becomes another frame,
  descends to a child, or opens a scope for one. To be provable the printer is a
  constant there (`TextOf`), since its recursion is out of the prover's reach.
* `MeasureProofs`: `PhasesAreSound`, that is `PhaseSound`, for programs of any length and any result
  of calls. Of each node `Sound` says four things: its phase covers what it varies with
  (`Varies`); the phase of its law covers the parameters upstream, through any draws (`LawVaries`);
  whatever bindings it is cut at, the walk for parameters finds all that are upstream
  (`ParametersFound`) and the one for draws all it varies with (`DrawsFound`).
  All four are needed at once: the walks prune by phase, so that they miss nothing
  rests on `Varies`, and that a reification is fixed rests on what the walks
  find; a law's phase takes the place of its body's, so `Varies` of a law rests on
  `LawVaries`. A new node changes nothing for those before it (`FoundFrame`,
  `UpFrame`, `EarlierSound`), and what is upstream of it is upstream of an operand (`NewUpstream`).
  What a walk reaches is a recursive function; the proof uses only that it is the
  least set that has the start and is closed (`ReachedLeast`), which is shown by the
  least node at which it would fail. The theorem is about legal programs, so not about the two
  cases that `Legal` keeps out, in which the phases are wrong.
  Its last section is what the supports rest on, for all sets of the model and all points:
  what `subset_of` proves is so (`SubsetIsSound`), `join_scalar_sets` answers a set above
  each of those it joins (`JoinCovers`), and `intersect_intervals` one that has every point of
  both (`MeetCovers`), so that truncation loses none (`TruncationCovers`). `Points` are within
  `Infinite`, which stands for the infinities of the code. That a whole measure has its support
  there (`SupportSound`) stays with TLC.

Only model-checked, and why:

* all liveness, and with it the fairness of `ImplementsFairContract`, `EditsComplete`,
  `DiagnosticsCatchUp`, `DiagnosticsConverge`, `RunsEnd`, `Terminates`,
  `CallsReturn`: fairness and `ENABLED` are out of the prover's reach;
* `ResultsAgree`, `RoundTrip` of the expressions,
  `QueriesCorrect`, `QueriesIndependent`, `NamesKeepTheirMeaning`, and the
  soundness of types and sets (`MassSound`, `SupportSound`, `DrawsNormalized`):
  each compares a result with a recursive definition of what it
  ought to be (`Meaning`, the printed tree, a density, what a name denotes, a
  sum over worlds), and no prover here unfolds one.


## 6. What is not modelled

* `infer: rules`: the rules of broadcasts, indexing, reductions and scans, matrices and
  tables, disintegration and Bayesian operations, `tilt`, sets as values, standard modules
  and the catalogue.
* the rest of `lsp: features`, `core` but for its value sets, `flatpir`, `formula`, `mathdoc`,
  `convert`, `lint`, `data`, `stablehlo`, `hs3`: each call is a
  function of its arguments. Nothing of theirs survives the call, so there is
  no order of steps for a model checker to vary; a model would restate a table.
* `determinizer`: the rules named under `Determinizer` above. Over the reals
  that a rule preserves densities is analysis; the finite tables here are enough for
  what pins, substitutions and sweeps can break.
* `syntax`: the lexer, statements, docs, white space, widths in characters and the depth guard.
* `host`: data files and their roots, archives within archives and directories
  below a bundle's, compilation, and the typing behind `set`.
* `cli: commands`, `python-api`, `wasm-api`, `bundle`, `fileaccess: locations`:
  single calls over immutable data; what they share with anybody is the URL
  cache and the host's context, which are modelled.
* `lsp: handshake`: planned.
* Inside the modelled parts: what diagnostics say, URL and path syntax, hashes
  (a digest is taken to identify its text), salsa's own bookkeeping beyond
  "a write waits for clones and cancels their queries".

## 7. Plan

In this order:

1. `ModuleBundle` (`modules.rs`): insertion, ambiguity of literal names, relative
   identities; `InferWalk` over it, with literals in place of identities.
2. `InferWalk`: broadcasts and kernels, which resume bodies twice; `MeasureTypes`:
   broadcasts, disintegration and the Bayesian operations.
3. `LspHandshake` (`server.rs`): nothing but initialize is served before
   initialized, nothing but exit after shutdown; composed with `LspRequests`
   at the start and end of its main loop.
4. `Determinizer`: chains, and densities and samples of `iid`.

Theorems: of `Determinizer`, that no two queries sample from one state.
