# TLA+ models and proofs for the SAP CPI toolkit

The toolkit is a set of small services around SAP Cloud Integration: a control
plane for mock endpoints (`cmd/adapter-control`, `internal/adaptercontrol`),
the mock containers (`adapters/sftp`, `adapters/mock-http`), a worker with
developer tools (`cmd/worker`), a proxy to CPI tenants (`cmd/cpi-dev`), a Groovy
script runner (`groovy-runner`), a portal with single sign-on (`cmd/portal`,
`internal/auth`) and a React front end (`web`).  PostgreSQL is the only shared
store; every SQL statement runs in its own transaction, and no handler takes a
lock across two statements.  In the browser every page is one thread that awaits
requests, and an answer finds a page that may have moved on.  These two are where
the interesting behaviour comes from, and what the modules below are about.

## 1. Inventory

| Part | State | Operations | Interacts with | Hard behaviour | What makes it correct |
|---|---|---|---|---|---|
| SFTP configuration store (`store.go`, `handlers.go`) | one JSON row `ac_sftp` | start-up `InitSFTP`, GET, PUT, regenerate key | SFTP page, SFTP adapter | read-modify-write in two statements; discarded errors; crash during start-up | key and fingerprint are a pair; a save keeps the key; a served request finds a complete row |
| SFTP adapter, host key (`adapters/sftp/main.go`) | process, key file on a volume, sync goroutine | boot, load or generate, persist, sync | control plane, volume | boots without the control plane; GET-then-PUT; crash while writing the file | the key survives restarts; what the page shows is the active key |
| SFTP adapter, authentication | per-connection attempt | password and public-key callbacks | control plane | configuration changes or disappears during the attempt | verdict by a configuration stored during the attempt; attempts end |
| SFTP files (`diskHandler`, file browser handlers) | directory tree on a shared volume | read, write, mkdir, move, chmod, remove | SFTP clients, page | two writers on one tree | paths stay below the root; a move never loses a file |
| Scenario and adapter catalogue | `ac_scenarios`, `ac_adapters` | create, update, delete, cascade, activity | page, mock container | stale checks; fire-and-forget updates | no adapter without its scenario; every write is one legal step |
| Mock HTTP adapter (`adapters/mock-http/main.go`) | none but the request in progress | answer a request | control plane | stale copy during the delay; lost reports; reserved ids | the answer is the adapter's; activity comes from traffic, of the adapter or of an earlier one of its id |
| Assets, connections | `ac_assets`, `ac_connections` | single-statement CRUD | page | none | rows are independent |
| CPI API proxy (`cmd/cpi-dev/cpi_api.go`) | token cache in memory | token lookup, fetch, call | worker's instances, tenants | expiry, late answers, concurrent misses, edited keys | no dead token is handed out |
| CPI instances (`cmd/worker/cpi_instances.go`) | `w_cpi_instances` | create, update, delete | cpi-dev | type and key read apart by cpi-dev | type and key change together |
| Scaffold preflight and upload (`scaffold_templates.go`) | tenant content | preflight, ensure package, create or update artifact | tenant, instances | several external calls; partial failure; check and use | never on a productive system; artifacts have packages |
| Monitoring tiles | `w_monitoring_tiles` | list, create, delete | page | `sort_order` by `MAX+1` | order of creation |
| Portal authentication (`internal/auth`) | session map, login state cookie, JWKS cache | login, callback, logout, cleanup, key refresh | identity provider | concurrent logins, stale keys, refresh under a lock | a session belongs to a verified login; known keys stay known |
| Worker collections, lookup tables, settings | `w_http_collections`, `w_http_requests`, `w_lookup_tables`, `w_settings` | CRUD, settings PUT per key | pages | partial failure of a multi-key PUT | cascade; all keys or none is not promised |
| EDI, test data, converter, formatter, XSD, keys | none | pure functions | worker, pages | counts, separators, escapes, grouping | agree with a reference definition |
| Groovy runner | HTTP pool of eight, one executor per script | execute with timeout | page | scripts that ignore interruption | every request gets an answer |
| Web: worker hook, form panels (`useWorker.ts`, `KeyGen`, `CertGen`, `EDITools`) | requests in flight, loading, error, result | edit a form, generate, clear | worker | nothing matches answers with requests; numbers typed as free text | the result is the last form's; limits hold |
| Web: editor pages (`EditorPanel`, `Converter`, formatters, XSD) | input, output, direction | edit, convert, load an asset, change direction | worker, assets | direction changed during a conversion | output is the last input's and is labelled as what it is |
| Web: HTTP client | request form, response | edit, load and save assets, send | worker, assets | rows of equal or empty names; what was in the form before | a saved request comes back; the response is the last request's |
| Web: Groovy IDE, script library | script, output, lint marks and timer | edit, lint, run, load from the library | Groovy runner | loading the same script twice; answers to older scripts | output is the last run's; the script picked is in the editor |
| Web: instance bar, Auth Header | list, selection | refresh, choose, save a header | worker | lists late and out of order after deletions | the selection is listed and stays |
| Web: pages of rows (settings dialog, mocks, lookup tables, assets) | list, one form, the box "Logging" | load, open, save, delete | all stores | answers closing later forms; lists patched by hand | a form writes its row; a list at rest is the table |
| Web: monitoring | dashboard with counts, message list | select, filter, turn pages, add and delete tiles | cpi-dev | instance, filter and page change under requests | the view is of what is selected |
| Web: SFTP file browser | folder, rows, dialog | navigate, create, upload, move, delete, preview | adapter-control | reload after a change while another folder was opened | the rows are those of the folder shown |
| Web: test data | text, mode, fields, choices, CSV | analyse, choose, generate, save in batches | worker, assets | the text changes while it is analysed | the fields are the template's |
| Web: interface diagram | boxes, arrows, panel | draw, click, change, delete | none | two ways to delete that do not know each other | arrows join boxes; the panel shows what is there |
| Portal proxy, deployments, scripts | none | forwarding, configuration | - | - | - |

`PROJECT.json` lists these parts with their files and the hazards with the line
where each one bites.

## 2. Modules

| Module | Models | State | Actions |
|---|---|---|---|
| `SftpRegister` | abstract: settings and key pair as two independent fields | `row` | `Create`, `Save`, `Rotate` |
| `SftpStore` | the SFTP row, its start-up and the handlers that change it | `row`, `plane` (process), `request` (one goroutine per slot), `used` (keys generated) | `BootCheck`, `BootInsert`, `BootInsertFails`, `PlaneCrash`, `UISave`, `Regenerate`, `Read` (SELECT), `Upsert` |
| `SftpHostKey` | the adapter's boot, key file and sync goroutine, next to `SftpStore` | `adapter`, `hostKey`, `disk`, `sync` | `FetchConfig`, `LoadKey`, `GenerateKey`, `PersistKey`, `StartServing`, `AdapterCrash`, `SyncReadFile`, `SyncGet`, `SyncPut`, `SyncFails` |
| `SftpAuth` | authentication attempts, next to `SftpStore` | `login`, observer `window` | `Attempt`, `FetchForAuth`, `FetchFails`, `Decide`, `StoreMoves` |
| `AdapterCatalog` | abstract: scenarios own adapters | `scenario`, `adapter` | one per legal change |
| `AdapterStore` | the two tables and their handlers | `scenario`, `adapter`, `handler`, `minted`, `reports` | one per SQL statement |
| `MockHttp` | requests to mock endpoints, next to `AdapterStore` | `call`, `posts`, observers `window`, `called`, `late` | `Request` (with what is answered at once: `/health`, the method OPTIONS), `Fetch`, `FetchFails`, `Reply`, `PostActivity`, `SftpConnection`, `CatalogueMoves` |
| `ScaffoldUpload` | the scaffold page, preflight and upload handlers, an instance row and tenants that others edit | `instance`, `package`, `artifact`, `page`, `request` | page: `Select`, `EditForm`, `Cancel`, `CheckBeforeUpload`, `ConfirmUpload`; handler, one action per query or external call: `CheckType`, `ReadKey`, `SeePackage`, `SeeIFlow`, `FetchCSRF`, `EnsurePackage`, `CreatePackage`, `LookForArtifact`, `PutArtifact`, `PostArtifact`; around them `SaveInstance`, `DeleteInstance`, `TenantChanges` |
| `TokenCache` | token cache and instances | `instance`, `cache`, `job`, `now` | instance CRUD, `Start`, `ReadKey`, `Lookup`, `Issue`, `SetToken`, `Call`, `Tick`, `CpiDevRestart` |
| `WebPage`, `UseWorker` | what pages share; the hook `useWorker` | - | operators `Posted`, `Ended`, `Awaited` on a record of flight, loading and error |
| `LastAnswer` | abstract: a panel that shows the answer to the last question, or nothing | `pending`, `shown` | `Ask`, `Answer`, `Clear` |
| `ToolPanels` | the sections of the key, certificate and EDI pages | `panels`, one record per section | `EditForm`, `Generate`, `PanelArrives`, `ClearResult`, `OpenInToXml` |
| `EditorTool` | formatters, XSD generator, converter | `ed` | `EditInput`, `ClearEditor`, `ChooseDirection`, `Convert`, `EditorArrives`, the load button's four |
| `HttpClient` | the HTTP client page | `hc` | `EditRequest`, `UpdateHeader`, `RemoveHeader`, `LoadHeaders`, `LoadBody`, `loadRequestFromAsset`, `sendRequest`, `HttpArrives`, `CloseError` |
| `GroovyIde` | IDE, script library and what `App` keeps between them | `ide`, `inject`, `filter`, observer `picked` | `EditScript`, `runLint`, `LintArrives`, `ResetToSample`, `run`, `RunArrives`, `loadInIDE`, `SetFilter` |
| `InstanceContext` | the list and selection of instances, Auth Header | `instances`, `ctx`, `auth` | `refresh`, `ContextServed`, `ContextArrives`, `ChooseInstance`, `InstancesMove`, `EditAuth`, `SaveHeader`, `HeaderSaved` |
| `RowForms` | six pages that keep rows | `rf` | `OpenSettings`, `handleClose`, `Remount`, `Refresh`, `openNew`, `openEdit`, `cancel`, `save`, `createScenario`, `deleteRow`, `putSetting`; the server: `RowServe`, `RowsMove`; answers: `RowSettles` |
| `Monitoring` | dashboard and detail view | `mon` | `refreshCounts`, `addTile`, `deleteTile`, `goToDetail`, `onBack`, `setFilter`, `RefreshMessages`, `TurnPage`, `SelectSystem`, `SystemWithoutKey`, `DashboardSettles`, `DetailSettles` |
| `SftpFiles` | the volume, the handlers on it, the file browser | `volume`, `browser` | page: `navigate` to `CloseModal`; handlers: `ServeList`, `ServeRead`, `ServeWrite`, `ServeUpload`, `ServeDelete`, `ServeMove`, `ServePicker` (the move dialog's FolderPicker); `OrderSettles`, `PickerSettles`, `ClientWrites` |
| `TestData` | the test data page | `td`, observer `stale` | `switchMode`, `ClearAll`, `EditContent`, `analyse`, `AnalyseArrives`, `FieldRow`, `onCsvChange`, `generate`, `downloadCsvTemplate`, the batches' four |
| `Diagram` | the interface diagram | `nodes`, `edges`, `panel`, `fresh`, observer `ghost` | `onConnect`, `onNodeClick`, `onEdgeClick`, `onPaneClick`, `addNode`, `updateNode`, `updateEdge`, `deleteSelected`, `DeleteKey` |
| `MCWebPages` | the pages side by side, one exercised per behaviour | `page` | `WebNext` |
| `SftpStore_proofs`, `SftpHostKey_proofs`, `SftpAuth_proofs`, `AdapterStore_proofs` (with `MockHttp`), `TokenCache_proofs`, `ScaffoldUpload_proofs`, `PagesAtRest_proofs` (`RowForms`, `Monitoring`, `SftpFiles`), `WebPages_proofs` (the other page modules and `MCWebPages`) | theorems | | |
| other `MC*` | symmetry sets and values for TLC | | |

How the models follow the code:

* One SQL statement is one action.  A handler that SELECTs and then upserts is
  two actions, and any other handler, a crash or a failing statement may come
  between them.  `net/http` starts a goroutine per request: a *slot* is such a
  goroutine, and a slot that is idle can take up any request.
* A process crash ends its goroutines and keeps what is in the database and on
  the volume.
* Data is abstract: the settings of the SFTP server are one value, a key is a
  model value, a fingerprint is a record that names the key it was computed from
  and how it was written (`generateSSHHostKey` keeps base64 padding, the `ssh`
  library leaves it out, which is why the adapter always finds a difference).
* A page is one thread.  A handler runs to its first `await` in one step, and what
  follows is a step of its own when the answer comes.  Nothing in the front end
  matches an answer with its request, so any request in flight may be answered, or
  fail, next.  Where only the answer's identity matters a request stands for its
  answer; where the server's state matters (rows, files, instances) the server
  serves a request in one step and the page receives it in a later one.
* A tool page shows what the hook `useWorker` keeps.  `LastAnswer` states what such
  a page promises and is instantiated by each of them with
  `pending <- Awaited(worker)`: the last request in flight.
* Some promises have exceptions in the code.  A history variable or field (`clean`
  of the pages with lists, `stale` of the test data, `ghost` of the diagram) records
  that an exception has happened, and the property holds where it has not: the
  property thereby says that there are no other exceptions.
* The pages of `RowForms` are the settings dialog, the mocks, the lookup tables, the
  assets, the button that saves an asset, and the dialog's box "Logging".  The box
  shares with the instances of the same dialog only the opening, so it is a page of
  its own, whose one row is the setting when it is on.
* The move dialog of `SftpFiles` closes when the reload that follows its own move is
  answered, and its `FolderPicker` has requests that come to nothing when it closes;
  so a move from the dialog is an order of its own (`moveHere`, then `listHere`), and
  the picker's requests are kept in the dialog.
* The observers of `MockHttp` guard nothing.  `window` has the rows an adapter had
  during a request, `called` the adapters with traffic since their row was made (an
  adapter made again starts without), `late` those made while a report of an earlier
  adapter of the same id was on its way.  Reports under way are kept as the set of
  adapters they name (`posts`, `reports`), so delivering one may leave others: the
  model thereby also allows a report to arrive more than once.
* Operators marked *slip* in a comment are not part of a specification.  Each
  is a plausible mistake in the operator that follows it; putting it in that
  operator's place must make a property fail, which shows that the property
  can fail.

## 3. Runs

The bounds are the smallest at which the named interleavings happen: two slots
for two overlapping handlers, one more key than the steps of a behaviour that
need a fresh one, one adapter id that can be deleted and made again.

| Run | Bounds | Shows |
|---|---|---|
| `SftpStore_faults` | 2 slots, 3 keys, failing statements, crashes | `KeyFingerprintAgree`: key and fingerprint stay a pair |
| `SftpStore_lostkey` | 2 slots | violation of `SaveKeepsKey`: a save undoes a regeneration |
| `SftpHostKey_mismatch` | 2 slots, 3 keys, all faults | `MismatchOnlyFromKeyFile`, `KeyFileKept` |
| `SftpHostKey_shown` | 1 slot, no failing statement | violation of `FingerprintShown`: the sync goroutine pairs the file's PEM with another key's fingerprint |
| `SftpHostKey_keyfields` | 1 slot | violation of `SyncKeepsSettings`: the sync overwrites a save |
| `SftpAuth_current` | 1 client, 1 slot, 3 keys, no failing statement | `VerdictIsCurrent`, `AttemptsEnd`; of the store itself, `CompleteWhileServing`, and `RegisterSpec`: handlers that do not overlap implement `SftpRegister` (with two slots they do not, which `SftpStore_lostkey` shows) |
| `AdapterStore_catalogue` | 2 slots, 2 scenarios, 1 adapter id | `NoOrphan`, and `CatalogueSpec`: every write is a legal step of `AdapterCatalog` |
| `MockHttp_answers` | 1 caller, 1 slot, 1 adapter id and both reserved ids as URLs, both modes, 1 config with credentials | `AnswerIsTheAdapters`: an answer is that of a row the adapter had during the request; `ActivityNeedsTraffic`: activity on an adapter is from its own traffic, or from a report that was on its way when the adapter was made |
| `TokenCache_life` | 2 jobs, 1 instance, 2 keys, lifetimes 0..3 margins, clock up to 5 | `CachedWithinLife`, `LiveTokenHandedOut` |
| `ScaffoldUpload_deploy` | 1 user, 1 instance that moves between a dev and a prd tenant, 1 package, 1 iFlow, 2 designs | `RestrictedOnlyByRace`, `AnswerTellsTheTruth`, `PageComesBack` |
| `ScaffoldUpload_restricted` | the same | violation of `NeverOnRestricted`: the row is edited between the query for its type and the query for its key |
| `WebPages` | 2 documents, 2 row ids, 2 instances with a tile each, 2 filters, 2 result pages, 2 requests in flight (3 on the dashboard, and a count for each tile), paths `d`, `f`, `d/f`, 2 schemas with a field each, 2 boxes, 2 arrows | the seventeen properties below |

In `WebPages` pages share no state, so a behaviour exercises one of them while the
others stand in their first states; the run is the sum of the pages, not
their product, and takes about three minutes.  Two requests in flight are
what an answer needs to overtake another, and what a change needs to overlap a
reload; two ids, what a form needs to be filled from one row and save another; two
systems, what a view needs to be of the wrong one.  A move of a folder that would
need a path deeper than `d/f` is left out.

Deadlock checking is off, except in `WebPages`, because the systems may really rest
(no key left to generate within the bound, the clock at its bound, every request
answered).  Each passing run checks its type invariant too.

### What the pages promise

| Property | Module | Says | Exceptions it states |
|---|---|---|---|
| `PanelsShowLastAnswer` | `MCWebPages` | a section of `ToolPanels` shows the answer to the last form submitted (implements `LastAnswer`) | none |
| `EditorShowsLastAnswer` | `EditorTool` | the output is that of the last input converted | none |
| `ToggleNeverMislabels` | `EditorTool` | the output is labelled as the format it has | a conversion under way when the direction changes |
| `ResponseIsLastAnswer` | `HttpClient` | the response is that of the last request sent | none |
| `SavedRequestComesBack` | `HttpClient` | a request saved and loaded into any form is the one saved | a request without a URL |
| `OutputIsLastAnswer` | `GroovyIde` | the output is that of the last run | none |
| `PickedIsInEditor` | `GroovyIde` | the script loaded last is in the editor until it is edited | none |
| `SelectionListed`, `SelectionSticks` | `InstanceContext` | the selected instance is listed; no list moves the selection while it is | none |
| `FormsWriteTheirRow` | `RowForms` | a save writes the row its fields were filled from, or a new one | none |
| `ListAtRestIsTable` | `RowForms` | with nothing in flight the list is the table | requests served or answered out of order, a failure, another writer, the box used while it is read |
| `ViewIsOfSelection` | `Monitoring` | with nothing in flight tiles, counts and messages are of what is selected | answers out of order, a failure |
| `RowsAreOfFolder` | `SftpFiles` | with nothing in flight the rows are the folder's | answers out of order, a failure, another client, a folder opened while a change is under way |
| `FieldsFitTemplate` | `TestData` | fields, settings and choices are of the template documents are made of | in XML mode, a text changed while it was analysed |
| `DiagramAgrees` | `Diagram` | arrows join boxes, the panel shows what is on the canvas | the Delete key used under the panel |
| `PagesSettle` | `MCWebPages` | no button stays disabled | none |
| `PagesTypeOK` | `MCWebPages` | types, and that typed numbers are clamped to their limits | |

The exceptions are behaviours of the code, not of the model: a conversion
finished after the direction was switched is offered as a file of the wrong
type, an older folder's rows can appear under a newer folder's name, a
box deleted with the key stays in the panel.  No text of the repository promises
otherwise, so they are stated in the properties and not as findings.

### Fairness

Fairness is assumed in three places, and never of people or of another process.  In
`FairAuthSpec` each authentication callback keeps
taking steps (`WF` of `AuthStep`), because it runs in its own goroutine and its
only wait is an HTTP call with a five second timeout, which appears as
`FetchFails` being enabled throughout the fetch.  Nothing is assumed of the
control plane.  In `ScaffoldUpload`'s `FairSpec` the upload and preflight
handlers keep taking steps (`WF` of `HandlerStep`): each waits only for a query
or for a call with a timeout of 15 or 60 seconds, and every such step may fail.
In `MCWebPages` what arrives on the page exercised keeps arriving (`WF` of
`Settles`): the browser settles every `fetch`, with an answer or with a failure, and
either may happen to any request in flight.  Where a page has several, fairness is
of the oldest (`RowSettles(1)`, `DashboardSettles(1)`, `DetailSettles(1)`).
Nothing is assumed of clicks.  `PagesSettle` is the property that needs it; it says
nothing of the file browser and the diagram, which disable no button while they wait.

### Findings

The violation runs are disagreements between code and comments; `PROJECT.json`
quotes the lines.  In short: a save can undo a key regeneration (and the same
read, when it fails, erases the key); the adapter's sync goroutine can store the
key file's PEM with another key's fingerprint; the same goroutine can undo a
save of the page; the upload handler reads an instance's type and its key in two
statements, so an upload that passed the type check can reach a restricted system.

Two more are recorded here and are not runs.  Nothing keeps a user from giving an
adapter the slug `sftp` or `health` (`store.go:233`): the mock's mux answers
`/health` itself and the control plane answers the poll for `sftp` with the SFTP
server's credentials, so such an adapter is not reachable at the URL that
`models.go:23` describes, and every SFTP connection counts as activity of an adapter
called `sftp`.  `AnswerIsTheAdapters` exempts the two words; `ActivityNeedsTraffic`
does not, and its theorem covers an adapter called `sftp`, whose traffic is then that of
the SFTP server too (the run has both words as URLs only).  And a report of activity names an id alone (`store.go:338`), so one that
is late marks an adapter that was made again under the id of a deleted one and never
called; `ActivityNeedsTraffic` says that there is no other way.

## 4. Proofs

`SftpStore_proofs` proves, for any slots, keys and settings:

* `StoreTypeCorrect`: types.
* `PairKept`: `KeyFingerprintAgree`.  By itself it is not inductive: a handler
  about to write carries the pair it will store, so `AgreeInv` adds that what a
  handler holds in its write step, or after generating a key, is a pair.
* `ServingComplete`, for a database that answers: `ServingInv` adds that a
  handler holds the half of the config that its merge will not take from the row,
  and that handlers run only in a process that serves.
* `RegisterRefined`, for a database that answers and a single slot: the
  refinement to `SftpRegister`.  `Prepared` says that what the handler is about
  to write is the current row with new settings or with a new key; with a single
  slot the row cannot change in between.  (`SftpStore_lostkey` shows that it
  fails with two.)

`SftpHostKey_proofs` proves, with failing statements and all crashes:

* `TypeCorrect`: types, strengthened by the adapter having a key once it has
  chosen one.
* `MismatchAccounted`: `HostKeyInv` says of every config on its way to the row
  (stored, held by a handler, held by the goroutine) that it is a pair or the
  goroutine's combination, and keeps track of which keys have been generated.
* `FileNeverReplaced`: an action property from the same invariant; the part
  needed is that a key is only written to a file that was just created.

`SftpAuth_proofs` proves `AuthTyped` over any database and, over one that
answers, `VerdictsCurrent`: `Witnessed` says of an attempt that fetches that what
the row holds is among the settings seen, of one that decides that its copy is,
and of a finished one that some settings seen support the verdict.
`ServingInv` of `SftpStore_proofs` gives that a fetch never gets the zero config.

`AdapterStore_proofs` proves, for any slots and ids:

* `CatalogueTyped`: types.  `Filled` adds that only an update that has not read
  its row still has empty fields.
* `Owned`: `NoOrphan`.  The check a create starts with is not used: the foreign
  key of the insert and the cascade of the delete are what keeps it.
* `CatalogueRefined`: the refinement to `AdapterCatalog`, one lemma for the
  scenario statements, one for the adapter handlers, one for the deletes and
  reports.  `MintedIfThere` is needed to see that a new scenario overwrites none.

`TokenCache_proofs` proves `TokenTyped`, `EntryWithinLife` and `LiveTokens`.
`TokenInv` follows a token on its way: in a job between the endpoint's answer and
the cache, and in the cache, and bounds the expiry that will be recorded by the
token's end.

`ScaffoldUpload_proofs` proves, for any users, instances, tenants and names:

* `UploadTyped`: types; `Underway` adds what a request in progress has at each
  program counter.
* `OnlyByRace`: `RestrictedOnlyByRace`.  `RaceInv` says that a request past the
  type check that has seen no edit is against a row of an allowed type, so the
  key it reads is that of an unrestricted tenant.
* `TruthTold`: `AnswerTellsTheTruth`, an action property, from the same
  invariants.

The second half of `AdapterStore_proofs` is about `MockHttp`, for any callers:

* `MockTyped`: types; `Found` adds that a request that is answering has found a row
  or the SFTP server.
* `ActivityAccounted`: `ActivityNeedsTraffic`.  `TrafficInv` follows a report from the
  mock (`posts`) over the control plane's goroutine (`reports`) to the row: whatever is
  on its way to an adapter that is there, or shows on it, is from traffic since the
  row was made or was on its way at that moment.  `ActiveBefore` says that no other
  statement marks a row, and `CatalogueMovesTraffic` what becomes of the observers
  when rows are made and deleted.
* `AnswersAccounted`: `AnswerIsTheAdapters`.  `AnswerInv` says that a request has seen
  the row as it is and the one it fetched, and that an answer is accounted for by
  one it saw.

`PagesAtRest_proofs` is about the three pages with several requests in flight, whose
answers may come in any order.  Each property says what is on display when nothing is in
flight any more, so its invariant has to say what the requests still in flight will
have done by then:

* `RowForms` (`RowTypes`, `OwnRowWritten`, `ListsShowTables`).  `RowInv` is `FormOK` and
  `ListOK`.  `FormOK` carries the equality of the row edited and the row the fields
  came from through every handler and answer, and into the saves under way.  `ListOK`,
  while `clean`, says that requests were served in turn, and per kind of page what
  the list will be: mocks, tables and assets read again after a change, so the last
  request leads to another or has read the rows there are (`WillRead`); the settings
  dialog patches its list by hand, so for every row the last served request that says
  something of it says what the server has, and the list does when none is left
  (`RowTold`); the box was read before it was used and shows what was sent last
  (`BoxOK`).
* `Monitoring` (`MonitorTypes`, `MonitoringShowsSelection`).  `MonitorInv` is
  `DashboardOK` or `DetailOK`.  While `clean`, either the tiles and everything under way
  are the selected instance's, or its tiles have been asked for and nothing of another
  instance comes after that (`TilesAsked`); in the detail view the newest request is
  for the filter and page on the controls.
* `SftpFiles` (`FilesTypes`, `RowsShowFolder`).  `FilesInv` is `FilesOK` (types: the
  volume is a tree, every dialog and request is of its shape) and `FolderOK`: while
  `clean`, the changes under way were made in the folder shown, and when none is, the
  last list asked for is of that folder and has been answered with what it holds, if
  it has been; when no list is asked for, the rows are.  A change says nothing about the
  rows until its reload is sent, which is why "no change" is the antecedent.

`WebPages_proofs` proves, for any texts, documents, headers, instances and schemas:

* `SectionShowsLastAnswer`, `EditorLastAnswer`, `ResponseLastAnswer`,
  `IdeShowsLastAnswer`: the refinements to `LastAnswer`.  The argument is one.
  `OneInFlight`, with the lemmas `PostedWorker` and `EndedWorker`, says that a page
  whose button is disabled while loading has at most one request in flight, so the
  one that ends is the one awaited; each page adds the shape of its record
  (`PanelsInv`, `EdInv`, `HcInv`, `IdeInv`), and every step is then an `Ask`, an
  `Answer`, a `Clear` or a stutter.
* `ToggleSafe` and `PickedLoaded`: `ToggleNeverMislabels` and `PickedIsInEditor`, from
  the same invariants.
* `SavedComesBack`: `SavedRequestComesBack`.  A JSON object has each name once, so
  `SetToSeq` of its entries is a sequence without repetitions in which each name has one
  row, the row that `HeadersOf` finds again, whatever order the entries came in
  (`NamedRows` and the lemmas after it).  Types of the header rows need that the filter
  of the rows (`Held`) gives rows, which is the induction described below.
* `SelectedListed` and `ChoiceKept`: `ContextStep` says of every step that it leaves
  list and selection, lets a list select, or is the user's choice from the list.
* `FieldsAreOfTemplate`: `FieldsFitTemplate`.  `TdInv` says what the form is while it
  waits (no fields, no choices, no template, and the text it asked about unless
  `stale`), which is what makes the answer fit when it comes.  `TdTyped` adds the
  types.
* `CanvasAgrees`: the invariant is `DiagramAgrees` with the types.
* A theorem of types for each page: `PanelTypes`, `EditorTypes`, `HttpTypes`, `IdeTypes`,
  `ContextTypes`, `TestDataTypes`, `DiagramTypes`.

Its last section is about the front end as it is composed in `MCWebPages`.  `PagesStep`
says that a step of the front end is, for every page, one of its own steps or a
stutter, so the conjunction of the pages' invariants (`WebInv`) is inductive, and the
results about single pages hold of the whole: `PagesTypes` (`PagesTypeOK`),
`PagesKeepPromises` (the nine state invariants of the run), `PagesShowLastAnswers`
(`PanelsShowLastAnswer` and the refinements of the editor, the HTTP client and the IDE)
and `PagesKeepChoices` (the two action properties).  With them every safety property
of the run `WebPages` holds for every value of the constants; `PagesSettle` is the
one that stays with TLC.

### Assumptions

Assumptions on the constants are the named `ASSUME`s of the modules, which TLC evaluates
with the values of the runs.  They say that the special values are distinct from keys,
settings, names, configs, documents, requests, rows, folders and conversions (in the
code: `null`, the empty string or `undefined` is none of them); that bounds are numbers,
and positive where the code has at least one of a thing (`HttpRows`, `MonitorPages`,
`TestCounts`); that the empty string is not a header name (`HttpNames`, as
`requestAsJson` leaves such rows out); that the tiles are finitely many
(`MonitorTiles`); and that each path a volume may hold lies in a folder
(`EntriesOfFolders`).  Header objects are finite by definition (`Objects`), as JSON
objects are.

### Proof by least counterexample

The library's induction theorems take an operator and cannot be used.  Where a fact
about all members of a sequence or a finite set is needed, it is proved with the
theorem `WFMin` instead, which takes a set: were the numbers for which it fails not
empty, there would be a least one (`LessThan`, `BelowDescends` in `PagesAtRest_proofs`).
That is how it is proved that the recursive function of `Held` exists and gives rows,
and that header rows have a last one of each name.  The method needs a set for each
use, so it suits single facts and not a theory of folds.

### What is only model-checked

`AttemptsEnd`, `PageComesBack` and `PagesSettle`: liveness under fairness is out of
the prover's reach.  Of the four violation runs nothing is proved, as they are about
what fails.  Every invariant, action property and refinement that a passing run checks
is stated by a theorem, some of them with the hypothesis of a database that answers.

## 5. Not modelled, and what could follow

Not modelled:

* Portal sessions, login state and the key cache (`internal/auth`).  The hazard is
  `getPublicKey` (`oidc.go:187`): it looks under the read lock and refreshes under
  the write lock without looking again, so that callers with an unknown key refresh
  one after another, and an empty answer replaces known keys.  A login started in
  another tab replaces the state cookie of the first (`middleware.go:119`), whose
  callback then fails.
* The Groovy runner: eight pool threads and an executor per script.  A script that
  ignores interruption holds its own thread after the timeout
  (`Main.groovy:85`); requests get their answers but threads accumulate.  That is a
  matter of the JVM's executors more than of this code.
* EDI, test data, converter, formatter, XSD, keys, certificates: pure functions from
  text to text, whose every property is about parsing character by character.  The
  pages that call them are modelled with a document standing for its result.
* The scaffold generator and the ZIP it is put into: output formatting.
* HTTP collections and their requests: stored by the worker and used by no
  page.  `settings.go` accepts several keys in one PUT without a transaction; the
  dialog sends one at a time, which is what `RowForms` has.
* The worker's HTTP proxy, the portal's reverse proxies, deployments and scripts: no
  state.  `scriptLibrary.ts` is data.
* A key file that is there but cannot be read at boot (`adapters/sftp/main.go:402`): the
  adapter would generate a key and write it over the file.  `KeyFileKept` speaks of
  crashes, restarts and rotation.  (A file that cannot be created or written, and one
  that the sync goroutine cannot read, are in the model.)
* Of what is modelled: `chmod` and the contents of files, the RSA and ECDSA fallback
  host keys, the order of tiles, lookup tables and repeat points of the test data,
  the dots between which arrows are drawn and the exports of the diagram, and the
  scaffold form's adapter fields.  Lint answers that arrive out of order are in
  `GroovyIde`, but no property speaks of the marks they leave.

What could follow: `PortalSession` with the key cache, and the diagram's dots, whose
number can be lowered under an arrow (`InterfaceDiagram.tsx:477`).
