# A verification of btcpay-rs

btcpay-rs lets a BTCPay Server plugin be written in Rust. A plugin is a `cdylib`; a generated C# assembly
loads it, feeds it events, renders its pages and keeps its settings. This directory models the parts of that
machinery in which several threads, a database that fails, a process that restarts and commands that share
files meet, checks the models with TLC and proves what matters most with TLAPS.

Paths below are relative to `src/`.

## 1. The system

### Parts, state and operations

| part | where | state | operations |
|---|---|---|---|
| settings backend | `dotnet/BtcpayRs.Host.BTCPay/SettingsRepositoryBackend.cs` | `_cache` (a document of two dictionaries), `_gate`, the row in BTCPay's settings table | `GetSetting`, `SetSetting`, `StoreGet`, `StorePut`, `StoreDelete`, all over `Load` and `Mutate` |
| runtime | `dotnet/BtcpayRs.Host/RustPluginRuntime.cs` | `_handle`, `_started`, `Metadata` | `Start`, `Stop`, `Dispatch`, `Pages`, `Page`, `Perform`, `Dispose` |
| hosted service | `dotnet/BtcpayRs.Host.BTCPay/RustPluginHostedService.cs` | `_subscriptions`, `_tick` | `StartAsync`, `StopAsync`, event and timer callbacks, the controller's calls, `Dispose` |
| deadline | `dotnet/BtcpayRs.Host/Deadline.cs` | a task, a delay | `RunAsync` |
| plugin handle | `crates/btcpay-plugin/src/handle.rs` | the plugin object | every call, behind a guard that contains panics |
| settings controller | `dotnet/BtcpayRs.Host.BTCPay/RustPluginSettingsControllerBase.cs`, `Views/` | none between requests | GET a page, POST a form or a command: `Collect`, `Validate`, `RunCommand`, `SubmitForm` |
| settings derive | `crates/btcpay-plugin-macros/src/settings.rs`, `choice.rs` | the struct it is derived for | `form`, `load`, `update`, `from_values`, `to_values` |
| UI documents | `crates/btcpay-ui`, `dotnet/BtcpayRs.Host/UiPage.cs` | none | building and serialising in Rust, parsing in C#, `FormById`, `ButtonByCommand`, `Field::validate` |
| example plugin | `examples/hello-plugin/src/lib.rs` | settings, counters, a list, each under a `Mutex` | `start`, `stop`, `handle` |
| host services bridge | `dotnet/BtcpayRs.Host/HostServicesImpl.cs` | none | the backend's operations, with exceptions contained |
| native loader | `dotnet/BtcpayRs.Host/NativeLoader.cs` | `_registered` | `Initialize`, `Resolve`, `VerifyAbi` |
| registration | `RustPluginBase.cs`, `RustPluginNotification.cs` | none | `Execute` |
| macros, contract types | `crates/btcpay-plugin-macros/src/lib.rs`, `crates/btcpay-plugin/src/` | a factory set once | metadata generation |
| builds | `crates/cargo-btcpay/src/build.rs`, `host.rs`, `native.rs`, `shim.rs` | a plugin's `target/` | `build`, `package` |
| toolchain, config, docker | `toolchain.rs`, `config.rs`, `docker.rs` | a cache shared by every plugin | `ensure_bindgen`, `ensure_btcpayserver`, `ensure_plugin_packer` |
| scaffold, command line | `scaffold.rs`, `main.rs`, `template/` | none; the generated plugin keeps its host under a `Mutex` | `new`, argument parsing; the generated plugin's settings page and `handle` |
| scripts, CI | `dev/`, `.github/` | none | |

### How they interact

BTCPay's host calls `StartAsync` once, later `StopAsync` and `Dispose` (or `Dispose` alone). The
runtime calls the plugin through the handle. From then on three kinds of threads enter the plugin:
timer callbacks (which overlap when one outlasts the interval), BTCPay's event loop, and web
requests. `Dispatch` calls `handle()`, receives a list of actions, and performs them after the plugin
has returned; a `SaveSettings` action becomes one `SetSetting` of the backend per key. Plugin threads
call the backend at any time through the bridge. Nothing but the backend's gate orders any of this.

A browser holds a page as it was rendered. What it posts back, a command or the values of a form, is
checked against the page as the plugin describes it at that moment, and then dispatched; the outcome
travels in `TempData` to the page shown next. Between the rendering, the check and the dispatch the
plugin's state may change, by its own threads, by events or by another request.

`cargo btcpay build` and `package` are separate processes. They interact through files only: cargo's
target directory, which the members of a workspace share; `target/btcpay` in the plugin's directory;
and a cache for all plugins. `--docker` runs the same commands in a container with the cache mounted and
a target directory per plugin. Nothing locks anything.

### What is hard

* **Interleaving.** `Dispatch`, `Page` and `Stop` test a field and use it later. Reads of the cached
  dictionaries take no lock. Two submissions are parsed under a mutex and saved outside it.
* **Failure.** The database may throw before or after committing. `Perform` swallows exceptions.
  A plugin may refuse to start, panic, or never return.
* **Restart.** The cached document is changed before it is stored.
* **Time.** A deadline abandons a stop that is still running, and disposal stops the plugin again.
* **Agreement.** The rules of a settings field are written in the derive and again in
  C#. Secrets never reach the browser, so "unchanged" must be told from "cleared" all along the way.
* **Stale pages.** A button may have disappeared, come to ask for a confirmation or be there twice by the
  time it is pressed; a form's fields may have other rules. The page is described three times for one
  press: when it is rendered, when the post is checked, when the answer is shown.
* **Contained failures.** An exception of the backend must not reach Rust, where it is a panic that
  poisons the Mutex the plugin held; `Dispatch` answers a failure like a handler that asked for nothing.
* **Leftovers.** A build finds the files of earlier builds, finished, failed or killed, and takes a file
  that exists for the result of the step that makes it. Other commands and the developer change files
  between a step that checks and the step that uses.

What makes each part correct is stated as the properties of section 4; `PROJECT.json` lists the
hazards, each at its line, with the properties that guard against it.

## 2. The modules

| module | models | kind |
|---|---|---|
| `PluginStore` | what the backend promises: writes take turns; one becomes visible, then stored, or fails in between; a restart forgets what is not stored | abstract specification |
| `PluginContract` | what the author of a plugin is promised: which methods are called when, and what may overlap | abstract specification |
| `SettingsBackend` | `SettingsRepositoryBackend`, one action per point where another thread may run | implements `PluginStore` |
| `PluginLifecycle` | `RustPluginRuntime`, `RustPluginHostedService`, `Deadline`, `PluginHandle`'s guard | concurrent, implements `PluginContract` |
| `SettingsSave` | a submission of the settings form: controller, example plugin's handler, `Perform` | concurrent, composed with `PluginStore` |
| `SettingsForm` | the derive, the rendered form, `Collect`, `Validate` | pure operators, one step per submission |
| `UiDocument` | a page as data: the builders of `btcpay-ui`, `UiPage.Parse`, `Field::validate` and `Validate` | pure operators |
| `PageRequests` | pages, commands and forms: the browser, the controller, `Page`, `Pages`, `Dispatch`, the guard, the bridge, three plugins | concurrent, over `UiDocument` |
| `BuildPipeline` | `cargo btcpay build`, `package` and `package --docker` over a file system | concurrent, with failures and kills |
| `*Proofs` | theorems about each of the six with a specification | TLAPS |
| `MC*` | values of the constants and symmetry for TLC, where a `.cfg` cannot give them | |

A definition named `X_Something` is `X` with a plausible bug in it; no run uses it, and each property
is shown to fail when it takes the place of `X`.

### SettingsBackend

`db` is the row in the settings table, `cache` is `_cache`, `gate` is `_gate`'s holder; `pc`, `call`, `doc`
and `answer` are each caller's place in `Load` or `Mutate`, its arguments, the document in its hands and
what it was answered. The settings and the store of a `PluginState` are two disjoint sets of keys of one
document. Seen as a `PluginStore`, its caller is writing (`Writing`) from the change of the cached document
to the commit or the exception. `promised` is a history variable: what the last acknowledged write stored.

| code | actions |
|---|---|
| the five operations begin | `GetSetting` ... `StoreDelete` |
| `if (_cache is not null) return _cache` | `FastPath` |
| `_gate.Wait()` | `Enter` |
| `_cache ??= GetSettingAsync(...)` | `AlreadyFilled`, `Fetch`, `FetchFails`, `Assign` |
| `change(state)` | `ChangeBegin`, `ChangeEnd` |
| `UpdateSetting(state)` | `Serialize`, `Commit`, `CommitFails` |
| the `finally` blocks | `Release`, `Unwind` |
| `TryGetValue` | `Lookup` |
| a new process | `Restart` |

Three facts about .NET and BTCPay are assumed, none about the order of threads. A fetch or an update
may throw, and an update that throws may have been committed. Replacing the value of an existing key is
atomic for a concurrent reader. While a `Dictionary` is being inserted into or removed from, a
concurrent lookup of any key of that dictionary can miss it (`Unstable`): the type does not support
concurrent readers of a writer, and missing a present key is the outcome modelled, not the worst one
possible. Base64 is not modelled: it is an injection of values into strings.

### PluginLifecycle

`host` is where BTCPay's host stands in `StartAsync`, `StopAsync` or `Dispose`; `handle` and `started`
are the runtime's fields; `subscribed` and `ticking` the service's; `plugin` what has happened to the
Rust plugin; `stopper` the two threads that may be inside `Stop` (the deadline's task, and `Dispose`);
`pc` the timer, event and request threads. `abandoned` and `stopCalls` are history variables.
A handle is `null`, `live` or `disposed`: a call on a disposed one throws, and the generated bindings
count calls, so a call under way keeps the native object alive. `Timer.Dispose` and disposing a
subscription wait for no callback under way. The owner may call `Dispose` without `StopAsync`, and
calls `StopAsync` also when starting failed. Requests may come at any time.

`PluginContract` is the same seen from the plugin, as trait `Plugin` and `handle.rs` have it: `start()` is
called once, `handle()` and `stop()` only after it succeeded, `stop()` twice at most, and no call begins
once the object is given up, though those under way may end after that. `Contract` reads its state off the
host's: how far the plugin has come off `plugin` and `host`, `held` off `handle`, and who is inside a
method off where the threads stand.

### SettingsSave

`memory` is the plugin's settings, `visible`, `stored` and `writer` are the backend as `PluginStore` has
it, `pc`, `form`, `todo` and `reply` each request. `Perform`'s call of `SetSetting` is two steps of the
store: `SetSetting` conjoins `Show`, `SettingIsSet` its `Persist`; `SetSettingFails` is `Fail`, or an
exception before anything changed. Between the two, other requests run, read and wait for their turn. What
the store does is `PluginStore`'s, which `SettingsBackend` is proved to implement.

The plugin starts with what `Loaded` makes of the document: a field that was never saved (`Unset`, as all
of them are in a fresh installation) or whose reading the bridge could not carry out has its default, of
which the plugin need not accept any: the check of `from_values` is for what is submitted. `unsaved`,
`overlapped` and `failed` are history variables; a reading that failed counts as a failure, since the
plugin then runs with a default in the place of what is stored, and the next save would store it.

A value is its text, as it is posted and as it is stored. The handler is the example plugin's: what is
posted goes through `from_values`, and `Accept` puts into effect, and hands to `Perform`, what `to_values`
then writes (`Parsed`), which need not be what was typed: a number is written without white space, one left
blank as the field's default. What can be typed into a field (`Texts`), which of it `Validate` and
`from_values` let through (`HostTakes`, `PluginTakes`) and what becomes of it (`Rewritten`) are constants.
That `from_values` takes again what `to_values` wrote, unless it is the field's default, is
`RewrittenAssumption`; `SettingsForm` has the parsing itself, and `SettingsFormProofs!WrittenIsTakenAgain`
is this statement of every schema and every text.

### SettingsForm

`settings` is the struct, `stored` the texts under its keys, `sub` and `reply` the last submission and its
outcome. A schema maps a field to its kind (`text`, `secret`, `number`, `toggle`, `select`), default,
bounds, type, options and `required`, and assumption `Declared` says what the macro accepts. A text is a
core, an integer or a word, with or without white space around it: trimming and parsing are what the code
distinguishes by, and characters are not. Options are words: one declared with white space around it
(`#[choice(value = " x ")]`) could be chosen nowhere, neither side comparing it untrimmed. The integers of
`i64` and of C#'s `long` are `HostNumbers`. `FromValues` chooses between the two ways a plugin may parse. A
submission is a single step; `SettingsSave` has its interleavings.

### UiDocument

A document is a sequence of sections, each with its type, and a form's id and fields or a group's
buttons; a parsed page is the same without what the host does not read, which is `maxLength`, and with
`"unknown"` for a type it does not know. `Form`, `AddField`, `Required`, `Value`, `Bounds`, `Actions`,
`Button`, `Destructive` are the builders (a modifier is one of the last field, a value is not given to
a secret, a range only to a number), `Parse` is `UiPage.Parse`, `FormById` and `ButtonByCommand` take
the first of several, as `FirstOrDefault` does. `FieldAccepts` is `Field::validate`, `HostAccepts`
one round of `Validate`'s loop. A text is what these rules look at: the length of what is between its white
space, the integer that spells, and whether there is white space around it.

### PageRequests

`plugin` is the plugin that runs: the example, the one the scaffold generates, or any other. The
last stands for plugins with state of their own: `layout`, the page it would describe now, changes at any
time, and its handler calls the host under its Mutex and reports what it likes. `seen` and `recent` are
the example's count and list, `memory` the settings in effect, `poisoned` the Mutex under which the plugin
calls the host. Each operator has `pc` and `req`, the request in flight; `model`, the page it was checked
against; `shown`, the page in the browser with its address; and `told`, its `TempData`. `outcome`,
`offers` (the layouts since the post was sent), `mixed` and `loggerThrew` are history variables.

| code | actions |
|---|---|
| a link or an address | `Get` |
| a button or a form of the view `Index.cshtml` | `Press`, `Submit` |
| `page ?? DefaultPage()` | `Resolve` |
| `Index`, GET | `Serve` |
| `Index`, POST: `BuildModel`, `RunCommand`, `SubmitForm` up to the dispatch | `Post`: one of `NotFound`, `Refuse`, `Invalid`, `Dispatch` |
| the example's `handle` | `SayHello`, `ClearRecent` and `ClearSeen`, `CountNote` and `InsertNote`, `ApplySettings` and `RejectSettings` |
| an invoice event | `CountEvent` and `InsertEvent` |
| the generated plugin's `handle` | `TemplateHandles` |
| any other plugin's | `OtherHandles`, `Relayout` |
| what follows the dispatch: `ApplyMessages`, the messages of `RunCommand` and `SubmitForm`, the redirection | `Answer`, at the end of each handler |

The branches of the example's `handle` for a form or a command it does not know and for a blank note have no
action, since the host's own checks let nothing through that would take them. Settings it can refuse:
`Validate` has no rule for a dropdown left blank, and `from_choice_value` takes no blank one; that this is
all it can refuse is `ExampleRefusesOnlyMissingOptions`, an invariant of the run and proved. `Greeting` is
the form of its four settings and `Takes` what `from_values` demands of them; of the settings in effect the
model keeps the greeting's text. `Collect` is exact: a toggle is sent as its presence, an empty secret not
at all. That form is described without the values it shows, which nothing here looks at.

The guard of `PluginHandle` is in `Described` and `Poison`: a call that panics fails, and if it held the
Mutex leaves it poisoned. `Safe` and `SafeFallible` are the two wrappers of `HostServicesImpl`; every one of
its operations is one of the two around a call of the backend. `Faults` says which of backend and logger
throw during a call. Confirmations are the browser's, so a post is one the rendered page could send:
the request of a press carries the confirmation its button asked for.

### BuildPipeline

A file is what it was made from. `src` is the revision of each plugin's source, and constant `Source`
says what that revision's manifest, `btcpay.toml` and metadata contain. `lib` is the library in each
target directory and profile (its file name is the same for every plugin); `host`, `bindings`, `shim`
and `publish` are the directories under a plugin's `target/btcpay`; `generator`, `checkout` and `packer`
are the cache; `out` holds the packages. `job` is each command: its step, and the local variables of
`build` and `package` (`md`, `tag` the configuration of `build`, `again` that of `package`). `at`, `met`
and `edited` are history: the revision it found, the commands it overlapped with, whether its source was
edited meanwhile.

| code | actions |
|---|---|
| `main`, `Config::load` | `Start` |
| `build`, steps 1 to 7 | `CargoBuild`, `NativeDependencies`, `ReadMetadata`, `Materialise`, `EnsureBindgen` and `InstallBindgen`, `GenerateBindings`, `GenerateShim`, `EnsureBtcpayserver` ... `Cloning`, `BuildWrapper` |
| `package` | `CleanPublishDir`, `Publish`, `VerifyAndStrip`, `ReloadConfig`, `EnsurePluginPacker`, `BuildPacker`, `PackerBuilt`, `Pack` |
| an error of `run`, Ctrl-C | `Abort` |
| the developer | `Edit` |

cargo, git, dotnet, the generator and the packer are modelled by what the command line asks of them. Of
cargo it is assumed that what it leaves at the library's path is built from the source it found; of git
that it refuses an existing directory, and when it fails (not when killed) removes what it had written;
of dotnet that it compiles what is in its directories at that moment and fails on a partial checkout; of
the generator, as `build.rs` says, that it succeeds and writes nothing for a stripped library. A
step that these make impossible does not happen, and the command can only fail (`Abort`).

## 3. Fairness

`SettingsBackend!LiveSpec` assumes weak fairness of each caller's steps: a thread that can run does, and
the database answers or throws. It assumes nothing about whom the semaphore lets in, so the liveness
property speaks of a call that has no rival.
`PluginLifecycle!LiveSpec` assumes weak fairness of host, stop and delivery threads, of the thread pool
starting a queued task and of a delay elapsing. It assumes nothing of plugin code: `handle()`,
`stop()`, `start()` and page calls may hang, and the environment need never publish an event, press a
button or stop the host.
The other modules are checked for safety only: nothing obliges a browser to post or a command to end,
and a handler that never returns keeps its request, as `PluginLifecycle` has it.

## 4. What the runs check

### Runs that pass

| run | instance | shows |
|---|---|---|
| `settings_backend` | 2 callers, 1 setting, 2 store keys, 1 value; 270 thousand states | `AcknowledgedWritesHold`: whatever else fails, crashes or runs, an acknowledged write is what readers see and what is stored, until another write of that key begins. `ReadsAreCurrentOrMiss`: a read answers the key's value at that step or misses, never a value of the past. `ImplementsPluginStore`. `GateIsReleased` on every path, `QuietCallsReturn` |
| `plugin_lifecycle` | 2 timer threads, 1 event thread, 1 request thread; 76 thousand states | `OnlyAfterStart`: neither `handle()` nor `stop()` enters a plugin whose `start()` has not succeeded. `StopsOnceUnlessAbandoned`. `FailsOnlyOnceDisposing`: a request throws only because the handle was disposed under it. `HonoursPluginContract`. `StopAsyncReturns` whatever the plugin does, `DisposeReturnsOnceStopped`, `DeliveryCeases` after a stop |
| `settings_save` | 2 requests; of the example's fields `repeat`, with its default out of bounds, blank, refused by the host or good, and `verbosity`, blank (which only the plugin refuses) or one of two options; 210 thousand states | `RejectedValuesNeverApply`: no text the plugin refuses is in effect, visible or stored, but for the default of a field left blank. `UndisturbedSavesAgree`: until a call fails, what is visible is stored whenever no write is under way, overlap or not; and without overlap the plugin runs with what a restart would load |
| `settings_form` | a secret; a number with bounds 1 to 3 and default 0; a select; a scaled `i64` of -4..4 | `RestartKeepsSettings`, `UntouchedFormChangesNothing`, `ValidationsAgree` (up to the listed ways in which they differ, `SlipsThrough`), `SavedFormsCanBeSavedAgain`, `OmittedSecretIsKept` under `update` |
| `settings_form_required` | a required text, a toggle, a required number whose bounds go beyond its type at both ends | `UntouchedFormChangesNothing` and `ValidationsAgree` for these kinds of field; the other properties are proved for every schema |
| `page_requests` | 2 operators, 1 event thread, 3 plugins; 5 pages of another plugin; blank, padded and good texts of each kind; a list of 1 line, 2 records; 305 thousand states | `CommandsRunAsOffered`: a command being handled was on the page at some time since the press, with its confirmation. `UndisturbedPressesAreTaken`: without a change of the page no press or submission is refused as stale, and the label reported is that of the button pressed. `DispatchedValuesObeyTheForm`. `ExampleRefusesOnlyMissingOptions`: nothing the example would refuse is dispatched to it but a dropdown left blank. `OnlyTheLoggerPoisons`: a failing backend alone makes nothing panic. `UndisturbedActivityAgrees`, `OnlySettingsPagesChangeSettings` |
| `build_pipeline` | 2 commands, one `build` or `package --docker`, one `package` or `package --docker`; 2 plugins of one workspace, 4 revisions, 2 tags, 1 edit; 950 thousand states | `UndisturbedPackagesMatchTheirSource`: unless another command or an edit interferes, all parts of a package come from one revision, whatever earlier commands left. `PackagesGoHome`: a package is never lost, and replaced only by one of its plugin and its version. `DockerPackagesHoldTheirOwnLibrary`, `UnloadableLibrariesAreRefused`, `PackersMatchTheirVersion`, `ClonesFindNoRemains`: see the comments at each for what may interfere |

Two callers are enough for the backend because the gate admits one writer, and everything a third could do
to a reader or a waiter the second does; two store keys are needed so that a write of one disturbs a read of
the other. Two timer threads show overlapping ticks. Two requests show every pair of orders (taking effect,
storing) and two fields a mixture of both. In `SettingsForm` a field's rules do not depend on another
field's, so the schemas cover the kinds and not their combinations; the inputs hold, of each field, every
text its rules tell apart: blank, padded blank, a padded value, each bound, one past each bound, one past
the type, a word. The first form's plugin parses with `update`, the second's with `from_values`. The five
pages of another plugin differ in all that a request is checked for: the button is there, gone, there twice,
with and without a confirmation; the form has a select, a text with a longest length and `required`, a
bounded number beside a secret, or is gone. Two operators suffice for the example: one in a handler while
another is; what they share is its count, its list and its settings. On the pages of another plugin they
share the Mutex and the layout only, both of which change at any time anyway, so `OneVisitor` lets one of
them go there. Two submissions of the example's settings at once meet in no step but the last, in which each
is taken or refused whole, and `SettingsSave` has what becomes of two; so `OneSubmitter` has one of them
send that form at a time, which leaves it every combination of texts. A list of one line (`Rows`) and two
records (`MaxSeen`) fill the list and go beyond it. Two commands show one running during another, and one
finding what the other left; the revisions differ in what a package may get wrong: a page that is there or
gone, another BTCPay, a missing dependency, a version that renders differently. One edit (`MaxEdits`)
suffices to fall between any two steps.

Only the `build_*` runs leave the check for deadlock aside: there every command is over in the end. In the
other models something can happen in every state.

### Runs that end in a violation

Each states what a comment, a document or a test of the repository says, and TLC shows how the code
does otherwise. The quotations are in `PROJECT.json`, `findings`.

| run | what happens |
|---|---|
| `lifecycle_delivery_while_stopping` | a tick passes `if (!_started ...)`, `StopAsync` runs, the tick enters `handle()` |
| `save_plugin_and_store_differ` | A takes effect, B takes effect, B is saved, A is saved |
| `save_confirmed_but_not_stored` | a key fails to save, the operator reads "Settings saved." |
| `command_failed_but_done` | the handler of a command fails or panics, `Dispatch` returns no actions, the operator reads "... done." |
| `build_stale_bindings` | a debug build leaves bindings, `strip = true` is set, `package` generates none and packages the old ones |

The models have further behaviours a maintainer may want to know of, which no run is spent on: a lookup
during another key's insertion can miss a key that is there, and a plugin would take a default for a stored
setting (hence `OrMiss`); a setting that cannot be read at the start takes its default, and the next form
saved, which is shown with it, stores that default over what was stored (hence `failed`); `Dispose` without
a preceding `StopAsync`, or before its task ran, calls `stop()` without the deadline and hangs with it
(hence *once stopped*); a failed `UpdateSetting` leaves the change in the cached document, where readers see
it and the next write of any key stores it (this is why `PluginStore` has `Show` without `Persist`); after
an expired deadline `Dispose` can enter `stop()` a second time (hence *unless abandoned*); after a refused
start `_handle` stays and pages are still asked of the plugin; a number whose default is out of its bounds
renders a form that is refused as it stands (hence *with its numbers filled in*); a number within the form's
bounds but not in its Rust type, or a dropdown without a choice, passes `Validate` and is refused by the
plugin (`SlipsThrough`, `ExampleRefusesOnlyMissingOptions`); the example's `repeat`, left blank, stays at 0
and is stored as that, out of its bounds, and `from_values` would refuse the stored text (hence *but for the
default of a field left blank*: nothing checks a default); a secret of spaces counts as one typed in; a
plugin that parses with `from_values`, as the example does, resets an omitted secret to its default, where
`update` keeps it (`OmittedSecretIsKept` is checked and proved for `update`). Of pages: `Field::validate`
says of itself that it is "Applied by the host before the plugin sees the submission"
(`crates/btcpay-ui/src/field.rs:80`), but the host has rules of its own, and as `UiField` has no member for
`maxLength` it cannot apply that one (hence *but for the length of a text*); a button that comes to ask for
a confirmation between the press and the check is refused, one that does so between the check and the
handler is not (hence *at some time since it was sent*); an event between the two halves of the example's
clear leaves its count and its list disagreeing until the next clear; its count, "Counts invoice events
seen", counts notes too; when the logger throws while a failure is being logged, the exception escapes in
spite of `HostServicesImpl`'s "No method here may let an exception escape", and poisons the Mutex; the
plugin the scaffold generates answers its own settings form with nothing, which the operator reads as a
rejection; messages wait in `TempData` over a page that is not found. Of builds: two commands for one
workspace can package each other's library without `--docker`; a clone killed after the project file
appeared is taken for whole and every later build fails; a packer build that was killed likewise; of a crate
whose version is not the assembly's, any earlier package may be reported as the new one
(`PlainlyVersioned`); `btcpay.toml` edited during a command puts the packer of one tag into the cache under
another; the environment's tag is not heeded without a `btcpay.toml` nor inside docker.

## 5. What is proved

Each `*Proofs` module proves its theorems for every value of the constants that satisfies the named
assumptions: any number of threads, keys, values, fields, any schema the derive accepts.

| theorem | statement |
|---|---|
| `SettingsBackendProofs!TypeCorrect` | `Spec => []TypeOK` |
| `SettingsBackendProofs!AcknowledgedWritesHoldAlways` | `Spec => []AcknowledgedWritesHold` |
| `SettingsBackendProofs!ReadsAreCurrentOrMissAlways` | `Spec => ReadsAreCurrentOrMiss` |
| `SettingsBackendProofs!Implementation` | `Spec => Store!Spec`: the backend implements `PluginStore`, turns included |
| `PluginLifecycleProofs!TypeCorrect`, `OnlyAfterStartAlways`, `StopsOnceUnlessAbandonedAlways`, `FailsOnlyOnceDisposingAlways` | the four properties |
| `PluginLifecycleProofs!ContractHonoured` | `Spec => HonoursPluginContract`: the host implements `PluginContract` |
| `SettingsSaveProofs!TypeCorrect`, `RejectedValuesNeverApplyAlways`, `UndisturbedSavesAgreeAlways` | the three invariants |
| `SettingsSaveProofs!StoreIsUsedAsPromised` | `Spec => Store!Spec`: submissions do with the backend only what `PluginStore` has |
| `SettingsSaveProofs!SavedMeansStoredUnlessACallFails` | `Spec => [](~failed => SavedMeansStored)` |
| `SettingsFormProofs!TypeCorrect`, `RestartKeepsSettingsAlways` | the two invariants |
| `SettingsFormProofs!OmittedSecretIsKeptByUpdate` | `FromValues = FALSE` implies `Spec => OmittedSecretIsKept` |
| `SettingsFormProofs!UntouchedFormChangesNothingAlways` | `FromValues = FALSE`, or no field is a secret, implies `Spec => []UntouchedFormChangesNothing` |
| `SettingsFormProofs!ValidationsAgreeAlways` | `Spec => []ValidationsAgree` |
| `SettingsFormProofs!SavedFormsCanBeSavedAgainAlways` | `Spec => []SavedFormsCanBeSavedAgain` |
| `SettingsFormProofs!WrittenIsTakenAgain` | what `to_values` writes of an accepted text `from_values` takes again, unless it is the default |
| `PageRequestsProofs!TypeCorrect`, `CommandsRunAsOfferedAlways`, `UndisturbedPressesAreTakenAlways`, `DispatchedValuesObeyTheFormAlways`, `ExampleRefusesOnlyMissingOptionsAlways`, `OnlyTheLoggerPoisonsAlways`, `UndisturbedActivityAgreesAlways` | the seven invariants |
| `PageRequestsProofs!OnlySettingsPagesChangeSettingsAlways` | `Spec => OnlySettingsPagesChangeSettings` |
| `BuildPipelineProofs!TypeCorrect` | `Spec => []TypeOK` |
| `BuildPipelineProofs!DockerPackagesHoldTheirOwnLibraryAlways`, `UndisturbedPackagesMatchTheirSourceAlways`, `UnloadableLibrariesAreRefusedAlways`, `PackersMatchTheirVersionAlways`, `ClonesFindNoRemainsAlways` | the other five invariants |
| `BuildPipelineProofs!PackagesGoHomeAlways` | `Spec => PackagesGoHome` |
| `BuildPipelineProofs!BindingsAreOfAnUnstrippedLibrary` | `BindingsAreOfTheLibraryJustBuilt` of libraries that are not stripped |

The assumptions say only that the model's special values are no ordinary ones (`AbsentAssumption`,
`NobodyAssumption` and the like), that settings and store keys are told apart, and of a schema what the
macro's own checks and Rust's types guarantee. `SourceAssumption` and `TagAssumption` give the contents of
a revision their types.

**The backend.** `IInv` adds to `AcknowledgedWritesHold` why it is kept. `GateIsExclusive`: being between
`Wait` and `Release` and holding the gate are the same thing, hence at most one caller is. `CallsAreKnown`:
a caller under way has a well-formed call. `DocumentsAreCurrent`: a document a caller has fetched but not
yet assigned is still the stored one, and a caller about to change one has a cache to change.
`WritesInProgress`: while a write is under way nothing is promised of its key, and the snapshot being stored
is the cache. Without the last a commit could store an old snapshot over an acknowledged write. The
implementation follows step by step: `ChangeEnd` is `Show`, `Commit` is `Persist`, `CommitFails` is `Fail`,
a restart is `Restart`, and every other action leaves `Visible`, `db` and `Writing` as they are. That `Show`
finds no other writer and `Persist` its own is `GateIsExclusive` again (`WriterIsTheOneStoring`: whoever
stores holds the gate, so `Writing` is that caller).

**The lifecycle.** `StartsFirst` says what has to have happened at each point once `start()` returned;
`StopsInTurn` counts, for each of the two stoppers, whether it can have entered `stop()`: unless a
deadline expired, `Dispose` begins only when the task is done or never ran, so it finds `_started`
cleared or is the first. `HandlesAreHeld` says that a thread past its test of `_handle` can lose the
handle to disposal only. The contract follows from both, action by action: `StartsFirst` puts each state of
the plugin beside the states of the host in which it can be, so that `start()` is called once and the
object is not given up meanwhile, `StopsInTurn` bounds the calls of `stop()`, and `HandlesAreHeld` says that
who enters the plugin still holds it.

**Submissions.** `SavesInTurn` says that a writer is saving, and that without overlap there is one save at
most, whose ticked-off fields are visible; `FormsAreKnown` that a request being saved carries a form the
plugin accepted, and `KeptWasSaved` that whatever is in effect, visible or stored is a default or was
written by a `SaveSettings`; with `RewrittenAssumption` a refused text can then only be a default. Since the
actions conjoin `PluginStore`'s, `StoreIsUsedAsPromised` needs only that the values written are the store's;
with `Implementation`, what is proved of submissions rests on nothing the locked backend does not do.

**The form.** `RestartKeepsSettings` is inductive together with the type invariant: `Load` inverts `ToText`
on the values of each kind, which is where the schema's assumption is used (a default lies in its type, the
options are words). An untouched form changes nothing because parsing inverts the text shown
(`ParsedInvertsToText`), but for secrets, whose input is shown empty: hence the assumption. The text a value
taken from a submission is shown as passes both validations again (`AcceptedAgain`). For `ValidationsAgree`,
what the host refuses the plugin refuses too (`RefusedIsNotAccepted`), and what it lets through and the
plugin refuses is one of the cases of `SlipsThrough` (`RejectedSlipsThrough`). No option is blank, which the
derive of a choice sees to: the host would refuse a required dropdown of which the blank one were chosen,
and the plugin take it.

**Pages.** `TypeOK` is proved together with `HandledAsDescribed`: while a post is handled, the page it was
checked against holds the form or the button it names, without which the message of `Answer` would speak of
no button. `RequestInv` says of each request whence it is (`InTurn`): a post is one that the page in the
browser can send, and the layout of this moment is among `offers`; so what `Post` checks, it checks against
a page that was offered, and what it found stays true of that page whatever the layout does later. `Parse`
is shown to keep each form, its fields and each button in place (the lemmas before the invariant), so that
the first form or button found on the parsed page is the first of the document, and what `HostAccepts` lets
pass of a parsed field `FieldAccepts` does of the described one, unless it is too long.
`ExampleRefusesOnlyMissingOptions` follows: of the example's documents `HelloForms` and `HelloCommands` say
which forms and commands can be found, and what the host accepts field by field of `FieldsOfGreeting` the
example takes, unless the dropdown is blank (`GreetingIsTaken`). `ActivityInv` is
`UndisturbedActivityAgrees` with records under way: the list is behind the count by the number of threads
between `Count` and `Insert`, as a cardinality, and an overlap with a clear is in `mixed` before it can do
harm. Assumed are names for what the plugins describe (`IdsAssumption`), that another plugin describes
documents (`OtherPagesAssumption`), that `None` is none of the things it stands beside, that the threads are
finitely many and of two kinds, and that the example's options are neither blank nor have white space around
them (`VerbositiesAssumption`).

**The build.** Type correctness needs `StepsInOrder`: at each step the files of the command's earlier
steps are there, since no command removes a library, bindings, a shim or a packer (`NothingVanishes`);
the published directory, which is removed, is tested again by `Complete`. For the packages of docker,
`LibrariesAtHome` says that the target directory of a plugin holds that plugin's libraries only, because
`TargetKey` is one per plugin and no command outside docker writes there; `Acquainted` that commands which
overlap are in each other's `met`; and `OwnParts` follows metadata, project and library of a command whose
plugin nobody else builds through its steps, until `Pack` finds in the output directory, under the version
it expects, the very package it added.

`Unspoilt` does the same for a command that overlaps with none, and part by part: its library is that of the
source it found unless it was edited, the metadata is that of the library (which is only read once
`NativeDependencies` admitted it), bindings, shim and published parts are those of the metadata, and the
generator is the pinned one although it is shared, because only a command of another version would install
another (`OthersWriteElsewhere`). Both invariants about undisturbed packages follow, and with `OwnParts`
that packages go home: the metadata in hand when the packer runs are of the command's own plugin, and the
version is that of the published project. That a packer matches its version rests on `ReadsAgree`: as long
as nobody edits, the second reading of `btcpay.toml` finds the tag of the first, so the checkout built is
the one the directory is named for. That clones find no remains needs no more than that commands under way
know of each other: a checkout is changed only by commands of its tag.

### Where a refuted statement holds

Two of the runs that end in a violation are bounded by a theorem. `SavedMeansStoredUnlessACallFails`:
however submissions overlap, one that is confirmed had each of its fields stored, until a call of the
backend fails. `BindingsAreOfAnUnstrippedLibrary`: only a stripped library is packaged with other bindings
than its own. And `UndisturbedSavesAgree` says of `PluginAgreesWithStored` that it takes an overlap of two
saves to break it.

### Model-checked only

Liveness: `GateIsReleased`, `QuietCallsReturn`, `StopAsyncReturns`, `DisposeReturnsOnceStopped` and
`DeliveryCeases`, since fairness and `ENABLED` are outside what the prover decides. Every other property of
the passing runs is proved.

## 6. What is not modelled, and why

* **Native loader and handshake** (`NativeLoader.cs`, `lib.rs` of the macros). Runs once per process, on one
  thread, before anything else; its outcome, loading fails or not, is `PluginLifecycle`'s `LoadFails`.
* **Registration** (`RustPluginBase.cs`): dependency injection, once.
* **Malformed documents**: `UiPage.Parse` throws for a document that is not JSON, which a plugin built with
  `btcpay-ui` cannot produce.
* **Layout**: tables, cards, alerts, styles, titles; wording and logging.
* **The docker image and its mounts**, arguments of the command line, the writing of a new plugin's
  directory: I/O in one order, without state that outlives it. What docker changes for a build, its target
  directory and its environment, is in `BuildPipeline`.
* **Scripts and continuous integration.**

Worth adding where the code grows: the composition of the lifecycle with the backend (a plugin thread
writing while the plugin is stopped); ticks whose actions are performed in another order than their
handlers ran.
