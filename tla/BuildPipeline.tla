---------------------------- MODULE BuildPipeline ----------------------------
(***************************************************************************)
(* `cargo btcpay build` and `package`: commands over a file system that    *)
(* other commands use at the same time.  Three places are shared: cargo's  *)
(* target directory (by the members of a workspace), target/btcpay inside  *)
(* a plugin's directory (by every command for that plugin) and the cache   *)
(* (by everyone).  A command may fail or be killed at any step and is never*)
(* resumed; the developer may edit the plugin at any time.                 *)
(*                                                                         *)
(* A file is represented by what it was made from: a library by the        *)
(* revision of the source, bindings by the library.  cargo, git, dotnet,   *)
(* the binding generator and BTCPay's packer are external: one action does *)
(* what the command line asks of them.  Removals inside target/ succeed.   *)
(*                                                                         *)
(* A definition named X_Something is X with a bug in it, for the mutants.  *)
(***************************************************************************)
EXTENDS Naturals

CONSTANTS
    Jobs,        \* invocations of `cargo btcpay`
    Command,     \* the commands each of them may be
    Cli,         \* the version of cargo-btcpay that runs each, and its pinned generator
    OnPath,      \* the generator on each one's PATH, or None
    Plugins,     \* plugin directories, and the identifiers of their plugins
    Workspace,   \* the workspace each is a member of
    Revisions,   \* states of their source
    Source,      \* what such a state says
    Tags,        \* tags of BTCPay Server
    DefaultTag,
    OverrideTag, \* BTCPAY_RS_BTCPAY_TAG, or None
    None,
    MaxEdits     \* bound: how often sources are edited

Commands == {"build", "build --release", "package", "package --docker"}
Profiles == {"debug", "release"}

RevisionsOf(p) == {r \in Revisions : Source[r].plugin = p}

ASSUME NoneAssumption == None \notin Revisions \cup Tags \cup {Cli[j] : j \in Jobs}
ASSUME CommandAssumption == Command \in [Jobs -> SUBSET Commands]
ASSUME SourceAssumption ==
    Source \in [Revisions -> [plugin : Plugins, page : BOOLEAN, strip : BOOLEAN,
                              needsMore : BOOLEAN, toml : Tags \cup {None},
                              version : Nat, rendersPlainly : BOOLEAN]]
ASSUME TagAssumption == DefaultTag \in Tags /\ OverrideTag \in Tags \cup {None}

VARIABLES
    src,         \* the revision of each plugin's source
    lib,         \* libbtcpay_plugin_native.so in each target directory and profile
    host,        \* <plugin>/target/btcpay/host: the CLI whose sources are there
    bindings,    \* host/BtcpayRs.Host/Generated/btcpay.cs
    shim,        \* <plugin>/target/btcpay/shim
    publish,     \* <plugin>/target/btcpay/publish
    out,         \* packages, by identifier and version
    generator,   \* cache/bin/uniffi-bindgen-cs
    checkout,    \* cache/btcpayserver/<tag>
    packer,      \* cache/packer/<tag>
    job,         \* each command: where it is, what it has in its hands
    edits        \* bound

layout == <<host, bindings, shim, publish>>
cache == <<generator, checkout, packer>>
vars == <<src, lib, layout, out, cache, job, edits>>

-----------------------------------------------------------------------------
(* Places.                                                                 *)

TargetKey_Shared(p) == [under |-> "cache", key |-> Workspace[p]]

\* CARGO_TARGET_DIR=/cache/target/<key>: one per plugin directory
TargetKey(p) == [under |-> "cache", key |-> p]

\* what cargo metadata reports: the workspace's target, unless the variable is set
CargoTargetDir(j) ==
    IF job[j].command = "package --docker"
    THEN TargetKey(job[j].plugin)
    ELSE [under |-> "workspace", key |-> Workspace[job[j].plugin]]

Dirs == [under : {"cache", "workspace"}, key : Plugins \cup {Workspace[p] : p \in Plugins}]

Profile(j) == IF job[j].command = "build" THEN "debug" ELSE "release"
LibraryPath(j) == <<CargoTargetDir(j), Profile(j)>>
Library(j) == lib[LibraryPath(j)]

Packaging(j) == job[j].command \in {"package", "package --docker"}
Plugin(j) == job[j].plugin

\* strip = true under [profile.release]
Stripped(j) == Source[Library(j)].strip /\ Profile(j) = "release"

\* btcpay.toml and the environment, which docker does not pass on; only a file
\* that exists is overridden
Load(c, r) ==
    IF Source[r].toml = None THEN DefaultTag
    ELSE IF OverrideTag # None /\ c # "package --docker" THEN OverrideTag
    ELSE Source[r].toml

-----------------------------------------------------------------------------
(* Values.                                                                 *)

Idle == [pc |-> "idle"]

Versions == {Cli[j] : j \in Jobs} \cup {OnPath[j] : j \in Jobs} \cup {None}

Bindings == [lib : Revisions, by : Versions]
Shims == [projects : [Plugins -> Revisions \cup {None}], code : Revisions \cup {None},
          controller : Revisions \cup {None}]
Published == [lib : Revisions, stripped : BOOLEAN, project : Revisions, code : Revisions,
              controller : Revisions \cup {None}, bindings : Bindings, host : Versions]
Checkouts == [holds : {"nothing yet", "the project", "everything"}, by : Jobs]
Packers == [from : Tags, complete : BOOLEAN]

\* A file that is there is told from none.
ASSUME FilesAssumption == None \notin Bindings \cup Published \cup Packers

Labels == {"cargo", "native", "metadata", "materialise", "bindgen", "install", "generate",
           "shim", "checkout", "clear", "clone", "cloning", "wrapper", "clean", "publish",
           "strip", "reload", "packer", "packing tool", "compiling tool", "pack",
           "built", "packaged", "failed"}

Started == [pc : Labels, command : Commands, plugin : Plugins, at : Revisions,
            tag : Tags, again : Tags \cup {None}, md : Revisions \cup {None},
            bindgen : {None, "cached", "on PATH"}, result : Published \cup {None},
            met : SUBSET Jobs, edited : BOOLEAN]

TypeOK ==
    /\ src \in [Plugins -> Revisions] /\ \A p \in Plugins : src[p] \in RevisionsOf(p)
    /\ lib \in [Dirs \X Profiles -> Revisions \cup {None}]
    /\ host \in [Plugins -> Versions]
    /\ bindings \in [Plugins -> Bindings \cup {None}]
    /\ shim \in [Plugins -> Shims]
    /\ publish \in [Plugins -> Published \cup {None}]
    /\ out = [p \in Plugins |-> out[p]]
    /\ \A p \in Plugins : \A v \in DOMAIN out[p] : out[p][v] \in Published
    /\ generator \in Versions
    /\ checkout \in [Tags -> Checkouts \cup {None}]
    /\ packer \in [Tags -> Packers \cup {None}]
    /\ job \in [Jobs -> Started \cup {Idle}]
    /\ edits \in Nat

Init ==
    /\ src \in [Plugins -> Revisions]
    /\ \A p \in Plugins : src[p] \in RevisionsOf(p)
    /\ lib = [x \in Dirs \X Profiles |-> None]
    /\ host = [p \in Plugins |-> None]
    /\ bindings = [p \in Plugins |-> None]
    /\ shim = [p \in Plugins |->
                 [projects |-> [q \in Plugins |-> None], code |-> None, controller |-> None]]
    /\ publish = [p \in Plugins |-> None]
    /\ out = [p \in Plugins |-> <<>>]
    /\ generator \in Versions
    /\ checkout = [t \in Tags |-> None]
    /\ packer = [t \in Tags |-> None]
    /\ job = [j \in Jobs |-> Idle]
    /\ edits = 0

Over == {"idle", "built", "packaged", "failed"}
Running(j) == job[j].pc \notin Over

At(j, label) == job[j].pc = label
Goto(j, label) == job' = [job EXCEPT ![j].pc = label]

-----------------------------------------------------------------------------
(* build: the library and what is read out of it.                          *)

\* main's choice of command, Config::load, Layout::new, ensure_dotnet
Start(j) ==
    /\ At(j, "idle")
    /\ \E c \in Command[j], p \in Plugins :
         job' = [k \in Jobs |->
                   IF k = j
                   THEN [pc |-> "cargo", command |-> c, plugin |-> p, at |-> src[p],
                         tag |-> Load(c, src[p]), again |-> None, md |-> None,
                         bindgen |-> None, result |-> None,
                         met |-> {i \in Jobs : Running(i)}, edited |-> FALSE]
                   ELSE IF Running(k) THEN [job[k] EXCEPT !.met = @ \cup {j}]
                   ELSE job[k]]
    /\ UNCHANGED <<src, lib, layout, out, cache, edits>>

\* cargo build; the library's name is the same for every plugin
CargoBuild(j) ==
    /\ At(j, "cargo")
    /\ lib' = [lib EXCEPT ![LibraryPath(j)] = src[Plugin(j)]]
    /\ Goto(j, "native")
    /\ UNCHANGED <<src, layout, out, cache, edits>>

NativeDependencies_Warns(j) ==
    /\ At(j, "native")
    /\ Goto(j, "metadata")
    /\ UNCHANGED <<src, lib, layout, out, cache, edits>>

\* refuse a library that needs what BTCPay's image does not provide
NativeDependencies(j) ==
    /\ At(j, "native")
    /\ Goto(j, IF Source[Library(j)].needsMore THEN "failed" ELSE "metadata")
    /\ UNCHANGED <<src, lib, layout, out, cache, edits>>

\* load the library and ask it who it is
ReadMetadata(j) ==
    /\ At(j, "metadata")
    /\ job' = [job EXCEPT ![j].pc = "materialise", ![j].md = Library(j)]
    /\ UNCHANGED <<src, lib, layout, out, cache, edits>>

Materialise(j) ==
    /\ At(j, "materialise")
    /\ host' = [host EXCEPT ![Plugin(j)] = Cli[j]]
    /\ Goto(j, "bindgen")
    /\ UNCHANGED <<src, lib, bindings, shim, publish, out, cache, edits>>

\* the cached generator, else one on PATH, whichever reports the pinned version
EnsureBindgen(j) ==
    /\ At(j, "bindgen")
    /\ \/ /\ generator = Cli[j]
          /\ job' = [job EXCEPT ![j].pc = "generate", ![j].bindgen = "cached"]
       \/ /\ generator # Cli[j] /\ OnPath[j] = Cli[j]
          /\ job' = [job EXCEPT ![j].pc = "generate", ![j].bindgen = "on PATH"]
       \/ /\ generator # Cli[j] /\ OnPath[j] # Cli[j]
          /\ Goto(j, "install")
    /\ UNCHANGED <<src, lib, layout, out, cache, edits>>

InstallBindgen(j) ==
    /\ At(j, "install")
    /\ generator' = Cli[j]
    /\ job' = [job EXCEPT ![j].pc = "generate", ![j].bindgen = "cached"]
    /\ UNCHANGED <<src, lib, layout, out, checkout, packer, edits>>

\* A stripped library has no metadata: the generator succeeds and writes nothing.
\* Then btcpay.cs must not be empty.
GenerateBindings(j) ==
    /\ At(j, "generate")
    /\ bindings' = IF Stripped(j) THEN bindings
                   ELSE [bindings EXCEPT ![Plugin(j)] =
                           [lib |-> Library(j),
                            by |-> IF job[j].bindgen = "cached" THEN generator ELSE OnPath[j]]]
    /\ job' = [job EXCEPT ![j].pc = IF bindings'[Plugin(j)] = None THEN "failed" ELSE "shim",
                         ![j].bindgen = None]
    /\ UNCHANGED <<src, lib, host, shim, publish, out, cache, edits>>

Shim_KeepsController(old, md) ==
    [projects |-> [old.projects EXCEPT ![Source[md].plugin] = md],
     code |-> md,
     controller |-> IF Source[md].page THEN md ELSE old.controller]

Shim_ProjectOnly(old, md) ==
    [projects |-> [old.projects EXCEPT ![Source[md].plugin] = md],
     code |-> old.code,
     controller |-> IF Source[md].page THEN md ELSE None]

\* <identifier>.csproj, Plugin.cs, and the controller: removed if there is no page
Shim(old, md) ==
    [projects |-> [old.projects EXCEPT ![Source[md].plugin] = md],
     code |-> md,
     controller |-> IF Source[md].page THEN md ELSE None]

GenerateShim(j) ==
    /\ At(j, "shim")
    /\ shim' = [shim EXCEPT ![Plugin(j)] = Shim(@, job[j].md)]
    /\ Goto(j, "checkout")
    /\ UNCHANGED <<src, lib, host, bindings, publish, out, cache, edits>>

-----------------------------------------------------------------------------
(* build: BTCPay's source, then the wrapper.                               *)

Checkout(j) == checkout[job[j].tag]

HasProject(t) == checkout[t] # None /\ checkout[t].holds # "nothing yet"
Whole(t) == checkout[t] # None /\ checkout[t].holds = "everything"

EnsureBtcpayserver_NoClear(j) ==
    /\ At(j, "checkout")
    /\ Goto(j, IF HasProject(job[j].tag) THEN "wrapper" ELSE "clone")
    /\ UNCHANGED <<src, lib, layout, out, cache, edits>>

\* project.exists(), then checkout.exists()
EnsureBtcpayserver(j) ==
    /\ At(j, "checkout")
    /\ \/ HasProject(job[j].tag) /\ Goto(j, "wrapper")
       \/ Checkout(j) # None /\ ~HasProject(job[j].tag) /\ Goto(j, "clear")
       \/ Checkout(j) = None /\ Goto(j, "clone")
    /\ UNCHANGED <<src, lib, layout, out, cache, edits>>

\* remove_dir_all of what an interrupted run left
ClearCheckout(j) ==
    /\ At(j, "clear")
    /\ checkout' = [checkout EXCEPT ![job[j].tag] = None]
    /\ Goto(j, "clone")
    /\ UNCHANGED <<src, lib, layout, out, generator, packer, edits>>

\* git refuses a directory that is there
StartClone(j) ==
    /\ At(j, "clone")
    /\ Checkout(j) = None
    /\ checkout' = [checkout EXCEPT ![job[j].tag] = [holds |-> "nothing yet", by |-> j]]
    /\ Goto(j, "cloning")
    /\ UNCHANGED <<src, lib, layout, out, generator, packer, edits>>

\* The files appear one after another; git gives up when its directory disappears.
Cloning(j) ==
    /\ At(j, "cloning")
    /\ Checkout(j) # None /\ Checkout(j).by = j
    /\ \/ /\ Checkout(j).holds = "nothing yet"
          /\ checkout' = [checkout EXCEPT ![job[j].tag].holds = "the project"]
          /\ UNCHANGED job
       \/ /\ Checkout(j).holds = "the project"
          /\ checkout' = [checkout EXCEPT ![job[j].tag].holds = "everything"]
          /\ Goto(j, "wrapper")
    /\ UNCHANGED <<src, lib, layout, out, generator, packer, edits>>

\* dotnet build of the shim against the host and the checkout, which must be whole
BuildWrapper(j) ==
    /\ At(j, "wrapper")
    /\ Whole(job[j].tag)
    /\ Goto(j, IF Packaging(j) THEN "clean" ELSE "built")
    /\ UNCHANGED <<src, lib, layout, out, cache, edits>>

-----------------------------------------------------------------------------
(* package.                                                                *)

\* remove_dir_all(publish_dir), then materialise once more
CleanPublishDir(j) ==
    /\ At(j, "clean")
    /\ publish' = [publish EXCEPT ![Plugin(j)] = None]
    /\ host' = [host EXCEPT ![Plugin(j)] = Cli[j]]
    /\ Goto(j, "publish")
    /\ UNCHANGED <<src, lib, bindings, shim, out, cache, edits>>

\* dotnet publish compiles what is there now and copies the library
Publish(j) ==
    /\ At(j, "publish")
    /\ Whole(job[j].tag)
    /\ publish' = [publish EXCEPT ![Plugin(j)] =
                     [lib |-> Library(j), stripped |-> Stripped(j),
                      project |-> shim[Plugin(j)].projects[Source[job[j].md].plugin],
                      code |-> shim[Plugin(j)].code,
                      controller |-> shim[Plugin(j)].controller,
                      bindings |-> bindings[Plugin(j)], host |-> host[Plugin(j)]]]
    /\ Goto(j, "strip")
    /\ UNCHANGED <<src, lib, host, bindings, shim, out, cache, edits>>

\* the files required of <identifier>
Complete(j) ==
    /\ publish[Plugin(j)] # None
    /\ Source[publish[Plugin(j)].project].plugin = Source[job[j].md].plugin

\* only the copy is stripped, if strip is there at all
VerifyAndStrip(j) ==
    /\ At(j, "strip")
    /\ \/ ~Complete(j) /\ Goto(j, "failed") /\ UNCHANGED publish
       \/ /\ Complete(j)
          /\ Goto(j, "reload")
          /\ \/ publish' = [publish EXCEPT ![Plugin(j)].stripped = TRUE]
             \/ UNCHANGED publish
    /\ UNCHANGED <<src, lib, host, bindings, shim, out, cache, edits>>

\* btcpay.toml is read a second time
ReloadConfig(j) ==
    /\ At(j, "reload")
    /\ LET tag == Load(job[j].command, src[Plugin(j)]) IN
         job' = [job EXCEPT ![j].pc = "packer", ![j].again = tag]
    /\ UNCHANGED <<src, lib, layout, out, cache, edits>>

\* assembly.exists()
EnsurePluginPacker(j) ==
    /\ At(j, "packer")
    /\ Goto(j, IF packer[job[j].again] # None THEN "pack" ELSE "packing tool")
    /\ UNCHANGED <<src, lib, layout, out, cache, edits>>

BuildPacker_OneDirectory(j) ==
    /\ At(j, "packing tool")
    /\ Whole(job[j].tag)
    /\ packer' = [packer EXCEPT ![DefaultTag] = [from |-> job[j].tag, complete |-> FALSE]]
    /\ Goto(j, "compiling tool")
    /\ UNCHANGED <<src, lib, layout, out, generator, checkout, edits>>

\* The packer of the checkout in hand, into the directory of the tag just read.
BuildPacker(j) ==
    /\ At(j, "packing tool")
    /\ Whole(job[j].tag)
    /\ packer' = [packer EXCEPT ![job[j].again] = [from |-> job[j].tag, complete |-> FALSE]]
    /\ Goto(j, "compiling tool")
    /\ UNCHANGED <<src, lib, layout, out, generator, checkout, edits>>

PackerBuilt(j) ==
    /\ At(j, "compiling tool")
    /\ packer' = [packer EXCEPT ![job[j].again].complete = TRUE]
    /\ Goto(j, "pack")
    /\ UNCHANGED <<src, lib, layout, out, generator, checkout, edits>>

\* The package goes to <out>/<identifier>/<assembly version>.
Added(packages, package) ==
    [v \in DOMAIN packages \cup {Source[package.project].version} |->
        IF v = Source[package.project].version THEN package ELSE packages[v]]

\* The path expected of the crate's version, else the first package found.
Reported(packages, md) ==
    IF Source[md].rendersPlainly /\ Source[md].version \in DOMAIN packages
    THEN {packages[Source[md].version]}
    ELSE {packages[v] : v \in DOMAIN packages}

\* The packer instantiates the plugin type of that identifier in publish_dir.
Pack(j) ==
    /\ At(j, "pack")
    /\ Complete(j) /\ packer[job[j].again].complete
    /\ LET id == Source[job[j].md].plugin IN
         /\ out' = [out EXCEPT ![id] = Added(@, publish[Plugin(j)])]
         /\ \E found \in Reported(out'[id], job[j].md) :
              job' = [job EXCEPT ![j].pc = "packaged", ![j].result = found]
    /\ UNCHANGED <<src, lib, layout, cache, edits>>

-----------------------------------------------------------------------------
(* Around the commands.                                                    *)

\* A command of the pipeline fails, or the process is killed.  A git that fails
\* removes its directory, one that is killed does not.
Abort(j) ==
    /\ Running(j)
    /\ job' = [job EXCEPT ![j].pc = "failed", ![j].md = None, ![j].again = None,
                         ![j].bindgen = None]
    /\ \/ UNCHANGED checkout
       \/ /\ At(j, "cloning") /\ Checkout(j) # None /\ Checkout(j).by = j
          /\ checkout' = [checkout EXCEPT ![job[j].tag] = None]
    /\ UNCHANGED <<src, lib, layout, out, generator, packer, edits>>

Edit(p) ==
    /\ edits < MaxEdits
    /\ edits' = edits + 1
    /\ \E r \in RevisionsOf(p) \ {src[p]} : src' = [src EXCEPT ![p] = r]
    /\ job' = [j \in Jobs |-> IF Running(j) /\ Plugin(j) = p
                              THEN [job[j] EXCEPT !.edited = TRUE] ELSE job[j]]
    /\ UNCHANGED <<lib, layout, out, cache>>

Step(j) ==
    \/ Start(j) \/ CargoBuild(j) \/ NativeDependencies(j) \/ ReadMetadata(j)
    \/ Materialise(j) \/ EnsureBindgen(j) \/ InstallBindgen(j) \/ GenerateBindings(j)
    \/ GenerateShim(j) \/ EnsureBtcpayserver(j) \/ ClearCheckout(j) \/ StartClone(j)
    \/ Cloning(j) \/ BuildWrapper(j) \/ CleanPublishDir(j) \/ Publish(j)
    \/ VerifyAndStrip(j) \/ ReloadConfig(j) \/ EnsurePluginPacker(j) \/ BuildPacker(j)
    \/ PackerBuilt(j) \/ Pack(j) \/ Abort(j)

Next == (\E j \in Jobs : Step(j)) \/ (\E p \in Plugins : Edit(p))

Spec == Init /\ [][Next]_vars
-----------------------------------------------------------------------------
(* What must hold.                                                         *)

\* Commands that write the same files.
Overlap(j, k) ==
    \/ Plugin(j) = Plugin(k)
    \/ CargoTargetDir(j) = CargoTargetDir(k)
    \/ Cli[j] # Cli[k]

Alone(j) == \A k \in job[j].met : ~Overlap(j, k)
Packaged(j) == At(j, "packaged")
PlainlyVersioned(j) == Source[job[j].md].rendersPlainly

\* A package that no overlapping command and no edit disturbed consists of parts
\* made from one revision, the one the command found: the library, the C# that
\* states its identity, the controller if it has a page, and the bindings of the
\* generator this CLI pins; whatever earlier commands left behind, finished,
\* failed or killed.
UndisturbedPackagesMatchTheirSource ==
    \A j \in Jobs :
        LET r == job[j].at IN
        Packaged(j) /\ Alone(j) /\ ~job[j].edited /\ ~Source[r].strip /\ PlainlyVersioned(j)
            => /\ job[j].result.lib = r /\ job[j].result.project = r /\ job[j].result.code = r
               /\ job[j].result.controller = IF Source[r].page THEN r ELSE None
               /\ job[j].result.bindings = [lib |-> r, by |-> Cli[j]]
               /\ job[j].result.host = Cli[j]

\* With --docker, no other plugin's library gets into the package, even when that
\* plugin is a member of the same workspace and is built at the same time.
DockerPackagesHoldTheirOwnLibrary ==
    \A j \in Jobs :
        (/\ Packaged(j) /\ job[j].command = "package --docker" /\ PlainlyVersioned(j)
         /\ \A k \in job[j].met : Plugin(k) # Plugin(j))
            => Source[job[j].result.lib].plugin = Plugin(j)

\* A command ends with a package that belongs at that place.
Delivered(p, v) ==
    \E j \in Jobs :
        /\ At(j, "pack") /\ At(j, "packaged")'
        /\ Alone(j) \/ job[j].command = "package --docker" => Plugin(j) = p
        /\ Alone(j) /\ ~job[j].edited => Source[job[j].at].version = v

\* No package is removed or replaced by what comes later, but by the last step of a
\* package command: with --docker, or if no overlapping command disturbed it, one for
\* that plugin, and if its source was not edited either, one of that version.
PackagesGoHome ==
    [][\A p \in Plugins :
          /\ DOMAIN out[p] \subseteq DOMAIN out'[p]
          /\ \A v \in DOMAIN out'[p] :
               (v \in DOMAIN out[p] => out'[p][v] # out[p][v]) => Delivered(p, v)]_vars

\* A library BTCPay's image cannot load is in no package that no overlapping
\* command disturbed, however the source is edited meanwhile.
UnloadableLibrariesAreRefused ==
    \A j \in Jobs :
        Packaged(j) /\ Alone(j) /\ PlainlyVersioned(j)
            => ~Source[job[j].result.lib].needsMore

\* The packer kept for a version of BTCPay was built from that version, unless
\* btcpay.toml was edited while a command ran.
PackersMatchTheirVersion ==
    (\A j \in Jobs : ~At(j, "idle") => ~job[j].edited)
        => \A t \in Tags : packer[t] # None => packer[t].from = t

\* git is never asked to clone into what an interrupted command left, unless a
\* command fetching the same version runs at the same time.
ClonesFindNoRemains ==
    \A j \in Jobs :
        At(j, "clone") /\ (\A k \in job[j].met : job[k].tag # job[j].tag) => Checkout(j) = None

\* What build says of its fifth step: the bindings in an undisturbed package are
\* generated from the library just built.  Refuted: from a stripped library nothing
\* is generated, and the btcpay.cs of an earlier build passes for the result.
BindingsAreOfTheLibraryJustBuilt ==
    \A j \in Jobs :
        Packaged(j) /\ Alone(j) /\ ~job[j].edited /\ PlainlyVersioned(j)
            => job[j].result.bindings.lib = job[j].result.lib

=============================================================================
