---------------------------- MODULE SettingsSave -----------------------------
(***************************************************************************)
(* An operator's submission of the settings form, end to end: the          *)
(* controller checks it, the plugin (the example plugin's handler) parses  *)
(* it, puts it into effect in memory and asks for it to be saved, and      *)
(* RustPluginRuntime.Perform saves it one key at a time.  Several requests *)
(* may be under way at once, any call of the backend may fail, the process *)
(* may restart.                                                            *)
(*                                                                         *)
(* The backend is PluginStore, whose actions the actions here conjoin:     *)
(* SettingsBackend is shown to implement it.                               *)
(*                                                                         *)
(* A definition named X_Something is X with a bug in it, for the mutants.  *)
(***************************************************************************)
CONSTANTS
    Submitters,      \* request threads
    Fields,          \* fields of the settings form
    Texts,           \* what can be typed into each, and stored of it
    HostTakes,       \* of them, what the controller's Validate lets through
    PluginTakes,     \* and what the plugin's from_values does
    Rewritten,       \* what to_values makes of what from_values made of such a text
    Defaults,        \* what the plugin runs with where nothing is stored
    Unset,           \* no value is stored
    NoForm,          \* the thread carries no request
    NoWriter         \* no SetSetting is under way

AnyText == UNION {Texts[f] : f \in Fields}
Submissions == {x \in [Fields -> AnyText] : \A f \in Fields : x[f] \in Texts[f]}
Accepted(x) == \A f \in Fields : x[f] \in PluginTakes[f]
Documents == {d \in [Fields -> AnyText \cup {Unset}] :
                 \A f \in Fields : d[f] \in Texts[f] \cup {Unset}}

\* What SaveSettings carries of a field.
Saved(f) == {Rewritten[f][t] : t \in PluginTakes[f]}

ASSUME TakesAssumption == \A f \in Fields : PluginTakes[f] \subseteq Texts[f]
ASSUME DefaultsAssumption == Defaults \in Submissions
ASSUME UnsetAssumption == Unset \notin AnyText
ASSUME NoFormAssumption == NoForm \notin Submissions
ASSUME NoWriterAssumption == NoWriter \notin Submitters

\* from_values takes what to_values wrote of an accepted text, unless that text was blank
\* and the field kept its default, which nothing checks (SettingsFormProofs has it as
\* WrittenIsTakenAgain).
ASSUME RewrittenAssumption ==
    \A f \in Fields : \A t \in PluginTakes[f] :
        Rewritten[f][t] \in (PluginTakes[f] \cup {Defaults[f]}) \cap Texts[f]

VARIABLES
    memory,     \* the settings the plugin is running with
    visible,    \* the backend's document: what readers see
    stored,     \*   and what survives a restart
    writer,     \*   and whose SetSetting has begun to change it
    pc,         \* where each request is
    form,       \* the values it carries: as posted, then those of its SaveSettings
    todo,       \* fields of its SaveSettings not yet written
    reply,      \* what the operator was told last
    unsaved,    \* history: fields of its submission, once accepted, not written
    overlapped, \* history: two saves have overlapped since the last start
    failed      \* history: a call of the backend has failed since the last start

backend == <<visible, stored, writer>>
history == <<unsaved, overlapped, failed>>
vars == <<memory, backend, pc, form, todo, reply, history>>

Store == INSTANCE PluginStore
             WITH Writers <- Submitters, Slots <- Fields, Contents <- AnyText \cup {Unset}

Replies == {"none", "invalid", "rejected", "saved"}

\* Settings::load in the plugin's start, which puts its own greeting for an empty one: a
\* field whose reading fails, like one that was never saved, has its default.
Loaded(document, unread) ==
    [f \in Fields |-> IF f \in unread \/ document[f] = Unset THEN Defaults[f] ELSE document[f]]

Init ==
    /\ Store!Init
    /\ \A f \in Fields : stored[f] \in Saved(f) \cup {Unset}
    /\ memory = Loaded(stored, {})
    /\ pc = [s \in Submitters |-> "idle"]
    /\ form = [s \in Submitters |-> NoForm]
    /\ todo = [s \in Submitters |-> {}]
    /\ reply = [s \in Submitters |-> "none"]
    /\ unsaved = [s \in Submitters |-> {}]
    /\ overlapped = FALSE
    /\ failed = FALSE

Goto(s, label) == pc' = [pc EXCEPT ![s] = label]
Tell(s, answer) ==
    /\ Goto(s, "idle")
    /\ form' = [form EXCEPT ![s] = NoForm]
    /\ reply' = [reply EXCEPT ![s] = answer]

\* POST of the settings page: Collect reads the declared fields.
Post_Partial(s) ==
    /\ pc[s] = "idle"
    /\ \E posted \in SUBSET Fields, x \in Submissions :
          form' = [form EXCEPT ![s] = [f \in posted |-> x[f]]]
    /\ Goto(s, "validate")
    /\ reply' = [reply EXCEPT ![s] = "none"]
    /\ unsaved' = [unsaved EXCEPT ![s] = {}]
    /\ UNCHANGED <<memory, backend, todo, overlapped, failed>>
Post(s) ==
    /\ pc[s] = "idle"
    /\ \E x \in Submissions : form' = [form EXCEPT ![s] = x]
    /\ Goto(s, "validate")
    /\ reply' = [reply EXCEPT ![s] = "none"]
    /\ unsaved' = [unsaved EXCEPT ![s] = {}]
    /\ UNCHANGED <<memory, backend, todo, overlapped, failed>>

\* Validate found nothing: SubmitSettings dispatches to the plugin.
Validate(s) ==
    /\ pc[s] = "validate"
    /\ \A f \in Fields : form[s][f] \in HostTakes[f]
    /\ Goto(s, "dispatch")
    /\ UNCHANGED <<memory, backend, form, todo, reply, history>>

\* Validate found errors: the form is shown again.
Invalid(s) ==
    /\ pc[s] = "validate"
    /\ \E f \in Fields : form[s][f] \notin HostTakes[f]
    /\ Tell(s, "invalid")
    /\ UNCHANGED <<memory, backend, todo, history>>

\* handle(SettingsUpdated): parsed by from_values, in effect at once, and returned in
\* SaveSettings as to_values writes it.
Parsed(x) == [f \in Fields |-> Rewritten[f][x[f]]]
Accept_StoresOnly(s) ==
    /\ pc[s] = "dispatch"
    /\ Accepted(form[s])
    /\ form' = [form EXCEPT ![s] = Parsed(@)]
    /\ todo' = [todo EXCEPT ![s] = Fields]
    /\ Goto(s, "saving")
    /\ unsaved' = [unsaved EXCEPT ![s] = Fields]
    /\ overlapped' = (overlapped \/ \E o \in Submitters \ {s} : pc[o] = "saving")
    /\ UNCHANGED <<memory, backend, reply, failed>>
Accept(s) ==
    /\ pc[s] = "dispatch"
    /\ Accepted(form[s])
    /\ memory' = Parsed(form[s])
    /\ form' = [form EXCEPT ![s] = Parsed(@)]
    /\ todo' = [todo EXCEPT ![s] = Fields]
    /\ Goto(s, "saving")
    /\ unsaved' = [unsaved EXCEPT ![s] = Fields]
    /\ overlapped' = (overlapped \/ \E o \in Submitters \ {s} : pc[o] = "saving")
    /\ UNCHANGED <<backend, reply, failed>>

\* from_values fails: Dispatch logs the error and returns no actions.
Reject_Applies(s) ==
    /\ pc[s] = "dispatch"
    /\ ~ Accepted(form[s])
    /\ memory' = form[s]
    /\ Tell(s, "rejected")
    /\ UNCHANGED <<backend, todo, history>>
Reject(s) ==
    /\ pc[s] = "dispatch"
    /\ ~ Accepted(form[s])
    /\ Tell(s, "rejected")
    /\ UNCHANGED <<memory, backend, todo, history>>

\* foreach (var (key, value) in save.Values) _backend.SetSetting(key, value): the
\* call changes the document readers see,
SetSetting(s) ==
    /\ pc[s] = "saving"
    /\ \E f \in todo[s] :
          /\ Store!Show(s, f, form[s][f])
          /\ todo' = [todo EXCEPT ![s] = @ \ {f}]
    /\ UNCHANGED <<memory, pc, form, reply, history>>

\* and returns once it is stored.
SettingIsSet(s) ==
    /\ Store!Persist(s)
    /\ unsaved' = [unsaved EXCEPT ![s] = todo[s]]
    /\ UNCHANGED <<memory, pc, form, todo, reply, overlapped, failed>>

\* It throws, before or after changing the document; Perform logs it and drops the
\* remaining keys.
SetSettingFails(s) ==
    /\ pc[s] = "saving"
    /\ \/ Store!Fail(s)
       \/ todo[s] # {} /\ writer = NoWriter /\ UNCHANGED backend
    /\ todo' = [todo EXCEPT ![s] = {}]
    /\ failed' = TRUE
    /\ UNCHANGED <<memory, pc, form, reply, unsaved, overlapped>>

\* Dispatch returns the actions and the controller confirms.
Confirm(s) ==
    /\ pc[s] = "saving"
    /\ todo[s] = {} /\ writer # s
    /\ Tell(s, "saved")
    /\ UNCHANGED <<memory, backend, todo, history>>

\* A new process: the plugin's start loads its settings from the backend, and what
\* fails to be read is logged by the bridge and takes its default.
Restart ==
    /\ Store!Restart
    /\ \E unread \in SUBSET Fields :
          /\ memory' = Loaded(stored, unread)
          /\ failed' = (unread # {})
    /\ pc' = [s \in Submitters |-> "idle"]
    /\ form' = [s \in Submitters |-> NoForm]
    /\ todo' = [s \in Submitters |-> {}]
    /\ reply' = [s \in Submitters |-> "none"]
    /\ unsaved' = [s \in Submitters |-> {}]
    /\ overlapped' = FALSE

Next ==
    \/ \E s \in Submitters :
          Post(s) \/ Validate(s) \/ Invalid(s) \/ Accept(s) \/ Reject(s)
          \/ SetSetting(s) \/ SettingIsSet(s) \/ SetSettingFails(s) \/ Confirm(s)
    \/ Restart

Spec == Init /\ [][Next]_vars

-----------------------------------------------------------------------------
(* Properties.                                                             *)

\* Every variable has its type.
TypeOK ==
    /\ memory \in Submissions
    /\ visible \in Documents /\ stored \in Documents
    /\ writer \in Submitters \cup {NoWriter}
    /\ pc \in [Submitters -> {"idle", "validate", "dispatch", "saving"}]
    /\ form \in [Submitters -> Submissions \cup {NoForm}]
    /\ todo \in [Submitters -> SUBSET Fields]
    /\ reply \in [Submitters -> Replies]
    /\ unsaved \in [Submitters -> SUBSET Fields]
    /\ overlapped \in BOOLEAN /\ failed \in BOOLEAN

\* No text the plugin would refuse is in effect, seen or stored, not even as one field of
\* a document several submissions wrote parts of, unless it is the field's default: that
\* is in effect until something is saved, and a blank number saves it, within its bounds
\* or not.
RejectedValuesNeverApply ==
    \A f \in Fields :
        /\ memory[f] \in PluginTakes[f] \cup {Defaults[f]}
        /\ visible[f] \in PluginTakes[f] \cup {Defaults[f], Unset}
        /\ stored[f] \in PluginTakes[f] \cup {Defaults[f], Unset}

NoSaveUnderWay == \A s \in Submitters : pc[s] # "saving"

\* Unless a call of the backend failed, what readers see is stored whenever no
\* SetSetting is under way, overlapping saves or not; and saves that did not overlap
\* leave the plugin running with what a restart would load.
UndisturbedSavesAgree ==
    ~ failed =>
        /\ writer = NoWriter => visible = stored
        /\ ~ overlapped /\ NoSaveUnderWay => memory = Loaded(stored, {})

(* Why RejectedValuesNeverApply and UndisturbedSavesAgree are kept.        *)

FormsAreKnown ==
    \A s \in Submitters :
        /\ pc[s] # "idle" => form[s] \in Submissions
        /\ pc[s] = "saving" => \A f \in Fields : form[s][f] \in Saved(f)

\* Whatever is kept was written by a SaveSettings.
KeptWasSaved ==
    \A f \in Fields :
        /\ memory[f] \in Saved(f) \cup {Defaults[f]}
        /\ {visible[f], stored[f]} \subseteq Saved(f) \cup {Unset}

\* Without overlap there is one save at most, and what it ticked off is seen.
SavesInTurn ==
    /\ \A s \in Submitters : writer = s => pc[s] = "saving"
    /\ ~ overlapped =>
          \A s, o \in Submitters : pc[s] = "saving" /\ pc[o] = "saving" => s = o
    /\ ~ overlapped /\ ~ failed =>
          \A s \in Submitters : pc[s] = "saving" =>
              /\ memory = form[s]
              /\ \A f \in Fields \ todo[s] : visible[f] = form[s][f]

\* The inductive invariant.
SInv == TypeOK /\ FormsAreKnown /\ KeptWasSaved /\ SavesInTurn /\ UndisturbedSavesAgree

-----------------------------------------------------------------------------
(* What the code's comments say and the code does not keep.                *)

\* hello-plugin: "Applied before asking for the save, so the running plugin and
\* what is stored cannot disagree": as long as no save failed, they agree whenever
\* none is under way.
PluginAgreesWithStored == ~ failed /\ NoSaveUnderWay => memory = Loaded(stored, {})

\* RustPluginRuntime.Dispatch returns "The actions the plugin requested, after they
\* have been carried out", which the controller confirms with "Settings saved.".
SavedMeansStored == \A s \in Submitters : reply[s] = "saved" => unsaved[s] = {}
=============================================================================
