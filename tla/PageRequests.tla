---------------------------- MODULE PageRequests -----------------------------
(***************************************************************************)
(* Requests for a plugin's pages: the browser, the controller's Index,     *)
(* RunCommand and SubmitForm, the runtime's Page, Pages and Dispatch, the  *)
(* panic guard of PluginHandle, the bridge to the host's services and the  *)
(* handler of the plugin, while BTCPay delivers events to the same plugin. *)
(*                                                                         *)
(* One of three plugins runs: the example, the one the scaffold generates, *)
(* and any other (external), which changes its page when it likes and      *)
(* calls the host under its Mutex.  It keeps running: PluginLifecycle has  *)
(* starting and stopping, SettingsSave what becomes of a save.             *)
(*                                                                         *)
(* A definition named X_Something is X with a bug in it, for the mutants.  *)
(***************************************************************************)
EXTENDS UiDocument, FiniteSets

CONSTANTS
    Operators,     \* browsers with the page open
    Feeders,       \* threads that deliver invoice events
    Plugins,       \* the plugins that may be the one that runs
    OtherPages,    \* what the dashboard of another plugin may look like
    Inputs,        \* what may be sent for a field, of each kind
    Verbosities,   \* the options of the example's dropdown
    Rows,          \* how many lines the example keeps, 10 in the code
    MaxSeen        \* bound on the events counted

Threads == Operators \cup Feeders

ASSUME ThreadsAssumption == Operators \cap Feeders = {} /\ IsFiniteSet(Threads)
ASSUME PluginsAssumption == Plugins \subseteq {"hello", "template", "other"}
ASSUME IdsAssumption ==
    {"settings", "greeting", "repeat", "verbose", "verbosity", "example", "note", "none",
     "say-hello", "Say hello", "clear", "Clear activity"} \subseteq Names
ASSUME OtherPagesAssumption == OtherPages \subseteq Documents
ASSUME InputsAssumption == \A kind \in Kinds : Inputs[kind] \subseteq AnyText
ASSUME VerbositiesAssumption == Verbosities \subseteq {o \in AnyText : Trim(o) = o /\ ~ Blank(o)}
ASSUME RowsAssumption == Rows \in Nat /\ MaxSeen \in Nat

VARIABLES
    plugin,      \* the plugin that runs
    layout,      \* the page another plugin would describe now
    seen,        \* HelloPlugin.invoices_seen
    recent,      \* how many lines HelloPlugin.recent has
    memory,      \* the settings the plugin works with: their text, the greeting
    poisoned,    \* the Mutex the plugin calls the host under
    pc,          \* where each thread is
    req,         \* the request each operator has in flight
    model,       \* the page that request was checked against
    shown,       \* the page in each browser: its address and its parsed document
    told,        \* TempData: the error and the success the next page shows
    outcome,     \* history: what became of a post not answered yet
    offers,      \* history: the other plugin's pages since that post was sent
    mixed,       \* history: a record and a clear have overlapped
    loggerThrew  \* history: the logger failed while a failure was being logged

activity == <<seen, recent, mixed>>
pluginVars == <<activity, memory, poisoned, loggerThrew>>
threadVars == <<pc, req, model, shown, told, outcome, offers>>
vars == <<plugin, layout, pluginVars, threadVars>>

\* What may be sent, and what Collect may make of it: a checkbox is its presence.
Checked(present) == Letters(IF present THEN 4 ELSE 5)
Sendable == UNION {Inputs[kind] : kind \in Kinds}
Texts == Sendable \cup {Empty, Checked(TRUE), Checked(FALSE)}

Pages == {"default", "settings", "dashboard"}
Labels == {"idle", "get", "post", "handling", "counted", "cleared"}

NoMessage == [error |-> "none", success |-> "none", button |-> "none"]
NoRequest == [page |-> "none", address |-> "none", kind |-> "none", name |-> "none",
              label |-> "none", confirmed |-> FALSE, values |-> <<>>]
NoPage == [address |-> "none", page |-> <<>>]

-----------------------------------------------------------------------------
(* What the plugins describe.                                              *)

\* The form of the example's settings, without the values it shows.
Greeting ==
    LET greeting == Required(AddField(Form("settings"), Text("greeting", None)))
        repeat == Bounds(AddField(greeting, NewField("repeat", "number")), 1, 10)
        verbose == AddField(repeat, NewField("verbose", "toggle"))
    IN AddField(verbose, Select("verbosity", Verbosities))
Note == Required(AddField(Form("note"), Text("text", None)))
Example == AddField(Form("settings"), Text("example", None))

HelloButtons == <<Button("say-hello", "Say hello"), Destructive(Button("clear", "Clear activity"))>>

\* settings_schema, and page for any other id; empty unless the plugin has it.
DocumentOf(p, id, l) ==
    CASE p = "hello" /\ id = "settings" -> <<Section("text"), Greeting>>
      [] p = "hello" /\ id = "dashboard" ->
            <<Section("stats"), Section("table"), Note, Actions(HelloButtons)>>
      [] p = "template" /\ id = "settings" -> <<Example>>
      [] p = "other" /\ id = "dashboard" -> l
      [] OTHER -> <<>>

\* Describing this page calls the host, or takes the Mutex, or both.
CallsHost(id) == plugin = "template" /\ id = "settings"
TakesLock(id) == CallsHost(id) \/ plugin = "other"

-----------------------------------------------------------------------------
(* HostServicesImpl, for a backend and a logger that may throw.            *)

Faults == [backend : BOOLEAN, logger : BOOLEAN]

\* An infallible call gets its value or the fallback.
Safe_Unguarded(fault) == IF fault.backend THEN "escapes" ELSE "value"
Safe(fault) ==
    IF fault.backend THEN IF fault.logger THEN "escapes" ELSE "fallback" ELSE "value"

\* A fallible call gets its value or a HostException.
SafeFallible(fault) ==
    IF fault.backend THEN IF fault.logger THEN "escapes" ELSE "HostException" ELSE "value"

LoggerThrows(fault) == fault.backend /\ fault.logger

\* PluginHandle's guard: a call that panics, itself or on a poisoned Mutex, fails.
Panics(id, fault) == TakesLock(id) /\ (poisoned \/ (CallsHost(id) /\ Safe(fault) = "escapes"))

\* What a panic leaves behind: the Mutex it held is poisoned.
Poison(id, fault) ==
    /\ poisoned' = (poisoned \/ Panics(id, fault))
    /\ loggerThrew' = (loggerThrew \/ (CallsHost(id) /\ ~ poisoned /\ LoggerThrows(fault)))

\* The runtime's Page: null when the plugin failed.
Described(id, fault) ==
    IF Panics(id, fault) THEN <<>> ELSE DocumentOf(plugin, id, layout)

\* Pages: the settings page first, if it has content, then the plugin's own.
PageIds(fault) ==
    (IF Described("settings", fault) = <<>> THEN <<>> ELSE <<"settings">>)
        \o (IF plugin = "template" \/ Panics("settings", fault) THEN <<>> ELSE <<"dashboard">>)

DefaultPage(fault) == IF PageIds(fault) = <<>> THEN "settings" ELSE Head(PageIds(fault))

-----------------------------------------------------------------------------
(* The browser.                                                            *)

Init ==
    /\ plugin \in Plugins
    /\ layout \in IF plugin = "other" THEN OtherPages ELSE {<<>>}
    /\ seen = 0 /\ recent = 0 /\ mixed = FALSE
    /\ memory \in IF plugin = "hello" THEN {t \in Inputs["text"] : ~ Blank(t)} ELSE {Empty}
    /\ poisoned = FALSE /\ loggerThrew = FALSE
    /\ pc = [t \in Threads |-> "idle"]
    /\ req = [t \in Operators |-> NoRequest]
    /\ model = [t \in Operators |-> <<>>]
    /\ shown = [t \in Operators |-> NoPage]
    /\ told = [t \in Operators |-> NoMessage]
    /\ outcome = [t \in Operators |-> "none"]
    /\ offers = [t \in Operators |-> {}]

\* An operator follows a link or types an address.
Get(t) ==
    /\ pc[t] = "idle"
    /\ \E page \in Pages :
          req' = [req EXCEPT ![t] = [NoRequest EXCEPT !.page = page, !.address = page]]
    /\ pc' = [pc EXCEPT ![t] = "get"]
    /\ UNCHANGED <<plugin, layout, pluginVars, model, shown, told, outcome, offers>>

\* The post of the page in the browser, to the page's own address.
Send(t, request) ==
    /\ req' = [req EXCEPT ![t] = [request EXCEPT !.page = shown[t].address,
                                                 !.address = shown[t].address]]
    /\ pc' = [pc EXCEPT ![t] = "post"]
    /\ outcome' = [outcome EXCEPT ![t] = "none"]
    /\ offers' = [offers EXCEPT ![t] = {layout}]
    /\ UNCHANGED <<plugin, layout, pluginVars, model, shown, told>>

\* A button is a form of its own, which carries the confirmation it asks for.
Press_Unconfirmed(t) ==
    /\ pc[t] = "idle"
    /\ \E i \in OfType(shown[t].page, "actions") :
          \E j \in DOMAIN shown[t].page[i].buttons :
             LET button == shown[t].page[i].buttons[j]
             IN Send(t, [NoRequest EXCEPT !.kind = "command", !.name = button.command,
                            !.label = button.label])
Press(t) ==
    /\ pc[t] = "idle"
    /\ \E i \in OfType(shown[t].page, "actions") :
          \E j \in DOMAIN shown[t].page[i].buttons :
             LET button == shown[t].page[i].buttons[j]
             IN Send(t, [NoRequest EXCEPT !.kind = "command", !.name = button.command,
                            !.label = button.label, !.confirmed = button.confirm])

FieldIds(form) == {form.fields[i].id : i \in DOMAIN form.fields}

\* Fewer notes are sent at a time than the count has room for.
Room == seen + Cardinality({t \in Threads : pc[t] # "idle"}) < MaxSeen

\* Every field is sent but a toggle that is off.
Sent(form) ==
    LET always == {form.fields[i].id : i \in {j \in DOMAIN form.fields : form.fields[j].kind # "toggle"}}
    IN {values \in UNION {[ids \cup always -> Sendable] : ids \in SUBSET (FieldIds(form) \ always)} :
           \A i \in DOMAIN form.fields :
               LET field == form.fields[i]
               IN field.id \in DOMAIN values => values[field.id] \in Inputs[field.kind]}

Submit(t) ==
    /\ pc[t] = "idle"
    /\ \E i \in OfType(shown[t].page, "form") :
          LET form == shown[t].page[i]
          IN /\ form.id = "note" => Room
             /\ \E values \in Sent(form) :
                   Send(t, [NoRequest EXCEPT !.kind = "form", !.name = form.id,
                               !.values = values])

-----------------------------------------------------------------------------
(* The controller.                                                         *)

\* No id in the address: the page is the first the plugin offers.
Resolve(t) ==
    /\ pc[t] \in {"get", "post"}
    /\ req[t].page = "default"
    /\ \E fault \in Faults :
          /\ req' = [req EXCEPT ![t].page = DefaultPage(fault)]
          /\ Poison("settings", fault)
    /\ UNCHANGED <<plugin, layout, activity, memory, pc, model, shown, told, outcome, offers>>

\* The browser has its answer.
Finish(t) ==
    /\ pc' = [pc EXCEPT ![t] = "idle"]
    /\ req' = [req EXCEPT ![t] = NoRequest]
    /\ model' = [model EXCEPT ![t] = <<>>]
    /\ outcome' = [outcome EXCEPT ![t] = "none"]
    /\ offers' = [offers EXCEPT ![t] = {}]

\* The view shows the messages waiting in TempData, which empties it.
Render(t, page) ==
    /\ shown' = [shown EXCEPT ![t] = [address |-> req[t].address, page |-> page]]
    /\ told' = [told EXCEPT ![t] = NoMessage]

\* GET: a page that failed or is empty is not found, and Back shows the last one.
Serve(t) ==
    /\ pc[t] = "get"
    /\ req[t].page # "default"
    /\ \E fault \in Faults :
          LET page == Parse(Described(req[t].page, fault))
          IN /\ IF page = <<>> THEN UNCHANGED <<shown, told>> ELSE Render(t, page)
             /\ Poison(req[t].page, fault)
    /\ Finish(t)
    /\ UNCHANGED <<plugin, layout, activity, memory>>

\* RedirectToPage, whose address names the page.
Redirect(t) ==
    /\ pc' = [pc EXCEPT ![t] = "get"]
    /\ req' = [req EXCEPT ![t] = [NoRequest EXCEPT !.page = req[t].page,
                                                  !.address = req[t].page]]
    /\ model' = [model EXCEPT ![t] = <<>>]
    /\ UNCHANGED <<shown, offers>>

\* Collect: each declared field in turn, a toggle as its presence, an empty secret not
\* at all; of fields with one id the last stays.
Collect(form, values) ==
    LET Posted(field) == IF field.id \in DOMAIN values THEN values[field.id] ELSE Empty
        Collected(field) ==
            IF field.kind = "toggle" THEN Checked(field.id \in DOMAIN values) ELSE Posted(field)
        kept == {i \in DOMAIN form.fields :
                    form.fields[i].kind = "password" => Posted(form.fields[i]) # Empty}
        LastOf(id) ==
            CHOOSE i \in kept : /\ form.fields[i].id = id
                                /\ \A j \in kept : form.fields[j].id = id => j <= i
    IN [id \in {form.fields[i].id : i \in kept} |-> Collected(form.fields[LastOf(id)])]

Submitted(values, id) == IF id \in DOMAIN values THEN values[id] ELSE Empty

\* The command's button on the page just described, and its confirmation.
Refusal_AnyConfirmed(r, page) ==
    IF r.kind = "command"
      THEN IF ButtonByCommand(page, r.name) = None THEN "gone" ELSE "no"
      ELSE IF FormById(page, r.name) = None THEN "gone" ELSE "no"
Refusal(r, page) ==
    IF r.kind = "command"
      THEN LET button == ButtonByCommand(page, r.name)
           IN IF button = None THEN "gone"
              ELSE IF button.confirm /\ ~ r.confirmed THEN "unconfirmed" ELSE "no"
      ELSE IF FormById(page, r.name) = None THEN "gone" ELSE "no"

\* Validate, on the form of the page just described.
Valid(r, page) ==
    LET form == FormById(page, r.name)
    IN \A i \in DOMAIN form.fields :
          HostAccepts(form.fields[i], Submitted(Collect(form, r.values), form.fields[i].id))

\* What is handed to Dispatch: SettingsUpdated for a form of the settings page.
Event_AlwaysSettings(r, page) ==
    IF r.kind = "command" THEN r
    ELSE [r EXCEPT !.kind = "settings", !.values = Collect(FormById(page, r.name), r.values)]
Event(r, page) ==
    IF r.kind = "command" THEN r
    ELSE [r EXCEPT !.kind = IF r.page = "settings" THEN "settings" ELSE "form",
                   !.values = Collect(FormById(page, r.name), r.values)]

\* POST: the page is described again and what was sent is checked against it.
NotFound(t, page) ==
    /\ page = <<>>
    /\ Finish(t)
    /\ UNCHANGED <<shown, told>>

Refuse(t, page) ==
    /\ page # <<>>
    /\ Refusal(req[t], page) # "no"
    /\ told' = [told EXCEPT ![t].error = Refusal(req[t], page)]
    /\ outcome' = [outcome EXCEPT ![t] = "refused"]
    /\ Redirect(t)

\* A form that is not valid is rendered again with what was typed.
Invalid(t, page) ==
    /\ page # <<>>
    /\ Refusal(req[t], page) = "no"
    /\ req[t].kind = "form" /\ ~ Valid(req[t], page)
    /\ Render(t, page)
    /\ Finish(t)

Dispatch(t, page) ==
    /\ page # <<>>
    /\ Refusal(req[t], page) = "no"
    /\ req[t].kind = "form" => Valid(req[t], page)
    /\ model' = [model EXCEPT ![t] = page]
    /\ req' = [req EXCEPT ![t] = Event(req[t], page)]
    /\ pc' = [pc EXCEPT ![t] = "handling"]
    /\ UNCHANGED <<shown, told, outcome, offers>>

Post(t) ==
    /\ pc[t] = "post"
    /\ req[t].page # "default"
    /\ \E fault \in Faults :
          LET page == Parse(Described(req[t].page, fault))
          IN /\ NotFound(t, page) \/ Refuse(t, page) \/ Invalid(t, page) \/ Dispatch(t, page)
             /\ Poison(req[t].page, fault)
    /\ UNCHANGED <<plugin, layout, activity, memory>>

-----------------------------------------------------------------------------
(* The end of a dispatch: the actions are carried out, their messages and   *)
(* the controller's own are left for the next page.                         *)

\* ApplyMessages: a warning is shown as an error, and the last of a kind stays.
Level(action) ==
    CASE action \in {"Error", "Warning"} -> "error"
      [] action \in {"Success", "Info"} -> "success"
      [] OTHER -> "none"
Has(actions, key) == \E i \in DOMAIN actions : Level(actions[i]) = key

Messages(waiting, actions) ==
    [waiting EXCEPT !.error = IF Has(actions, "error") THEN "plugin" ELSE @,
                    !.success = IF Has(actions, "success") THEN "plugin" ELSE @]
Reports(actions) == Has(actions, "error") \/ Has(actions, "success")

\* A command is told apart from a failure by nothing: Dispatch returns no actions
\* for either, and silence is reported as done.
CommandMessage(waiting, actions, button) ==
    IF Reports(actions) THEN Messages(waiting, actions)
    ELSE [waiting EXCEPT !.success = "done", !.button = button.label]

FormMessage(waiting, actions, kind) ==
    IF kind = "settings" /\ ~ Reports(actions) THEN [waiting EXCEPT !.success = "saved"]
    ELSE Messages(waiting, actions)

\* The handler has returned these actions, or has failed and returned none.  A form
\* answered with none was rejected: the view says so and shows what was typed.
Answer(t, actions, how) ==
    /\ IF req[t].kind # "command" /\ actions = <<>>
         THEN Render(t, model[t]) /\ Finish(t)
         ELSE /\ told' = [told EXCEPT ![t] =
                    IF req[t].kind = "command"
                      THEN CommandMessage(@, actions, ButtonByCommand(model[t], req[t].name))
                      ELSE FormMessage(@, actions, req[t].kind)]
              /\ outcome' = [outcome EXCEPT ![t] = how]
              /\ Redirect(t)
    /\ UNCHANGED <<plugin, layout>>

-----------------------------------------------------------------------------
(* The example's handler.  Its count and its list have a Mutex each.  It     *)
(* refuses unknown commands and forms and blank notes, too, but never gets   *)
(* any: see ExampleRefusesOnlyMissingOptions.                                *)

Handles(t, kind) == pc[t] = "handling" /\ req[t].kind = kind

Step(t, label) ==
    /\ pc' = [pc EXCEPT ![t] = label]
    /\ UNCHANGED <<plugin, layout, req, model, shown, told, outcome, offers>>

SayHello(t) ==
    /\ plugin = "hello" /\ Handles(t, "command") /\ req[t].name = "say-hello"
    /\ Answer(t, <<"Log", "Success">>, "handled")
    /\ UNCHANGED pluginVars

\* Clear: the list, then the count.
ClearRecent(t) ==
    /\ plugin = "hello" /\ Handles(t, "command") /\ req[t].name = "clear"
    /\ recent' = 0
    /\ mixed' = (mixed \/ \E u \in Threads : pc[u] = "counted")
    /\ Step(t, "cleared")
    /\ UNCHANGED <<seen, memory, poisoned, loggerThrew>>

ClearSeen_Kept(t) ==
    /\ pc[t] = "cleared"
    /\ Answer(t, <<"Success">>, "handled")
    /\ UNCHANGED pluginVars
ClearSeen(t) ==
    /\ pc[t] = "cleared"
    /\ seen' = 0
    /\ Answer(t, <<"Success">>, "handled")
    /\ UNCHANGED <<recent, mixed, memory, poisoned, loggerThrew>>

\* record: the count, then the list, which keeps the most recent few.
Count ==
    /\ seen' = seen + 1
    /\ mixed' = (mixed \/ \E u \in Threads : pc[u] = "cleared")
    /\ UNCHANGED <<recent, memory, poisoned, loggerThrew>>

Insert_Unbounded ==
    /\ recent' = recent + 1
    /\ UNCHANGED <<seen, mixed, memory, poisoned, loggerThrew>>
Insert ==
    /\ recent' = IF recent < Rows THEN recent + 1 ELSE Rows
    /\ UNCHANGED <<seen, mixed, memory, poisoned, loggerThrew>>

BringsNote(t) == req[t].name = "note" /\ ~ Blank(Submitted(req[t].values, "text"))

CountNote(t) ==
    /\ plugin = "hello" /\ Handles(t, "form") /\ BringsNote(t)
    /\ Count
    /\ Step(t, "counted")

InsertNote(t) ==
    /\ t \in Operators /\ pc[t] = "counted"
    /\ Insert
    /\ Answer(t, <<"Success">>, "handled")

\* An invoice event: the same record, and nobody to tell.
CountEvent(t) ==
    /\ plugin = "hello" /\ pc[t] = "idle" /\ Room
    /\ Count
    /\ Step(t, "counted")

InsertEvent(t) ==
    /\ pc[t] = "counted"
    /\ Insert
    /\ Step(t, "idle")

\* from_values takes these settings; a key that is missing keeps its default.
Takes(values) ==
    /\ "greeting" \in DOMAIN values => ~ Blank(values["greeting"])
    /\ "repeat" \in DOMAIN values /\ ~ Blank(values["repeat"]) =>
          values["repeat"].number # None /\ values["repeat"].number \in 1 .. 10
    /\ "verbosity" \in DOMAIN values => Trim(values["verbosity"]) \in Verbosities

\* SettingsUpdated.
ApplySettings(t) ==
    /\ plugin = "hello" /\ Handles(t, "settings") /\ Takes(req[t].values)
    /\ memory' = Submitted(req[t].values, "greeting")
    /\ Answer(t, <<"Log", "SaveSettings", "Refresh">>, "handled")
    /\ UNCHANGED <<activity, poisoned, loggerThrew>>

RejectSettings(t) ==
    /\ plugin = "hello" /\ Handles(t, "settings") /\ ~ Takes(req[t].values)
    /\ Answer(t, <<>>, "failed")
    /\ UNCHANGED pluginVars

-----------------------------------------------------------------------------
(* The scaffold's handler ignores requests.  Another plugin's calls the host *)
(* under its Mutex and reports as it likes, or fails.                        *)

TemplateHandles(t) ==
    /\ plugin = "template" /\ pc[t] = "handling"
    /\ Answer(t, <<>>, "handled")
    /\ UNCHANGED pluginVars

OtherHandles(t) ==
    /\ plugin = "other" /\ pc[t] = "handling"
    /\ \E fault \in Faults :
          LET panics == poisoned \/ SafeFallible(fault) = "escapes"
          IN /\ IF panics \/ SafeFallible(fault) = "HostException"
                  THEN Answer(t, <<>>, "failed")
                  ELSE \E actions \in {<<>>, <<"Success">>, <<"Warning">>} :
                          Answer(t, actions, "handled")
             /\ poisoned' = (poisoned \/ panics)
             /\ loggerThrew' = (loggerThrew \/ (~ poisoned /\ LoggerThrows(fault)))
    /\ UNCHANGED <<activity, memory>>

\* Another plugin's page changes with its state; requests in flight span both.
Relayout ==
    /\ plugin = "other"
    /\ layout' \in OtherPages \ {layout}
    /\ offers' = [t \in Operators |->
                    IF offers[t] = {} THEN {} ELSE offers[t] \cup {layout'}]
    /\ UNCHANGED <<plugin, pluginVars, pc, req, model, shown, told, outcome>>

-----------------------------------------------------------------------------
Browse(t) == Get(t) \/ Press(t) \/ Submit(t)

Request(t) ==
    \/ Resolve(t) \/ Serve(t) \/ Post(t)
    \/ SayHello(t) \/ ClearRecent(t) \/ ClearSeen(t) \/ CountNote(t) \/ InsertNote(t)
    \/ ApplySettings(t) \/ RejectSettings(t)
    \/ TemplateHandles(t) \/ OtherHandles(t)

Feed(t) == CountEvent(t) \/ InsertEvent(t)

Next ==
    \/ \E t \in Operators : Browse(t) \/ Request(t)
    \/ \E t \in Feeders : Feed(t)
    \/ Relayout

Spec == Init /\ [][Next]_vars

-----------------------------------------------------------------------------
(* Properties.                                                             *)

Addresses == Pages \cup {"none"}
Notices == {"none", "gone", "unconfirmed", "plugin", "done", "saved"}

Requests(values) ==
    [page : Addresses, address : Addresses, kind : {"none", "command", "form", "settings"},
     name : Names, label : Names, confirmed : BOOLEAN, values : {values}]
IsRequest(r) == r \in Requests(r.values) /\ \A id \in DOMAIN r.values : r.values[id] \in Texts

\* Every variable has its type.
TypeOK ==
    /\ plugin \in Plugins
    /\ layout \in OtherPages \cup {<<>>}
    /\ seen \in Nat /\ recent \in 0 .. Rows /\ mixed \in BOOLEAN
    /\ memory \in Texts
    /\ poisoned \in BOOLEAN /\ loggerThrew \in BOOLEAN
    /\ pc \in [Threads -> Labels]
    /\ DOMAIN req = Operators /\ \A t \in Operators : IsRequest(req[t])
    /\ model \in [Operators -> ParsedPages]
    /\ shown \in [Operators -> [address : Addresses, page : ParsedPages]]
    /\ told \in [Operators -> [error : Notices, success : Notices, button : Names]]
    /\ outcome \in [Operators -> {"none", "refused", "handled", "failed"}]
    /\ offers \in [Operators -> SUBSET (OtherPages \cup {<<>>})]

InHandler(t) == pc[t] \in {"handling", "counted", "cleared"}

\* What the plugin described, for the post of t, since it was sent.
Offered(t) == {DocumentOf(plugin, req[t].page, l) : l \in offers[t]}

RunsAsOffered(t) ==
    InHandler(t) /\ req[t].kind = "command" =>
        \E d \in Offered(t) :
            LET button == ButtonByCommand(Parse(d), req[t].name)
            IN button # None /\ (button.confirm => req[t].confirmed)

\* A command the plugin is handling was, at some time since it was sent, on the
\* page, and confirmed if the first of its buttons there asked for that.
CommandsRunAsOffered == \A t \in Operators : RunsAsOffered(t)

OneButtonEach(page) ==
    \A i \in OfType(page, "actions") : \A j \in DOMAIN page[i].buttons :
        Senders(page, page[i].buttons[j].command) = {<<i, j>>}

Undisturbed(t) ==
    OneButtonEach(shown[t].page) /\ \A d \in Offered(t) : Parse(d) = shown[t].page

IsTaken(t) ==
    /\ outcome[t] # "refused"
    /\ pc[t] = "handling" /\ req[t].kind = "command" =>
          ButtonByCommand(model[t], req[t].name).label = req[t].label

\* A press or a submission is not refused as stale when the page never changed
\* since it was rendered, and the label reported is that of the button pressed.
UndisturbedPressesAreTaken == \A t \in Operators : Undisturbed(t) => IsTaken(t)

Obeys(t, d) ==
    LET form == FormById(d, req[t].name)
    IN /\ form # None
       /\ \A i \in DOMAIN form.fields :
             LET v == Submitted(req[t].values, form.fields[i].id)
             IN FieldAccepts(form.fields[i], v) \/ TooLong(form.fields[i], v)

ValuesObey(t) ==
    InHandler(t) /\ req[t].kind \in {"form", "settings"} => \E d \in Offered(t) : Obeys(t, d)

\* What the plugin is handed obeys the rules of the form it described, as its own
\* Field::validate has them, but for the length of a text.
DispatchedValuesObeyTheForm == \A t \in Operators : ValuesObey(t)

\* The host's checks leave the example one thing to refuse, a dropdown sent without a
\* choice: it is handed no command or form it does not know, no blank note, no settings
\* without a greeting or out of bounds.
ExampleRefusesOnlyMissingOptions ==
    \A t \in Operators : plugin = "hello" /\ pc[t] = "handling" =>
        \/ req[t].kind = "command" /\ req[t].name \in {"say-hello", "clear"}
        \/ req[t].kind = "form" /\ BringsNote(t)
        \/ /\ req[t].kind = "settings"
           /\ Takes(req[t].values) \/ Blank(Submitted(req[t].values, "verbosity"))

\* No failure of the backend alone makes the plugin panic under its Mutex, which
\* would fail every later call: for that the logger has to fail too.
OnlyTheLoggerPoisons == poisoned => loggerThrew

\* The settings in effect change only by a form of the settings page.
OnlySettingsPagesChangeSettings ==
    [][memory' # memory => \E t \in Operators :
          pc[t] = "handling" /\ req[t].page = "settings" /\ pc'[t] # "handling"]_vars

\* Between records the activity page's count and its list agree, unless a record
\* and a clear have overlapped.
UndisturbedActivityAgrees ==
    ~ mixed /\ (\A t \in Threads : pc[t] \notin {"counted", "cleared"}) =>
        recent = IF seen < Rows THEN seen ELSE Rows

-----------------------------------------------------------------------------
(* Said in a comment, and not so.                                          *)

\* RustPluginSettingsControllerBase: "A command that reported nothing still
\* succeeded": a command reported as done did not fail.
DoneMeansHandled ==
    \A t \in Operators : outcome[t] = "failed" => told[t].success # "done"
=============================================================================
