---------------------------- MODULE SettingsForm -----------------------------
(***************************************************************************)
(* One settings form from the derive's struct to storage and back: what    *)
(* #[derive(BtcpaySettings)] generates (form, update, from_values,         *)
(* to_values, load), what the browser posts, and the controller's Collect  *)
(* and Validate in C#.  The same rules are written in the derive and in    *)
(* Validate, and must agree.                                               *)
(*                                                                         *)
(* A submission is one step here; SettingsSave has the steps inside one.   *)
(* A definition named X_Something is X with a bug in it, for the mutants.  *)
(***************************************************************************)
EXTENDS Integers

CONSTANTS
    Fields,      \* keys of the form
    Schema,      \* what the struct declares of each field
    Names,       \* the words that are not integers
    Inputs,      \* texts that can be typed into it or found in storage
    HostNumbers, \* the integers of an i64 and of a C# long
    FromValues,  \* the plugin parses with from_values, not update
    Absent       \* a key that is not in the map, a setting that is not stored

Cores == [is : {"number"}, n : Int] \cup [is : {"word"}, w : Names]
Texts == [core : Cores, padded : BOOLEAN]

\* What the derive accepts of a struct, and the values its fields may default to.
Declared(field) ==
    \/ field.kind \in {"text", "secret"} /\ field.default \in Texts
    \/ field.kind = "number" /\ field.type \subseteq Int /\ field.default \in field.type
    \/ field.kind = "toggle" /\ field.default \in BOOLEAN
    \/ /\ field.kind = "select"
       /\ field.options \subseteq Names \ {""} /\ field.default \in field.options

ASSUME NamesAssumption == {"", "true", "false"} \subseteq Names
ASSUME SchemaAssumption == \A f \in Fields : Declared(Schema[f])
ASSUME InputsAssumption == \A f \in Fields : Inputs[f] \subseteq Texts
ASSUME AbsentAssumption == Absent \notin Texts

VARIABLES
    settings,    \* the values of the plugin's struct
    stored,      \* the texts stored for them
    sub,         \* the last submission, as Collect hands it on
    reply        \* what became of it

vars == <<settings, stored, sub, reply>>

-----------------------------------------------------------------------------
(* Texts: a core, with or without white space around it.                   *)

Number(n) == [is |-> "number", n |-> n]
Word(w) == [is |-> "word", w |-> w]
Plain(core) == [core |-> core, padded |-> FALSE]

Empty == Plain(Word(""))
Blank(t) == t.core = Word("")

Kind(f) == Schema[f].kind
Default(f) == Schema[f].default

\* A text that parses as an integer of the given set.
Reads(t, numbers) == t.core.is = "number" /\ t.core.n \in numbers

InBounds(f, n) == Schema[f].min <= n /\ n <= Schema[f].max

Options(f) == Schema[f].options

\* Trimmed, it is one of the options: from_choice_value, and Validate's comparison.
Chooses(f, t) == t.core \in {Word(o) : o \in Options(f)}

\* Values of a field's Rust type.
ValuesOf(f) ==
    CASE Kind(f) = "number" -> Schema[f].type
      [] Kind(f) = "toggle" -> BOOLEAN
      [] Kind(f) = "select" -> Options(f)
      [] Kind(f) \in {"text", "secret"} -> Texts

-----------------------------------------------------------------------------
(* What the derive generates.                                              *)

\* to_string, or Choice::choice_value.
ToText(f, v) ==
    CASE Kind(f) = "number" -> Plain(Number(v))
      [] Kind(f) = "toggle" -> Plain(Word(IF v THEN "true" ELSE "false"))
      [] Kind(f) = "select" -> Plain(Word(v))
      [] Kind(f) \in {"text", "secret"} -> v

\* load, for a stored text t: what does not parse falls back to the default, and
\* bounds are not checked.
Load(f, t) ==
    CASE t = Absent -> Default(f)
      [] t # Absent /\ Kind(f) = "number" ->
            IF Reads(t, Schema[f].type) THEN t.core.n ELSE Default(f)
      [] t # Absent /\ Kind(f) = "toggle" ->
            IF t.core \in {Word("true"), Word("false")} THEN t.core = Word("true") ELSE Default(f)
      [] t # Absent /\ Kind(f) = "select" ->
            IF Chooses(f, t) THEN t.core.w ELSE Default(f)
      [] t # Absent /\ Kind(f) \in {"text", "secret"} -> t

\* A number that is not blank: read as an i64, checked, converted to its type.
ParsesNumber_Unconverted(f, t) == Reads(t, HostNumbers) /\ InBounds(f, t.core.n)
ParsesNumber_BelowMax(f, t) ==
    Reads(t, HostNumbers) /\ InBounds(f, t.core.n + 1) /\ t.core.n \in Schema[f].type
ParsesNumber(f, t) ==
    Reads(t, HostNumbers) /\ InBounds(f, t.core.n) /\ t.core.n \in Schema[f].type

\* update accepts the text submitted for a field.
Parses(f, t) ==
    /\ Kind(f) \in {"text", "number"} /\ Schema[f].required => ~ Blank(t)
    /\ Kind(f) = "number" /\ ~ Blank(t) => ParsesNumber(f, t)
    /\ Kind(f) = "select" => Chooses(f, t)

\* The value update gives the field, from the value v it had.
Parsed(f, t, v) ==
    CASE Kind(f) = "number" -> IF Blank(t) THEN v ELSE t.core.n
      [] Kind(f) = "toggle" -> t.core = Word("true")
      [] Kind(f) = "select" -> t.core.w
      [] Kind(f) \in {"text", "secret"} -> t

PluginAccepts(values) == \A f \in Fields : values[f] # Absent => Parses(f, values[f])

\* update, on the values it is called on.
Onto(base, values) ==
    [f \in Fields |-> IF values[f] = Absent THEN base[f] ELSE Parsed(f, values[f], base[f])]

Defaults == [f \in Fields |-> Default(f)]

\* What the plugin does with a submission: update a clone of its settings, or
\* from_values, which updates the defaults.
Updated_FromDefaults(values) == Onto(Defaults, values)
Updated(values) == Onto(IF FromValues THEN Defaults ELSE settings, values)

\* Secrets left out, as the form leaves them out.
ToValues_NoSecrets(s) ==
    [f \in Fields |-> IF Kind(f) = "secret" THEN Empty ELSE ToText(f, s[f])]
ToValues(s) == [f \in Fields |-> ToText(f, s[f])]

-----------------------------------------------------------------------------
(* The browser and the controller.                                         *)

\* The form's fields as rendered and posted back untouched: no value is rendered
\* for a secret, an unchecked box posts nothing.
Untouched_Unfilled(s) ==
    [f \in Fields |->
        CASE Kind(f) = "toggle" -> IF s[f] THEN Plain(Word("true")) ELSE Absent
          [] Kind(f) = "text" -> s[f]
          [] OTHER -> Empty]
Untouched(s) ==
    [f \in Fields |->
        CASE Kind(f) = "secret" -> Empty
          [] Kind(f) = "toggle" -> IF s[f] THEN Plain(Word("true")) ELSE Absent
          [] OTHER -> ToText(f, s[f])]

\* The key of each declared field that is not an empty secret.
Collect_EmptySecrets(post) ==
    [f \in Fields |->
        CASE Kind(f) = "toggle" -> ToText(f, post[f] # Absent)
          [] OTHER -> IF post[f] = Absent THEN Empty ELSE post[f]]
Collect_ToggleIsOn(post) ==
    [f \in Fields |->
        CASE Kind(f) = "toggle" -> ToText(f, post[f] = Plain(Word("on")))
          [] Kind(f) = "secret" -> IF post[f] \in {Empty, Absent} THEN Absent ELSE post[f]
          [] OTHER -> IF post[f] = Absent THEN Empty ELSE post[f]]
Collect(post) ==
    [f \in Fields |->
        CASE Kind(f) = "toggle" -> ToText(f, post[f] # Absent)
          [] Kind(f) = "secret" -> IF post[f] \in {Empty, Absent} THEN Absent ELSE post[f]
          [] OTHER -> IF post[f] = Absent THEN Empty ELSE post[f]]

\* Validate, for one field: t is trimmed first, an omitted key is empty.
HostAcceptsField(f, t) ==
    IF t = Absent \/ Blank(t)
      THEN Schema[f].required => Kind(f) = "secret"
      ELSE /\ Kind(f) = "number" => Reads(t, HostNumbers) /\ InBounds(f, t.core.n)
           /\ Kind(f) = "select" => Chooses(f, t)

HostAccepts(values) == \A f \in Fields : HostAcceptsField(f, values[f])

Posts == {p \in [Fields -> UNION {Inputs[f] : f \in Fields} \cup {Absent}] :
             \A f \in Fields : p[f] \in Inputs[f] \cup {Absent}}

-----------------------------------------------------------------------------
\* Storage was written by an operator or an older version; start loads it.
Init ==
    /\ stored \in Posts
    /\ settings = [f \in Fields |-> Load(f, stored[f])]
    /\ sub = [f \in Fields |-> Absent]
    /\ reply = "none"

\* A POST that fails Validate.
Refuse(post) ==
    /\ ~ HostAccepts(Collect(post))
    /\ sub' = Collect(post)
    /\ reply' = "invalid"
    /\ UNCHANGED <<settings, stored>>

\* A POST the plugin refuses; it parses into a clone or a fresh struct.
Reject(post) ==
    /\ HostAccepts(Collect(post))
    /\ ~ PluginAccepts(Collect(post))
    /\ sub' = Collect(post)
    /\ reply' = "rejected"
    /\ UNCHANGED <<settings, stored>>

\* A POST the plugin takes: in effect, then SaveSettings with to_values.
Save(post) ==
    /\ HostAccepts(Collect(post))
    /\ PluginAccepts(Collect(post))
    /\ sub' = Collect(post)
    /\ reply' = "saved"
    /\ settings' = Updated(Collect(post))
    /\ stored' = ToValues(settings')

\* The next start loads what is stored.
Restart ==
    /\ settings' = [f \in Fields |-> Load(f, stored[f])]
    /\ sub' = [f \in Fields |-> Absent]
    /\ reply' = "none"
    /\ UNCHANGED stored

Next ==
    \/ \E post \in Posts : Refuse(post) \/ Reject(post) \/ Save(post)
    \/ Restart

Spec == Init /\ [][Next]_vars

-----------------------------------------------------------------------------
(* Properties.                                                             *)

\* Every variable has its type.
TypeOK ==
    /\ settings = [f \in Fields |-> settings[f]]
    /\ \A f \in Fields : settings[f] \in ValuesOf(f)
    /\ stored \in [Fields -> Texts \cup {Absent}]
    /\ sub \in [Fields -> Texts \cup {Absent}]
    /\ reply \in {"none", "invalid", "rejected", "saved"}

\* What a struct stores is what it loads: a restart changes no setting, whatever
\* was typed, and whatever fell back to a default when it was loaded.
RestartKeepsSettings == \A f \in Fields : Load(f, stored[f]) = settings[f]

\* Pressing Save on an untouched form changes no setting, secrets and toggles
\* included, when it is accepted at all.
UntouchedFormChangesNothing ==
    PluginAccepts(Collect(Untouched(settings))) => Updated(Collect(Untouched(settings))) = settings

\* A dropdown without a choice, which the host takes for an optional field left
\* empty, and a number that fits the form's bounds but not the Rust type.
SlipsThrough(f, t) ==
    \/ Kind(f) = "select" /\ t # Absent /\ Blank(t)
    \/ Kind(f) = "number" /\ Reads(t, HostNumbers \ Schema[f].type)

\* The C# rules and the derive's rules agree: the host refuses nothing the plugin
\* would take, and lets through nothing the plugin refuses, but for SlipsThrough.
ValidationsAgree ==
    /\ reply = "invalid" => ~ PluginAccepts(sub)
    /\ reply = "rejected" => \E f \in Fields : SlipsThrough(f, sub[f])

\* A form that was saved with its numbers filled in can be saved again: what it
\* renders next passes both validations.
SavedFormsCanBeSavedAgain ==
    reply = "saved" /\ (\A f \in Fields : Kind(f) = "number" => ~ Blank(sub[f])) =>
        LET again == Collect(Untouched(settings))
        IN HostAccepts(again) /\ PluginAccepts(again)

\* README: "a save that leaves [a secret] blank keeps the stored value": it does
\* when the field was left empty and the plugin parses with update.
OmittedSecretIsKept ==
    [][\A f \in Fields : Kind(f) = "secret" /\ reply' = "saved" /\ sub'[f] = Absent
           => settings'[f] = settings[f]]_vars
=============================================================================
