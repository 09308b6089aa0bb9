----------------------------- MODULE UiDocument -----------------------------
(***************************************************************************)
(* A page as data, on both sides of the wire: the btcpay-ui builders a     *)
(* plugin describes it with, what UiPage.Parse keeps of the JSON, and the  *)
(* two statements of what a field accepts, Field::validate in Rust and     *)
(* Validate in the controller.                                             *)
(*                                                                         *)
(* A text is what the rules look at: how many characters it has without    *)
(* the white space around it, the integer they spell, if they spell one,   *)
(* and whether there is such space; texts that agree in this are one.      *)
(* What is only displayed (titles, labels, help, table cells, cards) is    *)
(* left out, except a button's label.                                      *)
(***************************************************************************)
EXTENDS Integers, Sequences

CONSTANTS
    None,    \* a field of an Option type that is not set, a search without a result
    Names    \* the ids, types, commands and labels a document may have

Optional(S) == S \cup {None}

AnyText == [chars : Nat, number : Optional(Int), padded : BOOLEAN]

Letters(chars) == [chars |-> chars, number |-> None, padded |-> FALSE]
Empty == Letters(0)
Trim(t) == [t EXCEPT !.padded = FALSE]
Blank(t) == t.chars = 0

KnownSections == {"form", "table", "stats", "actions", "alert", "text"}
Kinds == {"text", "password", "number", "toggle", "select"}

\* UiField, which has no member for maxLength, and Field.
ParsedFields ==
    [id : Names, kind : Kinds, required : BOOLEAN, value : Optional(AnyText),
     min : Optional(Int), max : Optional(Int), options : SUBSET AnyText]
Fields ==
    [id : Names, kind : Kinds, required : BOOLEAN, value : Optional(AnyText),
     min : Optional(Int), max : Optional(Int), maxLength : Optional(Nat),
     options : SUBSET AnyText]

Buttons == [command : Names, label : Names, confirm : BOOLEAN]

\* A section has its type's content, and nothing for the others.
SectionsOf(F) == [type : Names, id : Names, fields : Seq(F), buttons : Seq(Buttons)]

Documents == Seq(SectionsOf(Fields))
ParsedPages == Seq(SectionsOf(ParsedFields))

ASSUME NoneAssumption == 
    None \notin Int \cup Buttons \cup SectionsOf(Fields) \cup SectionsOf(ParsedFields)
ASSUME NamesAssumption == KnownSections \cup {"", "unknown"} \subseteq Names

-----------------------------------------------------------------------------
(* The builders.                                                           *)

NewField(id, kind) ==
    [id |-> id, kind |-> kind, required |-> FALSE, value |-> None,
     min |-> None, max |-> None, maxLength |-> None, options |-> {}]

Text(id, maxLength) == [NewField(id, "text") EXCEPT !.maxLength = maxLength]
Select(id, options) == [NewField(id, "select") EXCEPT !.options = options]

\* A value given to a secret is ignored.
SetValue(field, v) == IF field.kind = "password" THEN field ELSE [field EXCEPT !.value = v]
SetRange(field, min, max) ==
    IF field.kind = "number" THEN [field EXCEPT !.min = min, !.max = max] ELSE field
SetRequired(field) == [field EXCEPT !.required = TRUE]

Section(type) == [type |-> type, id |-> "", fields |-> <<>>, buttons |-> <<>>]
Form(id) == [Section("form") EXCEPT !.id = id]
Actions(buttons) == [Section("actions") EXCEPT !.buttons = buttons]

AddField(form, field) == [form EXCEPT !.fields = Append(@, field)]

\* A modifier of a form is one of its last field, and nothing on a form without any.
OnLast(form, Change(_)) ==
    IF form.fields = <<>> THEN form
    ELSE [form EXCEPT !.fields[Len(form.fields)] = Change(@)]

Required(form) == OnLast(form, SetRequired)
Value(form, v) == OnLast(form, LAMBDA field : SetValue(field, v))
Bounds(form, min, max) == OnLast(form, LAMBDA field : SetRange(field, min, max))

Button(command, label) == [command |-> command, label |-> label, confirm |-> FALSE]
Destructive(button) == [button EXCEPT !.confirm = TRUE]

-----------------------------------------------------------------------------
(* UiPage: what the host reads.                                            *)

ParseField(field) ==
    [id |-> field.id, kind |-> field.kind, required |-> field.required,
     value |-> field.value, min |-> field.min, max |-> field.max,
     options |-> field.options]

ParseFields(fields) == [i \in DOMAIN fields |-> ParseField(fields[i])]

\* A section of an unknown type is kept as a notice; one member is read per type.
ParseSection(s) ==
    CASE s.type = "form" -> [Form(s.id) EXCEPT !.fields = ParseFields(s.fields)]
      [] s.type = "actions" -> Actions(s.buttons)
      [] s.type \in KnownSections \ {"form", "actions"} -> Section(s.type)
      [] OTHER -> Section("unknown")

Parse(document) == [i \in DOMAIN document |-> ParseSection(document[i])]

\* The indices at which page has a section of this type.
OfType(page, type) == {i \in DOMAIN page : page[i].type = type}
FirstOf(indices) == CHOOSE i \in indices : \A j \in indices : i <= j

\* FirstOrDefault: the first form of this id, or None.
FormById(page, id) ==
    LET same == {i \in OfType(page, "form") : page[i].id = id}
    IN IF same = {} THEN None ELSE page[FirstOf(same)]

\* The places of the buttons that send this command: a section, a position in it.
Senders(page, command) ==
    UNION {{<<i, j>> : j \in {k \in DOMAIN page[i].buttons : page[i].buttons[k].command = command}}
              : i \in OfType(page, "actions")}
ButtonAt(page, place) == page[place[1]].buttons[place[2]]

\* FirstOrDefault over all the groups of buttons, in order.
ButtonByCommand(page, command) ==
    LET places == Senders(page, command)
        first == CHOOSE p \in places :
                    \A q \in places : p[1] < q[1] \/ (p[1] = q[1] /\ p[2] <= q[2])
    IN IF places = {} THEN None ELSE ButtonAt(page, first)

-----------------------------------------------------------------------------
(* What a field accepts.                                                   *)

Within(field, n) ==
    /\ field.min # None => field.min <= n
    /\ field.max # None => n <= field.max

\* Field::validate.
FieldAccepts(field, t) ==
    IF Blank(t) THEN field.required => field.kind = "password"
    ELSE /\ field.kind = "number" => t.number # None /\ Within(field, t.number)
         /\ field.kind = "select" => Trim(t) \in field.options
         /\ field.kind = "text" /\ field.maxLength # None => t.chars <= field.maxLength

\* Validate, for one parsed field.
HostAccepts_Unbounded(field, t) ==
    IF Blank(t) THEN ~ (field.required /\ field.kind # "password")
    ELSE CASE field.kind = "number" -> t.number # None
           [] field.kind = "select" -> Trim(t) \in field.options
           [] OTHER -> TRUE
HostAccepts_Optional(field, t) ==
    CASE Blank(t) -> TRUE
      [] field.kind = "number" -> t.number # None /\ Within(field, t.number)
      [] field.kind = "select" -> Trim(t) \in field.options
      [] OTHER -> TRUE
HostAccepts(field, t) ==
    IF Blank(t) THEN ~ (field.required /\ field.kind # "password")
    ELSE CASE field.kind = "number" -> t.number # None /\ Within(field, t.number)
           [] field.kind = "select" -> Trim(t) \in field.options
           [] OTHER -> TRUE

\* The one rule the host never hears of.
TooLong(field, t) ==
    field.kind = "text" /\ field.maxLength # None /\ ~ Blank(t) /\ t.chars > field.maxLength
=============================================================================
