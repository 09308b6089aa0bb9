--------------------------- MODULE MCPageRequests ---------------------------
(***************************************************************************)
(* Two operators, one event thread, and pages of another plugin that       *)
(* differ in whether a button is there, once or twice, and asks for a      *)
(* confirmation, and in what a form's field accepts.                       *)
(***************************************************************************)
EXTENDS PageRequests, TLC

Padded(t) == [t EXCEPT !.padded = TRUE]
Three == [Letters(1) EXCEPT !.number = 3]
Word == Letters(6)

\* For a dropdown: nothing, an option with white space, an option of another one.
AllInputs ==
    [text |-> {Padded(Empty), Three, Word}, password |-> {Empty, Padded(Empty), Word},
     number |-> {Empty, Three, Word}, toggle |-> {Word},
     select |-> {Empty, Three, Padded(Word)}]
HelloVerbosities == {Word}

Ask(field) == AddField(Form("ask"), field)
Secret == Value(AddField(Form("ask"), NewField("key", "password")), Word)

Plain == <<Actions(<<Button("go", "Go")>>), Ask(Select("code", {Three}))>>
Guarded == <<Actions(<<Destructive(Button("go", "Go"))>>), Required(Ask(Text("code", 2)))>>
Doubled == <<Section("chart"), Actions(<<Button("go", "Go")>>),
             Actions(<<Destructive(Button("go", "Go again"))>>)>>
Bounded == <<Bounds(AddField(Secret, NewField("code", "number")), 4, 9)>>

AllNames ==
    {"", "unknown", "form", "table", "stats", "actions", "alert", "text", "chart",
     "settings", "greeting", "repeat", "verbose", "verbosity", "example", "note", "ask", "code", "key", "none",
     "say-hello", "Say hello", "clear", "Clear activity", "go", "Go", "Go again"}

SomePages == {Plain, Guarded, Doubled, Bounded, <<>>}

OperatorSymmetry == Permutations(Operators)

\* One operator at a time submits the example's settings.
Submits(t) == req[t].name = "settings"
OneSubmitter == plugin = "hello" => \A t, u \in Operators : Submits(t) /\ Submits(u) => t = u

\* One operator has come to the pages of another plugin, the others have not.
Came(t) == pc[t] # "idle" \/ shown[t] # NoPage
OneVisitor == plugin = "other" => \A t, u \in Operators : Came(t) /\ Came(u) => t = u
=============================================================================
