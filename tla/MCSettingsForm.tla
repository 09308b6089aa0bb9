---------------------------- MODULE MCSettingsForm ---------------------------
(***************************************************************************)
(* Small forms for TLC: one field of each kind, with the texts that tell   *)
(* the rules apart.  An i64 is -4..4, a u32 0..3, a u64 0..6.              *)
(***************************************************************************)
EXTENDS SettingsForm

Plainly(f) ==
    [kind |-> f, required |-> FALSE, default |-> Empty, min |-> -4, max |-> 4,
     type |-> {}, options |-> {}]

FormSchema ==
    [f \in Fields |->
        CASE f = "apiKey" -> [Plainly("secret") EXCEPT !.required = TRUE]
          [] f = "repeat" -> [Plainly("number") EXCEPT !.default = 0, !.min = 1, !.type = 0..3]
          [] f = "network" ->
                [Plainly("select") EXCEPT !.default = "main", !.options = {"main", "test"}]
          [] f = "greeting" -> [Plainly("text") EXCEPT !.required = TRUE]
          [] f = "verbose" -> [Plainly("toggle") EXCEPT !.default = FALSE]
          [] f = "limit" ->
                [Plainly("number") EXCEPT !.required = TRUE, !.default = 2, !.type = 0..6]]

FormNames == {"", "true", "false", "key", "odd", "main", "test", "gone", "hi"}
LongNumbers == -4..4

Padded(core) == [core |-> core, padded |-> TRUE]
Words(names) == {Plain(Word(w)) : w \in names}
Digits(numbers) == {Plain(Number(n)) : n \in numbers}

FormInputs ==
    [f \in Fields |->
        CASE f = "apiKey" -> Words({"", "key"}) \cup {Padded(Word(""))}
          [] f = "repeat" -> Words({""}) \cup Digits({0, 2, 4}) \cup {Padded(Number(1))}
          [] f = "network" -> Words({"", "main", "test", "gone"}) \cup {Padded(Word("main"))}
          [] f = "greeting" -> Words({"", "hi"}) \cup {Padded(Word("")), Padded(Word("hi"))}
          [] f = "verbose" -> Words({"true", "false", "odd"})
          [] f = "limit" -> Words({"", "odd"}) \cup Digits({-4, 2, 4, 6})]
=============================================================================
