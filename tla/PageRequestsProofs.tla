-------------------------- MODULE PageRequestsProofs --------------------------
(***************************************************************************)
(* Proofs about PageRequests, for any operators, event threads, pages of   *)
(* another plugin and texts.                                               *)
(***************************************************************************)
EXTENDS PageRequests, FiniteSetTheorems, SequenceTheorems, TLAPS

-----------------------------------------------------------------------------
(* Documents.                                                              *)

LEMMA EmptySequence == \A S : <<>> \in Seq(S)
OBVIOUS

LEMMA PairSequence == \A S : \A a \in S, b \in S : <<a, b>> \in Seq(S)
OBVIOUS

\* What Append makes of short sequences.
LEMMA AppendIs ==
  ASSUME NEW S, NEW s \in Seq(S), NEW t \in Seq(S), NEW e \in S,
         Len(t) = Len(s) + 1, \A i \in 1 .. Len(s) : t[i] = s[i], t[Len(s) + 1] = e
  PROVE  Append(s, e) = t
<1> DEFINE r == Append(s, e)
<1>1. r \in Seq(S) /\ Len(r) = Len(t)
  BY AppendProperties
<1>2. \A i \in 1 .. Len(r) : r[i] = t[i]
  BY AppendProperties
<1> HIDE DEF r
<1>3. r = t
  BY <1>1, <1>2, SeqEqual
<1> QED
  BY <1>3 DEF r

LEMMA AppendSecond ==
  ASSUME NEW S, NEW a \in S, NEW b \in S
  PROVE  Append(<<a>>, b) = <<a, b>>
<1> DEFINE s == <<a>>
           t == <<a, b>>
<1>1. s \in Seq(S) /\ t \in Seq(S) /\ Len(s) = 1 /\ Len(t) = 2
  OBVIOUS
<1>2. (\A i \in 1 .. 1 : t[i] = s[i]) /\ t[2] = b
  OBVIOUS
<1> HIDE DEF s, t
<1>3. Len(t) = Len(s) + 1 /\ (\A i \in 1 .. Len(s) : t[i] = s[i]) /\ t[Len(s) + 1] = b
  BY <1>1, <1>2
<1>4. Append(s, b) = t
  BY <1>1, <1>3, AppendIs, Zenon
<1> QED
  BY <1>4 DEF s, t

LEMMA AppendThird ==
  ASSUME NEW S, NEW a \in S, NEW b \in S, NEW c \in S
  PROVE  Append(<<a, b>>, c) = <<a, b, c>>
<1> DEFINE s == <<a, b>>
           t == <<a, b, c>>
<1>1. s \in Seq(S) /\ t \in Seq(S) /\ Len(s) = 2 /\ Len(t) = 3
  OBVIOUS
<1>2. (\A i \in 1 .. 2 : t[i] = s[i]) /\ t[3] = c
  OBVIOUS
<1> HIDE DEF s, t
<1>3. Len(t) = Len(s) + 1 /\ (\A i \in 1 .. Len(s) : t[i] = s[i]) /\ t[Len(s) + 1] = c
  BY <1>1, <1>2
<1>4. Append(s, c) = t
  BY <1>1, <1>3, AppendIs, Zenon
<1> QED
  BY <1>4 DEF s, t

LEMMA AppendFourth ==
  ASSUME NEW S, NEW a \in S, NEW b \in S, NEW c \in S, NEW d \in S
  PROVE  Append(<<a, b, c>>, d) = <<a, b, c, d>>
<1> DEFINE s == <<a, b, c>>
           t == <<a, b, c, d>>
<1>1. s \in Seq(S) /\ t \in Seq(S) /\ Len(s) = 3 /\ Len(t) = 4
  OBVIOUS
<1>2. (\A i \in 1 .. 3 : t[i] = s[i]) /\ t[4] = d
  OBVIOUS
<1> HIDE DEF s, t
<1>3. Len(t) = Len(s) + 1 /\ (\A i \in 1 .. Len(s) : t[i] = s[i]) /\ t[Len(s) + 1] = d
  BY <1>1, <1>2
<1>4. Append(s, d) = t
  BY <1>1, <1>3, AppendIs, Zenon
<1> QED
  BY <1>4 DEF s, t

LEMMA LastReplaced ==
  ASSUME NEW S, NEW s \in Seq(S), s # <<>>, NEW e \in S
  PROVE  [s EXCEPT ![Len(s)] = e] \in Seq(S)
OBVIOUS

\* What may be sent, and what Collect makes of it.
LEMMA TextsAreTexts ==
  /\ Texts \subseteq AnyText
  /\ Empty \in Texts /\ \A present \in BOOLEAN : Checked(present) \in Texts
  /\ \A form : \A values \in Sent(form) : \A id \in DOMAIN values : values[id] \in Texts
<1>1. \A n \in Nat : Letters(n) \in AnyText
  BY DEF Letters, AnyText, Optional
<1>2. Empty \in AnyText /\ Checked(TRUE) \in AnyText /\ Checked(FALSE) \in AnyText
  BY <1>1 DEF Empty, Checked
<1>3. Texts \subseteq AnyText
  BY <1>2, InputsAssumption DEF Texts, Sendable
<1>4. ASSUME NEW form, NEW values \in Sent(form), NEW id \in DOMAIN values
      PROVE  values[id] \in Texts
  <2>1. PICK ids : values \in [ids -> Sendable]
    BY DEF Sent
  <2> QED
    BY <2>1 DEF Texts
<1> QED
  BY <1>3, <1>4 DEF Texts

\* The builders make fields of fields,
LEMMA FieldsAreTyped ==
  /\ \A id \in Names, kind \in Kinds : NewField(id, kind) \in Fields
  /\ \A id \in Names : Text(id, None) \in Fields /\ Select(id, Verbosities) \in Fields
  /\ \A field \in Fields : SetRequired(field) \in Fields /\ SetRange(field, 1, 10) \in Fields
<1>1. \A id \in Names, kind \in Kinds : NewField(id, kind) \in Fields
  BY DEF NewField, Fields, Optional
<1>2. \A id \in Names : Text(id, None) \in Fields
  BY DEF Text, NewField, Fields, Optional, Kinds
<1>3. \A id \in Names : Select(id, Verbosities) \in Fields
  <2>1. Verbosities \subseteq AnyText
    BY VerbositiesAssumption
  <2> QED
    BY <1>1, <2>1 DEF Select, Fields, Kinds
<1>4. \A field \in Fields : SetRequired(field) \in Fields
  BY DEF SetRequired, Fields
<1>5. ASSUME NEW field \in Fields
      PROVE  SetRange(field, 1, 10) \in Fields
  <2>1. 1 \in Optional(Int) /\ 10 \in Optional(Int)
    BY DEF Optional
  <2>2. [field EXCEPT !.min = 1] \in Fields
    BY <2>1 DEF Fields
  <2>3. [[field EXCEPT !.min = 1] EXCEPT !.max = 10] \in Fields
    BY <2>1, <2>2 DEF Fields
  <2> QED
    BY <2>3, Zenon DEF SetRange
<1> QED
  BY <1>1, <1>2, <1>3, <1>4, <1>5

\* and sections of sections.
LEMMA SectionsAreTyped ==
  /\ \A type \in Names : Section(type) \in SectionsOf(Fields) /\ Section(type).type = type
  /\ \A id \in Names : /\ Form(id) \in SectionsOf(Fields)
                        /\ Form(id).type = "form" /\ Form(id).id = id /\ Form(id).fields = <<>>
<1>1. \A type \in Names : Section(type) \in SectionsOf(Fields) /\ Section(type).type = type
  BY NamesAssumption, EmptySequence DEF Section, SectionsOf
<1>2. Section("form") \in SectionsOf(Fields) /\ Section("form").type = "form"
  BY <1>1, NamesAssumption DEF KnownSections
<1>3. Section("form").fields = <<>>
  BY DEF Section
<1>4. \A id \in Names : Form(id) \in SectionsOf(Fields)
  BY <1>2 DEF Form, SectionsOf
<1>5. \A id \in Names : Form(id).type = "form" /\ Form(id).id = id /\ Form(id).fields = <<>>
  BY <1>2, <1>3 DEF Form, SectionsOf
<1> QED
  BY <1>1, <1>4, <1>5

LEMMA FieldIsAdded ==
  ASSUME NEW form \in SectionsOf(Fields), NEW field \in Fields
  PROVE  LET added == AddField(form, field)
         IN /\ added \in SectionsOf(Fields) /\ added.type = form.type /\ added.id = form.id
            /\ added.fields = Append(form.fields, field)
BY DEF AddField, SectionsOf

LEMMA LastIsReplaced ==
  ASSUME NEW form \in SectionsOf(Fields), form.fields # <<>>, NEW field \in Fields
  PROVE  LET changed == [form EXCEPT !.fields[Len(form.fields)] = field]
         IN /\ changed \in SectionsOf(Fields) /\ changed.type = form.type /\ changed.id = form.id
            /\ changed.fields = [form.fields EXCEPT ![Len(form.fields)] = field]
<1>1. form.fields \in Seq(Fields)
  BY DEF SectionsOf
<1>2. [form.fields EXCEPT ![Len(form.fields)] = field] \in Seq(Fields)
  BY <1>1, LastReplaced
<1> QED
  BY <1>2 DEF SectionsOf

LEMMA LastIsRequired ==
  ASSUME NEW form \in SectionsOf(Fields), form.fields # <<>>
  PROVE  LET last == form.fields[Len(form.fields)]
         IN /\ Required(form) = [form EXCEPT !.fields[Len(form.fields)] = SetRequired(last)]
            /\ SetRequired(last) \in Fields
<1>1. form.fields \in Seq(Fields) /\ form.fields[Len(form.fields)] \in Fields
  BY DEF SectionsOf
<1> QED
  BY <1>1, FieldsAreTyped DEF Required, OnLast

LEMMA LastIsBounded ==
  ASSUME NEW form \in SectionsOf(Fields), form.fields # <<>>
  PROVE  LET last == form.fields[Len(form.fields)]
         IN /\ Bounds(form, 1, 10) = [form EXCEPT !.fields[Len(form.fields)] = SetRange(last, 1, 10)]
            /\ SetRange(last, 1, 10) \in Fields
<1>1. form.fields \in Seq(Fields) /\ form.fields[Len(form.fields)] \in Fields
  BY DEF SectionsOf
<1> QED
  BY <1>1, FieldsAreTyped DEF Bounds, OnLast

\* A form with one field, required.
LEMMA OneRequired ==
  ASSUME NEW id \in Names, NEW f \in Fields
  PROVE  LET form == Required(AddField(Form(id), f))
         IN /\ form \in SectionsOf(Fields) /\ form.type = "form" /\ form.id = id
            /\ form.fields = <<SetRequired(f)>>
<1> DEFINE g == AddField(Form(id), f)
<1>1. /\ Form(id) \in SectionsOf(Fields) /\ Form(id).type = "form" /\ Form(id).id = id
      /\ Form(id).fields = <<>>
  BY SectionsAreTyped
<1>2. Append(<<>>, f) = <<f>>
  OBVIOUS
<1>3. g \in SectionsOf(Fields) /\ g.type = "form" /\ g.id = id /\ g.fields = <<f>>
  BY <1>1, <1>2, FieldIsAdded
<1> HIDE DEF g
<1>4. <<f>> # <<>> /\ Len(<<f>>) = 1 /\ <<f>>[1] = f
        /\ [<<f>> EXCEPT ![1] = SetRequired(f)] = <<SetRequired(f)>>
  OBVIOUS
<1>5. Required(g) = [g EXCEPT !.fields[Len(g.fields)] = SetRequired(f)] /\ SetRequired(f) \in Fields
  BY <1>3, <1>4, LastIsRequired
<1>6. LET changed == [g EXCEPT !.fields[Len(g.fields)] = SetRequired(f)]
      IN /\ changed \in SectionsOf(Fields) /\ changed.type = "form" /\ changed.id = id
         /\ changed.fields = <<SetRequired(f)>>
  BY <1>3, <1>4, <1>5, LastIsReplaced
<1> QED
  BY <1>5, <1>6 DEF g

\* The settings form of the example, field by field.
LEMMA FieldsOfGreeting ==
  /\ Greeting \in SectionsOf(Fields) /\ Greeting.type = "form" /\ Greeting.id = "settings"
  /\ Greeting.fields = <<SetRequired(Text("greeting", None)),
                         SetRange(NewField("repeat", "number"), 1, 10),
                         NewField("verbose", "toggle"), Select("verbosity", Verbosities)>>
<1> DEFINE g == SetRequired(Text("greeting", None))
           n == NewField("repeat", "number")
           r == SetRange(n, 1, 10)
           v == NewField("verbose", "toggle")
           o == Select("verbosity", Verbosities)
           A == Required(AddField(Form("settings"), Text("greeting", None)))
           B == AddField(A, n)
           C == Bounds(B, 1, 10)
           D == AddField(C, v)
           E == AddField(D, o)
<1>1. g \in Fields /\ n \in Fields /\ r \in Fields /\ v \in Fields /\ o \in Fields
  BY FieldsAreTyped, IdsAssumption DEF Kinds
<1>2. A \in SectionsOf(Fields) /\ A.type = "form" /\ A.id = "settings" /\ A.fields = <<g>>
  BY FieldsAreTyped, IdsAssumption, OneRequired
<1>3. Greeting = E
  BY DEF Greeting
<1> HIDE DEF g, n, v, o, A
<1>4. B \in SectionsOf(Fields) /\ B.type = "form" /\ B.id = "settings" /\ B.fields = <<g, n>>
  <2>1. Append(<<g>>, n) = <<g, n>>
    BY <1>1, AppendSecond
  <2> QED
    BY <1>1, <1>2, <2>1, FieldIsAdded
<1> HIDE DEF B
<1>5. C \in SectionsOf(Fields) /\ C.type = "form" /\ C.id = "settings" /\ C.fields = <<g, r>>
  <2>1. Len(<<g, n>>) = 2 /\ <<g, n>>[2] = n /\ <<g, n>> # <<>>
    OBVIOUS
  <2>2. C = [B EXCEPT !.fields[Len(B.fields)] = r]
    BY <1>4, <2>1, LastIsBounded
  <2> HIDE DEF r, C
  <2>3. [<<g, n>> EXCEPT ![2] = r] = <<g, r>>
    OBVIOUS
  <2> DEFINE changed == [B EXCEPT !.fields[Len(B.fields)] = r]
  <2>4. /\ changed \in SectionsOf(Fields) /\ changed.type = B.type /\ changed.id = B.id
        /\ changed.fields = [B.fields EXCEPT ![Len(B.fields)] = r]
    <3> B.fields # <<>>
      BY <1>4, <2>1
    <3> QED
      BY <1>1, <1>4, LastIsReplaced, Zenon
  <2>5. C = changed
    BY <2>2
  <2> HIDE DEF changed
  <2> QED
    BY <1>4, <2>1, <2>3, <2>4, <2>5
<1> HIDE DEF r, C
<1>6. D \in SectionsOf(Fields) /\ D.type = "form" /\ D.id = "settings" /\ D.fields = <<g, r, v>>
  <2>1. Append(<<g, r>>, v) = <<g, r, v>>
    BY <1>1, AppendThird
  <2> QED
    BY <1>1, <1>5, <2>1, FieldIsAdded
<1> HIDE DEF D
<1>7. E \in SectionsOf(Fields) /\ E.type = "form" /\ E.id = "settings" /\ E.fields = <<g, r, v, o>>
  <2>1. Append(<<g, r, v>>, o) = <<g, r, v, o>>
    BY <1>1, AppendFourth
  <2> QED
    BY <1>1, <1>6, <2>1, FieldIsAdded
<1> QED
  BY <1>3, <1>7 DEF g, n, r, v, o

LEMMA DocumentsAreTyped ==
  ASSUME NEW p, NEW id, NEW l \in OtherPages \cup {<<>>}
  PROVE  DocumentOf(p, id, l) \in Documents
<1>1. Greeting \in SectionsOf(Fields) /\ Note \in SectionsOf(Fields) /\ Example \in SectionsOf(Fields)
  <2>1. {"note", "text", "settings", "example"} \subseteq Names
    BY IdsAssumption, NamesAssumption DEF KnownSections
  <2>2. Note \in SectionsOf(Fields)
    BY <2>1, FieldsAreTyped, OneRequired DEF Note
  <2>3. Example \in SectionsOf(Fields)
    BY <2>1, FieldsAreTyped, SectionsAreTyped, FieldIsAdded DEF Example
  <2> QED
    BY <2>2, <2>3, FieldsOfGreeting
<1>2. Actions(HelloButtons) \in SectionsOf(Fields)
  <2>1. HelloButtons \in Seq(Buttons)
    <3>1. Button("say-hello", "Say hello") \in Buttons
      BY IdsAssumption DEF Button, Buttons
    <3>2. Destructive(Button("clear", "Clear activity")) \in Buttons
      BY IdsAssumption DEF Button, Buttons, Destructive
    <3> QED
      BY <3>1, <3>2, PairSequence, Zenon DEF HelloButtons
  <2>2. Section("actions") \in SectionsOf(Fields)
    BY SectionsAreTyped, NamesAssumption DEF KnownSections
  <2> QED
    BY <2>1, <2>2 DEF Actions, SectionsOf
<1>3. Section("text") \in SectionsOf(Fields) /\ Section("stats") \in SectionsOf(Fields)
        /\ Section("table") \in SectionsOf(Fields)
  BY SectionsAreTyped, NamesAssumption DEF KnownSections
<1>4. l \in Documents
  <2>1. <<>> \in Documents
    BY DEF Documents
  <2> QED
    BY <2>1, OtherPagesAssumption
<1> QED
  BY <1>1, <1>2, <1>3, <1>4 DEF DocumentOf, Documents

\* The host keeps a section of each, a form with its fields.
LEMMA ParsedSections ==
  ASSUME NEW s \in SectionsOf(Fields)
  PROVE  /\ ParseSection(s) \in SectionsOf(ParsedFields)
         /\ ParseSection(s).type = "form" <=> s.type = "form"
         /\ s.type = "form" => /\ ParseSection(s).id = s.id
                               /\ ParseSection(s).fields = ParseFields(s.fields)
<1>1. ParseFields(s.fields) \in Seq(ParsedFields)
  <2>1. s.fields \in Seq(Fields) /\ DOMAIN s.fields = 1 .. Len(s.fields) /\ Len(s.fields) \in Nat
    BY DEF SectionsOf
  <2>2. \A i \in DOMAIN s.fields : ParseField(s.fields[i]) \in ParsedFields
    <3> SUFFICES ASSUME NEW f \in Fields PROVE ParseField(f) \in ParsedFields
      BY <2>1
    <3> QED
      BY DEF Fields, ParseField, ParsedFields
  <2> QED
    BY <2>1, <2>2 DEF ParseFields
<1>2. Form(s.id).fields = <<>> /\ Form(s.id).type = "form" /\ Form(s.id).id = s.id
        /\ Form(s.id) \in SectionsOf(ParsedFields)
  BY NamesAssumption, EmptySequence DEF Form, Section, SectionsOf, KnownSections
<1>3. CASE s.type = "form"
  BY <1>1, <1>2, <1>3 DEF ParseSection, SectionsOf
<1>4. CASE s.type = "actions"
  BY <1>4, NamesAssumption, EmptySequence DEF KnownSections, ParseSection, Actions, Section, SectionsOf
<1>5. CASE s.type \in KnownSections \ {"form", "actions"}
  BY <1>5, NamesAssumption, EmptySequence DEF KnownSections, ParseSection, Section, SectionsOf
<1>6. CASE s.type \notin KnownSections
  BY <1>6, NamesAssumption, EmptySequence DEF KnownSections, ParseSection, Section, SectionsOf
<1> QED
  BY <1>3, <1>4, <1>5, <1>6 DEF KnownSections

LEMMA PagesAreTyped ==
  ASSUME NEW d \in Documents
  PROVE  /\ Parse(d) \in ParsedPages
         /\ DOMAIN Parse(d) = DOMAIN d
         /\ \A i \in DOMAIN d : d[i] \in SectionsOf(Fields) /\ Parse(d)[i] = ParseSection(d[i])
<1>1. DOMAIN d = 1 .. Len(d) /\ Len(d) \in Nat /\ \A i \in DOMAIN d : d[i] \in SectionsOf(Fields)
  BY DEF Documents
<1>2. \A i \in DOMAIN d : ParseSection(d[i]) \in SectionsOf(ParsedFields)
  BY <1>1, ParsedSections
<1> QED
  BY <1>1, <1>2 DEF Parse, ParsedPages

\* A page that has anything was described without a panic.
LEMMA PagesAreDescribed ==
  ASSUME TypeOK, NEW id, NEW fault, Parse(Described(id, fault)) # <<>>
  PROVE  Described(id, fault) = DocumentOf(plugin, id, layout)
<1>1. Parse(<<>>) = <<>>
  BY DEF Parse
<1> QED
  BY <1>1 DEF Described

LEMMA DescribedPagesAreTyped ==
  ASSUME TypeOK, NEW id, NEW fault
  PROVE  Described(id, fault) \in Documents /\ Parse(Described(id, fault)) \in ParsedPages
<1>1. Described(id, fault) \in Documents
  BY DocumentsAreTyped DEF Described, TypeOK, Documents
<1> QED
  BY <1>1, PagesAreTyped

-----------------------------------------------------------------------------
(* Searches.                                                               *)

LEMMA Minimum ==
  ASSUME NEW T, T \subseteq Nat, T # {}
  PROVE  \E x \in T : \A y \in T : x <= y
<1> DEFINE below == {1 .. x : x \in T}
<1>1. below \subseteq FiniteSubsetsOf(Nat) /\ below # {}
  <2> SUFFICES ASSUME NEW x \in T PROVE IsFiniteSet(1 .. x) /\ 1 .. x \subseteq Nat
    BY DEF FiniteSubsetsOf
  <2> QED
    BY FS_Interval
<1>2. IsWellFoundedOn(StrictSubsetOrdering(Nat), FiniteSubsetsOf(Nat))
  BY FS_StrictSubsetOrderingWellFounded
<1>3. \E b \in below : \A c \in below : ~ (<<c, b>> \in StrictSubsetOrdering(Nat))
  BY <1>1, <1>2, WFMin, Zenon
<1>4. PICK x \in T : \A y \in T : ~ (<<1 .. y, 1 .. x>> \in StrictSubsetOrdering(Nat))
  BY <1>3
<1>5. ASSUME NEW y \in T, ~ (x <= y) PROVE FALSE
  <2>1. x \in Nat /\ y \in Nat /\ y < x
    BY <1>5
  <2>2. 1 .. y \subseteq 1 .. x /\ x \in 1 .. x /\ x \notin 1 .. y
    BY <2>1
  <2>3. 1 .. x \subseteq Nat /\ 1 .. y \subseteq Nat
    OBVIOUS
  <2>4. <<1 .. y, 1 .. x>> \in StrictSubsetOrdering(Nat)
    BY <2>2, <2>3, Zenon DEF StrictSubsetOrdering
  <2> QED
    BY <1>4, <2>4
<1> QED
  BY <1>5

\* The first section of some is one of them.
LEMMA FirstOfMany ==
  ASSUME NEW page, NEW n \in Nat, DOMAIN page = 1 .. n, NEW indices \in SUBSET DOMAIN page,
         indices # {}
  PROVE  FirstOf(indices) \in indices
<1>1. \E i \in indices : \A j \in indices : i <= j
  BY Minimum
<1> QED
  BY <1>1 DEF FirstOf

\* A page found a form on has it.
LEMMA FormsFound ==
  ASSUME NEW page \in ParsedPages, NEW id, FormById(page, id) # None
  PROVE  \E i \in OfType(page, "form") :
            page[i].id = id /\ FormById(page, id) = page[i] /\ page[i] \in SectionsOf(ParsedFields)
<1> DEFINE same == {i \in OfType(page, "form") : page[i].id = id}
<1>1. same # {}
  BY DEF FormById
<1>2. DOMAIN page = 1 .. Len(page) /\ Len(page) \in Nat /\ same \subseteq DOMAIN page
        /\ \A i \in DOMAIN page : page[i] \in SectionsOf(ParsedFields)
  BY DEF ParsedPages, OfType
<1>3. FirstOf(same) \in same
  BY <1>1, <1>2, FirstOfMany
<1> QED
  BY <1>1, <1>2, <1>3 DEF FormById

\* The sections of a page, and where the buttons of a command are.
LEMMA ButtonPlaces ==
  ASSUME NEW page \in ParsedPages, NEW command, NEW p \in Senders(page, command)
  PROVE  /\ p = <<p[1], p[2]>> /\ p[1] \in Nat /\ p[2] \in Nat
         /\ ButtonAt(page, p) \in Buttons /\ ButtonAt(page, p).command = command
<1>1. PICK i \in OfType(page, "actions") : \E j \in DOMAIN page[i].buttons :
         p = <<i, j>> /\ page[i].buttons[j].command = command
  BY DEF Senders
<1>2. i \in Nat /\ page[i] \in SectionsOf(ParsedFields)
  BY DEF ParsedPages, OfType
<1>3. page[i].buttons \in Seq(Buttons)
  BY <1>2 DEF SectionsOf
<1>4. PICK j \in DOMAIN page[i].buttons : p = <<i, j>> /\ page[i].buttons[j].command = command
  BY <1>1
<1>5. j \in Nat /\ page[i].buttons[j] \in Buttons
  BY <1>3
<1> QED
  BY <1>2, <1>4, <1>5 DEF ButtonAt

LEMMA ButtonsFound ==
  ASSUME NEW page \in ParsedPages, NEW command, ButtonByCommand(page, command) # None
  PROVE  ButtonByCommand(page, command) \in Buttons
<1> DEFINE places == Senders(page, command)
           Before(p, q) == p[1] < q[1] \/ (p[1] = q[1] /\ p[2] <= q[2])
           sections == {p[1] : p \in places}
<1>1. places # {}
  BY DEF ButtonByCommand
<1>2. sections \subseteq Nat /\ sections # {}
  BY <1>1, ButtonPlaces
<1>3. PICK i \in sections : \A k \in sections : i <= k
  BY <1>2, Minimum
<1> DEFINE positions == {p[2] : p \in {q \in places : q[1] = i}}
<1>4. positions \subseteq Nat /\ positions # {}
  BY <1>3, ButtonPlaces
<1>5. PICK j \in positions : \A k \in positions : j <= k
  BY <1>4, Minimum
<1>6. PICK p \in places : p[1] = i /\ p[2] = j
  OBVIOUS
<1>7. \A q \in places : Before(p, q)
  <2> SUFFICES ASSUME NEW q \in places PROVE Before(p, q)
    OBVIOUS
  <2>1. p[1] \in Nat /\ q[1] \in Nat /\ p[1] <= q[1]
    BY <1>3, <1>6, ButtonPlaces
  <2>2. q[1] = i => p[2] <= q[2]
    BY <1>5, <1>6
  <2> QED
    BY <2>1, <2>2, <1>6
<1>8. (CHOOSE r \in places : \A q \in places : Before(r, q)) \in places
  BY <1>7
<1> QED
  BY <1>1, <1>8, ButtonPlaces DEF ButtonByCommand

-----------------------------------------------------------------------------
(* Types.                                                                  *)

\* What the plugin is handling is on the page it was checked against.
HandledAsDescribed ==
    \A t \in Operators : InHandler(t) =>
        /\ req[t].kind = "command" => ButtonByCommand(model[t], req[t].name) # None
        /\ req[t].kind \in {"command", "form", "settings"}
        /\ req[t].kind # "command" => (req[t].kind = "settings" <=> req[t].page = "settings")

TypeInv == TypeOK /\ HandledAsDescribed

PluginTypes ==
    /\ seen \in Nat /\ recent \in 0 .. Rows /\ mixed \in BOOLEAN
    /\ memory \in Texts
    /\ poisoned \in BOOLEAN /\ loggerThrew \in BOOLEAN

LEMMA RequestsAreTyped ==
  /\ IsRequest(NoRequest)
  /\ \A page \in Addresses : IsRequest([NoRequest EXCEPT !.page = page, !.address = page])
  /\ \A r : IsRequest(r) => \A page \in Addresses : /\ IsRequest([r EXCEPT !.page = page])
                                                   /\ IsRequest([r EXCEPT !.page = page,
                                                                          !.address = page])
<1>1. IsRequest(NoRequest)
  <2>1. NoRequest.values = <<>> /\ DOMAIN <<>> = {}
    BY DEF NoRequest
  <2>2. NoRequest \in Requests(<<>>)
    <3>1. \A e : [page |-> "none", address |-> "none", kind |-> "none", name |-> "none",
                  label |-> "none", confirmed |-> FALSE, values |-> e] \in Requests(e)
      BY IdsAssumption DEF Requests, Addresses
    <3> QED
      BY <3>1, Zenon DEF NoRequest
  <2> QED
    BY <2>1, <2>2 DEF IsRequest
<1>2. ASSUME NEW r, IsRequest(r), NEW page \in Addresses
      PROVE  IsRequest([r EXCEPT !.page = page]) /\ IsRequest([r EXCEPT !.page = page, !.address = page])
  BY <1>2 DEF IsRequest, Requests
<1> QED
  BY <1>1, <1>2

LEMMA TypeInit == Init => TypeInv
<1> SUFFICES ASSUME Init PROVE TypeInv
  OBVIOUS
<1>1. PluginTypes /\ plugin \in Plugins /\ layout \in OtherPages \cup {<<>>}
  <2>1. memory \in Texts
    BY TextsAreTexts DEF Init, Texts, Sendable, Kinds
  <2>2. layout \in OtherPages \cup {<<>>}
    BY DEF Init
  <2> QED
    <3>1. seen = 0 /\ recent = 0 /\ mixed = FALSE /\ poisoned = FALSE /\ loggerThrew = FALSE
            /\ plugin \in Plugins
      BY DEF Init
    <3>2. seen \in Nat /\ recent \in 0 .. Rows
      BY <3>1, RowsAssumption
    <3>3. mixed \in BOOLEAN /\ poisoned \in BOOLEAN /\ loggerThrew \in BOOLEAN
      BY <3>1
    <3> QED
      BY <2>1, <2>2, <3>1, <3>2, <3>3 DEF PluginTypes
<1>2. pc \in [Threads -> Labels] /\ DOMAIN req = Operators
        /\ outcome \in [Operators -> {"none", "refused", "handled", "failed"}]
        /\ offers \in [Operators -> SUBSET (OtherPages \cup {<<>>})]
  BY DEF Init, Labels
<1>3. \A t \in Operators : IsRequest(req[t])
  BY RequestsAreTyped DEF Init
<1>4. <<>> \in ParsedPages
  BY DEF ParsedPages
<1>5. model \in [Operators -> ParsedPages]
        /\ shown \in [Operators -> [address : Addresses, page : ParsedPages]]
  BY <1>4 DEF Init, NoPage, Addresses
<1>6. told \in [Operators -> [error : Notices, success : Notices, button : Names]]
  BY IdsAssumption DEF Init, NoMessage, Notices
<1>7. TypeOK
  BY <1>1, <1>2, <1>3, <1>5, <1>6 DEF TypeOK, PluginTypes
<1>8. HandledAsDescribed
  BY DEF Init, HandledAsDescribed, InHandler, Threads
<1> QED
  BY <1>7, <1>8 DEF TypeInv

\* The browser's requests.
LEMMA BrowseKeepsTypes ==
  ASSUME TypeInv, NEW t \in Operators, Browse(t)
  PROVE  TypeInv'
<1> USE DEF TypeInv
<1>1. CASE Get(t)
  <2>1. PICK page \in Pages :
           req' = [req EXCEPT ![t] = [NoRequest EXCEPT !.page = page, !.address = page]]
    BY <1>1 DEF Get
  <2>2. \A u \in Operators : IsRequest(req'[u])
    BY <2>1, RequestsAreTyped DEF TypeOK, Addresses
  <2>3. TypeOK'
    BY <1>1, <2>1, <2>2 DEF Get, TypeOK, Labels, Threads, pluginVars, activity
  <2>4. HandledAsDescribed'
    BY <1>1, <2>1 DEF Get, HandledAsDescribed, InHandler, TypeOK, Threads
  <2> QED
    BY <2>3, <2>4
<1>2. ASSUME NEW r, IsRequest(r), Send(t, r), pc[t] = "idle" PROVE TypeInv'
  <2>1. shown[t].address \in Addresses
    BY DEF TypeOK
  <2>2. \A u \in Operators : IsRequest(req'[u])
    BY <1>2, <2>1, RequestsAreTyped DEF TypeOK, Send
  <2>3. TypeOK'
    BY <1>2, <2>2 DEF Send, TypeOK, Labels, Threads, pluginVars, activity
  <2>4. HandledAsDescribed'
    BY <1>2 DEF Send, HandledAsDescribed, InHandler, TypeOK, Threads
  <2> QED
    BY <2>3, <2>4
<1>3. CASE Press(t)
  <2>1. PICK i \in OfType(shown[t].page, "actions") :
           \E j \in DOMAIN shown[t].page[i].buttons :
              LET button == shown[t].page[i].buttons[j]
              IN Send(t, [NoRequest EXCEPT !.kind = "command", !.name = button.command,
                            !.label = button.label, !.confirmed = button.confirm])
    BY <1>3 DEF Press
  <2>2. PICK j \in DOMAIN shown[t].page[i].buttons :
           LET button == shown[t].page[i].buttons[j]
           IN Send(t, [NoRequest EXCEPT !.kind = "command", !.name = button.command,
                         !.label = button.label, !.confirmed = button.confirm])
    BY <2>1
  <2>3. shown[t].page \in ParsedPages
    BY DEF TypeOK
  <2>4. shown[t].page[i].buttons \in Seq(Buttons)
    <3>1. shown[t].page[i] \in SectionsOf(ParsedFields)
      BY <2>3 DEF ParsedPages, OfType
    <3> QED
      BY <3>1 DEF SectionsOf
  <2> DEFINE button == shown[t].page[i].buttons[j]
  <2>5. button \in Buttons
    BY <2>4
  <2>6. IsRequest([NoRequest EXCEPT !.kind = "command", !.name = button.command,
                      !.label = button.label, !.confirmed = button.confirm])
    BY <2>5, RequestsAreTyped DEF IsRequest, Requests, Buttons
  <2> QED
    BY <1>2, <1>3, <2>2, <2>6 DEF Press
<1>4. CASE Submit(t)
  <2>1. PICK i \in OfType(shown[t].page, "form") :
           LET form == shown[t].page[i]
           IN \E values \in Sent(form) :
                 Send(t, [NoRequest EXCEPT !.kind = "form", !.name = form.id, !.values = values])
    BY <1>4 DEF Submit
  <2> DEFINE form == shown[t].page[i]
  <2>2. PICK values \in Sent(form) :
           Send(t, [NoRequest EXCEPT !.kind = "form", !.name = form.id, !.values = values])
    BY <2>1
  <2>3. form \in SectionsOf(ParsedFields)
    BY DEF TypeOK, ParsedPages, OfType
  <2>4. IsRequest([NoRequest EXCEPT !.kind = "form", !.name = form.id, !.values = values])
    <3>1. form.id \in Names
      BY <2>3 DEF SectionsOf
    <3> QED
      BY <3>1, RequestsAreTyped, TextsAreTexts DEF IsRequest, Requests
  <2> QED
    BY <1>2, <1>4, <2>2, <2>4 DEF Submit
<1> QED
  BY <1>1, <1>3, <1>4 DEF Browse

\* An answer is a page or a redirection.
LEMMA FinishKeepsTypes ==
  ASSUME TypeInv, NEW t \in Operators, Finish(t), PluginTypes', UNCHANGED <<plugin, layout>>,
         \/ UNCHANGED <<shown, told>>
         \/ \E page \in ParsedPages : Render(t, page)
  PROVE  TypeInv'
<1> USE DEF TypeInv, Finish
<1>1. <<>> \in ParsedPages
  BY DEF ParsedPages
<1>2. \A u \in Operators : IsRequest(req'[u])
  BY RequestsAreTyped DEF TypeOK
<1>3. model' \in [Operators -> ParsedPages]
  BY <1>1 DEF TypeOK
<1>4. shown' \in [Operators -> [address : Addresses, page : ParsedPages]]
  <2>1. req[t].address \in Addresses
    BY DEF TypeOK, IsRequest, Requests
  <2> QED
    BY <2>1 DEF TypeOK, Render
<1>5. told' \in [Operators -> [error : Notices, success : Notices, button : Names]]
  <2>1. NoMessage \in [error : Notices, success : Notices, button : Names]
    BY IdsAssumption DEF NoMessage, Notices
  <2> QED
    BY <2>1 DEF TypeOK, Render
<1>6. TypeOK'
  BY <1>2, <1>3, <1>4, <1>5 DEF TypeOK, PluginTypes, Labels, Threads
<1>7. HandledAsDescribed'
  BY DEF HandledAsDescribed, InHandler, TypeOK, Threads
<1> QED
  BY <1>6, <1>7

LEMMA RedirectKeepsTypes ==
  ASSUME TypeInv, NEW t \in Operators, Redirect(t), PluginTypes', UNCHANGED <<plugin, layout>>,
         told' \in [Operators -> [error : Notices, success : Notices, button : Names]],
         outcome' \in [Operators -> {"none", "refused", "handled", "failed"}]
  PROVE  TypeInv'
<1> USE DEF TypeInv, Redirect
<1>1. <<>> \in ParsedPages
  BY DEF ParsedPages
<1>2. \A u \in Operators : IsRequest(req'[u])
  <2>1. req[t].page \in Addresses
    BY DEF TypeOK, IsRequest, Requests
  <2> QED
    BY <2>1, RequestsAreTyped DEF TypeOK
<1>3. model' \in [Operators -> ParsedPages]
  BY <1>1 DEF TypeOK
<1>4. TypeOK'
  BY <1>2, <1>3 DEF TypeOK, PluginTypes, Labels, Threads
<1>5. HandledAsDescribed'
  BY DEF HandledAsDescribed, InHandler, TypeOK, Threads
<1> QED
  BY <1>4, <1>5

\* A handler has ended, whatever it reports.
LEMMA AnswerKeepsTypes ==
  ASSUME TypeInv, NEW t \in Operators, InHandler(t), NEW actions, NEW how \in {"handled", "failed"},
         Answer(t, actions, how), PluginTypes'
  PROVE  TypeInv'
<1>1. CASE req[t].kind # "command" /\ actions = <<>>
  <2>1. model[t] \in ParsedPages /\ Render(t, model[t]) /\ Finish(t)
    BY <1>1 DEF Answer, TypeInv, TypeOK
  <2> QED
    BY <2>1, FinishKeepsTypes DEF Answer
<1>2. CASE ~ (req[t].kind # "command" /\ actions = <<>>)
  <2> DEFINE message == IF req[t].kind = "command"
                          THEN CommandMessage(told[t], actions, ButtonByCommand(model[t], req[t].name))
                          ELSE FormMessage(told[t], actions, req[t].kind)
             Told == [error : Notices, success : Notices, button : Names]
  <2>1. told[t] \in Told /\ DOMAIN told = Operators
    BY DEF TypeInv, TypeOK
  <2>2. Messages(told[t], actions) \in Told
    BY <2>1 DEF Messages, Notices
  <2>3. message \in Told
    <3>1. CASE req[t].kind = "command"
      <4>1. ButtonByCommand(model[t], req[t].name) \in Buttons
        BY <3>1, ButtonsFound DEF TypeInv, HandledAsDescribed, TypeOK
      <4>2. ButtonByCommand(model[t], req[t].name).label \in Names
        BY <4>1 DEF Buttons
      <4> QED
        BY <2>1, <2>2, <3>1, <4>2 DEF CommandMessage, Notices
    <3>2. CASE req[t].kind # "command"
      BY <2>1, <2>2, <3>2 DEF FormMessage, Notices
    <3> QED
      BY <3>1, <3>2
  <2>4. told' = [told EXCEPT ![t] = message]
    BY <1>2 DEF Answer
  <2>5. told' \in [Operators -> Told]
    BY <2>3, <2>4 DEF TypeInv, TypeOK
  <2>6. Redirect(t) /\ outcome' \in [Operators -> {"none", "refused", "handled", "failed"}]
    BY <1>2 DEF Answer, TypeInv, TypeOK
  <2> QED
    BY <2>5, <2>6, RedirectKeepsTypes DEF Answer
<1> QED
  BY <1>1, <1>2

\* Only an operator in the handler stays there.
LEMMA StepKeepsTypes ==
  ASSUME TypeInv, NEW t \in Threads, NEW label \in Labels, Step(t, label), PluginTypes',
         t \in Operators /\ label \in {"handling", "counted", "cleared"} => InHandler(t)
  PROVE  TypeInv'
<1>1. TypeOK'
  BY DEF TypeInv, TypeOK, Step, PluginTypes
<1>2. HandledAsDescribed'
  BY DEF TypeInv, HandledAsDescribed, InHandler, Step, TypeOK
<1> QED
  BY <1>1, <1>2 DEF TypeInv

LEMMA DefaultPageIsAPage == \A fault : DefaultPage(fault) \in {"settings", "dashboard"}
<1> SUFFICES ASSUME NEW fault PROVE DefaultPage(fault) \in {"settings", "dashboard"}
  OBVIOUS
<1> DEFINE first == IF Described("settings", fault) = <<>> THEN <<>> ELSE <<"settings">>
           second == IF plugin = "template" \/ Panics("settings", fault) THEN <<>> ELSE <<"dashboard">>
<1>1. PageIds(fault) = first \o second
  BY DEF PageIds
<1>2. first \in {<<>>, <<"settings">>} /\ second \in {<<>>, <<"dashboard">>}
  OBVIOUS
<1>3. \/ first \o second = <<>>
      \/ Head(first \o second) \in {"settings", "dashboard"}
  <2>1. CASE first = <<>> /\ second = <<>>
    BY <2>1
  <2>2. CASE first = <<>> /\ second = <<"dashboard">>
    BY <2>2
  <2>3. CASE first = <<"settings">> /\ second = <<>>
    BY <2>3
  <2>4. CASE first = <<"settings">> /\ second = <<"dashboard">>
    BY <2>4
  <2> QED
    BY <1>2, <2>1, <2>2, <2>3, <2>4
<1> QED
  BY <1>1, <1>3 DEF DefaultPage

\* The controller up to the plugin's handler.
LEMMA PoisonKeepsTypes ==
  ASSUME TypeOK, NEW id, NEW fault, Poison(id, fault), UNCHANGED <<activity, memory>>
  PROVE  PluginTypes'
BY DEF TypeOK, Poison, PluginTypes, activity

LEMMA CollectedTexts ==
  ASSUME NEW form, NEW values, \A id \in DOMAIN values : values[id] \in Texts
  PROVE  LET collected == Collect(form, values)
         IN /\ \A id \in DOMAIN collected : collected[id] \in Texts
            /\ \A id : Submitted(collected, id) \in Texts
<1> DEFINE Posted(field) == IF field.id \in DOMAIN values THEN values[field.id] ELSE Empty
           Collected(field) ==
              IF field.kind = "toggle" THEN Checked(field.id \in DOMAIN values) ELSE Posted(field)
           collected == Collect(form, values)
<1>1. ASSUME NEW field
      PROVE  Collected(field) \in Texts
  <2>1. Posted(field) \in Texts
    BY TextsAreTexts
  <2>2. Checked(TRUE) \in Texts /\ Checked(FALSE) \in Texts
    BY TextsAreTexts
  <2>3. CASE field.id \in DOMAIN values
    <3> (field.id \in DOMAIN values) = TRUE
      BY <2>3
    <3> QED
      BY <2>1, <2>2
  <2>4. CASE field.id \notin DOMAIN values
    <3> (field.id \in DOMAIN values) = FALSE
      BY <2>4
    <3> QED
      BY <2>1, <2>2
  <2> QED
    BY <2>3, <2>4
<1>2. \A id \in DOMAIN collected : \E field : collected[id] = Collected(field)
  BY DEF Collect
<1> HIDE DEF Collected, collected
<1> QED
  BY <1>1, <1>2, TextsAreTexts DEF Submitted, collected

LEMMA PostKeepsTypes ==
  ASSUME TypeInv, NEW t \in Operators, Post(t)
  PROVE  TypeInv'
<1>1. PICK fault \in Faults :
         LET page == Parse(Described(req[t].page, fault))
         IN /\ NotFound(t, page) \/ Refuse(t, page) \/ Invalid(t, page) \/ Dispatch(t, page)
            /\ Poison(req[t].page, fault)
  BY DEF Post
<1> DEFINE page == Parse(Described(req[t].page, fault))
<1>2. page \in ParsedPages
  BY DescribedPagesAreTyped DEF TypeInv
<1>3. PluginTypes' /\ UNCHANGED <<plugin, layout>>
  BY <1>1, PoisonKeepsTypes DEF Post, TypeInv
<1>4. CASE NotFound(t, page)
  BY <1>3, <1>4, FinishKeepsTypes DEF NotFound
<1>5. CASE Invalid(t, page)
  BY <1>2, <1>3, <1>5, FinishKeepsTypes DEF Invalid
<1>6. CASE Refuse(t, page)
  <2>1. Refusal(req[t], page) \in Notices
    BY <1>6 DEF Refuse, Refusal, Notices
  <2> QED
    BY <1>3, <1>6, <2>1, RedirectKeepsTypes DEF Refuse, TypeInv, TypeOK
<1>7. CASE Dispatch(t, page)
  <2>1. IsRequest(req[t])
    BY DEF TypeInv, TypeOK
  <2>2. IsRequest(Event(req[t], page))
    <3>1. CASE req[t].kind = "command"
      BY <2>1, <3>1 DEF Event
    <3>2. CASE req[t].kind # "command"
      <4> DEFINE collected == Collect(FormById(page, req[t].name), req[t].values)
      <4>1. \A id \in DOMAIN collected : collected[id] \in Texts
        BY <2>1, CollectedTexts DEF IsRequest
      <4> HIDE DEF collected
      <4>2. [req[t] EXCEPT !.kind = IF req[t].page = "settings" THEN "settings" ELSE "form",
                           !.values = collected] \in Requests(collected)
        BY <2>1 DEF IsRequest, Requests
      <4>3. [req[t] EXCEPT !.kind = IF req[t].page = "settings" THEN "settings" ELSE "form",
                           !.values = collected].values = collected
        BY <2>1 DEF IsRequest, Requests
      <4> QED
        BY <3>2, <4>1, <4>2, <4>3 DEF Event, IsRequest, collected
    <3> QED
      BY <3>1, <3>2
  <2>3. TypeOK'
    BY <1>2, <1>3, <1>7, <2>2 DEF Dispatch, TypeInv, TypeOK, PluginTypes, Labels, Threads
  <2>4. HandledAsDescribed'
    <3>1. ASSUME Event(req[t], page).kind = "command"
          PROVE  ButtonByCommand(page, Event(req[t], page).name) # None
      <4>1. req[t].kind = "command" /\ Event(req[t], page) = req[t]
        BY <2>1, <3>1 DEF Event, IsRequest, Requests
      <4> QED
        BY <1>7, <4>1 DEF Dispatch, Refusal
    <3>2. /\ Event(req[t], page).kind \in {"command", "form", "settings"}
          /\ Event(req[t], page).kind # "command" =>
                (Event(req[t], page).kind = "settings" <=> Event(req[t], page).page = "settings")
      BY <2>1 DEF Event, IsRequest, Requests
    <3> QED
      BY <1>7, <3>1, <3>2 DEF Dispatch, TypeInv, TypeOK, HandledAsDescribed, InHandler, Threads
  <2> QED
    BY <2>3, <2>4 DEF TypeInv
<1> QED
  BY <1>1, <1>4, <1>5, <1>6, <1>7

LEMMA RequestKeepsTypes ==
  ASSUME TypeInv, NEW t \in Operators, Request(t)
  PROVE  TypeInv'
<1>1. CASE Resolve(t)
  <2>1. PICK fault \in Faults : /\ req' = [req EXCEPT ![t].page = DefaultPage(fault)]
                               /\ Poison("settings", fault)
    BY <1>1 DEF Resolve
  <2>2. PluginTypes'
    BY <1>1, <2>1, PoisonKeepsTypes DEF Resolve, TypeInv
  <2>3. \A u \in Operators : IsRequest(req'[u])
    <3>1. IsRequest([req[t] EXCEPT !.page = DefaultPage(fault)])
      BY RequestsAreTyped, DefaultPageIsAPage DEF TypeInv, TypeOK, Addresses, Pages
    <3> QED
      BY <2>1, <3>1 DEF TypeInv, TypeOK
  <2>4. TypeOK'
    BY <1>1, <2>1, <2>2, <2>3 DEF Resolve, TypeInv, TypeOK, PluginTypes
  <2>5. HandledAsDescribed'
    BY <1>1, <2>1 DEF Resolve, TypeInv, TypeOK, HandledAsDescribed, InHandler
  <2> QED
    BY <2>4, <2>5 DEF TypeInv
<1>2. CASE Serve(t)
  <2>1. PICK fault \in Faults :
           LET page == Parse(Described(req[t].page, fault))
           IN /\ IF page = <<>> THEN UNCHANGED <<shown, told>> ELSE Render(t, page)
              /\ Poison(req[t].page, fault)
    BY <1>2 DEF Serve
  <2>2. Parse(Described(req[t].page, fault)) \in ParsedPages
    BY DescribedPagesAreTyped DEF TypeInv
  <2>3. PluginTypes'
    BY <1>2, <2>1, PoisonKeepsTypes DEF Serve, TypeInv
  <2> QED
    BY <1>2, <2>1, <2>2, <2>3, FinishKeepsTypes DEF Serve
<1>3. CASE Post(t)
  BY <1>3, PostKeepsTypes
<1>4. PluginTypes
  BY DEF TypeInv, TypeOK, PluginTypes
<1>5. CASE SayHello(t) \/ RejectSettings(t) \/ TemplateHandles(t)
  <2>1. PluginTypes' /\ InHandler(t)
    BY <1>4, <1>5 DEF PluginTypes, pluginVars, activity, InHandler, Handles,
                      SayHello, RejectSettings, TemplateHandles
  <2>2. \E actions : \E how \in {"handled", "failed"} : Answer(t, actions, how)
    BY <1>5 DEF SayHello, RejectSettings, TemplateHandles
  <2> QED
    BY <2>1, <2>2, AnswerKeepsTypes
<1>6. CASE ClearRecent(t)
  <2>1. PluginTypes' /\ InHandler(t) /\ Step(t, "cleared")
    BY <1>4, <1>6, RowsAssumption DEF ClearRecent, PluginTypes, InHandler, Handles
  <2> QED
    BY <2>1, StepKeepsTypes DEF Labels, Threads
<1>7. CASE ClearSeen(t)
  <2>1. PluginTypes' /\ InHandler(t) /\ Answer(t, <<"Success">>, "handled")
    BY <1>4, <1>7 DEF ClearSeen, PluginTypes, InHandler
  <2> QED
    BY <2>1, AnswerKeepsTypes
<1>8. CASE CountNote(t)
  <2>1. PluginTypes' /\ InHandler(t) /\ Step(t, "counted")
    BY <1>4, <1>8 DEF CountNote, Count, PluginTypes, InHandler, Handles
  <2> QED
    BY <2>1, StepKeepsTypes DEF Labels, Threads
<1>9. CASE InsertNote(t)
  <2>1. PluginTypes' /\ InHandler(t) /\ Answer(t, <<"Success">>, "handled")
    BY <1>4, <1>9, RowsAssumption DEF InsertNote, Insert, PluginTypes, InHandler
  <2> QED
    BY <2>1, AnswerKeepsTypes
<1>10. CASE ApplySettings(t)
  <2>1. Submitted(req[t].values, "greeting") \in Texts
    BY TextsAreTexts DEF TypeInv, TypeOK, IsRequest, Submitted
  <2>2. PluginTypes' /\ InHandler(t) /\ Answer(t, <<"Log", "SaveSettings", "Refresh">>, "handled")
    BY <1>4, <1>10, <2>1 DEF ApplySettings, PluginTypes, InHandler, Handles, activity
  <2> QED
    BY <2>2, AnswerKeepsTypes
<1>11. CASE OtherHandles(t)
  <2>1. PluginTypes' /\ InHandler(t)
    BY <1>4, <1>11 DEF OtherHandles, PluginTypes, InHandler, activity
  <2>2. \E actions : \E how \in {"handled", "failed"} : Answer(t, actions, how)
    BY <1>11 DEF OtherHandles
  <2> QED
    BY <2>1, <2>2, AnswerKeepsTypes
<1> QED
  BY <1>1, <1>2, <1>3, <1>5, <1>6, <1>7, <1>8, <1>9, <1>10, <1>11 DEF Request

LEMMA FeedKeepsTypes ==
  ASSUME TypeInv, NEW t \in Feeders, Feed(t)
  PROVE  TypeInv'
<1>1. t \in Threads /\ t \notin Operators
  BY ThreadsAssumption DEF Threads
<1>2. PluginTypes
  BY DEF TypeInv, TypeOK, PluginTypes
<1>3. CASE CountEvent(t)
  BY <1>1, <1>2, <1>3, StepKeepsTypes DEF CountEvent, Count, PluginTypes, Labels
<1>4. CASE InsertEvent(t)
  BY <1>1, <1>2, <1>4, RowsAssumption, StepKeepsTypes DEF InsertEvent, Insert, PluginTypes, Labels
<1> QED
  BY <1>3, <1>4 DEF Feed

LEMMA RelayoutKeepsTypes ==
  ASSUME TypeInv, Relayout
  PROVE  TypeInv'
<1>1. TypeOK'
  BY DEF TypeInv, TypeOK, Relayout, pluginVars, activity
<1>2. HandledAsDescribed'
  BY DEF TypeInv, HandledAsDescribed, InHandler, Relayout
<1> QED
  BY <1>1, <1>2 DEF TypeInv

LEMMA NextKeepsTypes == TypeInv /\ [Next]_vars => TypeInv'
<1> SUFFICES ASSUME TypeInv, [Next]_vars PROVE TypeInv'
  OBVIOUS
<1>1. ASSUME UNCHANGED vars PROVE TypeInv'
  BY <1>1 DEF vars, pluginVars, activity, threadVars, TypeInv, TypeOK, HandledAsDescribed, InHandler
<1> QED
  BY <1>1, BrowseKeepsTypes, RequestKeepsTypes, FeedKeepsTypes, RelayoutKeepsTypes DEF Next

\* Every variable keeps its type, and what a plugin handles was on the page.
THEOREM TypeCorrect == Spec => [](TypeOK /\ HandledAsDescribed)
<1>1. Spec => []TypeInv
  BY TypeInit, NextKeepsTypes, PTL DEF Spec
<1> QED
  BY <1>1, PTL DEF TypeInv

-----------------------------------------------------------------------------
(* The logger, and the settings.                                           *)

LEMMA PoisonNeedsTheLogger ==
  ASSUME OnlyTheLoggerPoisons, NEW id, NEW fault, Poison(id, fault)
  PROVE  OnlyTheLoggerPoisons'
BY DEF OnlyTheLoggerPoisons, Poison, Panics, Safe, LoggerThrows

\* A plugin panics under its Mutex only when the logger threw.
THEOREM OnlyTheLoggerPoisonsAlways == Spec => []OnlyTheLoggerPoisons
<1>1. Init => OnlyTheLoggerPoisons
  BY DEF Init, OnlyTheLoggerPoisons
<1>2. OnlyTheLoggerPoisons /\ [Next]_vars => OnlyTheLoggerPoisons'
  <2> SUFFICES ASSUME OnlyTheLoggerPoisons, [Next]_vars PROVE OnlyTheLoggerPoisons'
    OBVIOUS
  <2>1. ASSUME UNCHANGED <<poisoned, loggerThrew>> PROVE OnlyTheLoggerPoisons'
    BY <2>1 DEF OnlyTheLoggerPoisons
  <2>2. ASSUME NEW t \in Operators, Browse(t) PROVE OnlyTheLoggerPoisons'
    BY <2>1, <2>2 DEF Browse, Get, Press, Submit, Send, pluginVars
  <2>3. ASSUME NEW t \in Operators, Resolve(t) \/ Serve(t) \/ Post(t) PROVE OnlyTheLoggerPoisons'
    BY <2>3, PoisonNeedsTheLogger DEF Resolve, Serve, Post
  <2>4. ASSUME NEW t \in Operators, OtherHandles(t) PROVE OnlyTheLoggerPoisons'
    BY <2>4 DEF OtherHandles, OnlyTheLoggerPoisons, SafeFallible, LoggerThrows
  <2>5. ASSUME NEW t \in Operators, Request(t) PROVE OnlyTheLoggerPoisons'
    BY <2>1, <2>3, <2>4, <2>5 DEF Request, SayHello, ClearRecent, ClearSeen, CountNote, Count,
       InsertNote, Insert, ApplySettings, RejectSettings, TemplateHandles, pluginVars
  <2>6. ASSUME NEW t \in Feeders, Feed(t) PROVE OnlyTheLoggerPoisons'
    BY <2>1, <2>6 DEF Feed, CountEvent, Count, InsertEvent, Insert
  <2>7. ASSUME Relayout \/ UNCHANGED vars PROVE OnlyTheLoggerPoisons'
    BY <2>1, <2>7 DEF Relayout, vars, pluginVars
  <2> QED
    BY <2>2, <2>5, <2>6, <2>7 DEF Next
<1> QED
  BY <1>1, <1>2, PTL DEF Spec

\* An answer leaves the handler.
LEMMA AnswersEnd ==
  ASSUME TypeOK, NEW t \in Operators, NEW actions, NEW how, Answer(t, actions, how)
  PROVE  /\ pc' = [pc EXCEPT ![t] = pc'[t]] /\ pc'[t] \in {"idle", "get"}
         /\ pc'[t] = "idle" => outcome'[t] = "none"
         /\ outcome'[t] \in {"none", how}
         /\ \A u \in Operators \ {t} :
               /\ req'[u] = req[u] /\ model'[u] = model[u] /\ shown'[u] = shown[u]
               /\ outcome'[u] = outcome[u] /\ offers'[u] = offers[u]
         /\ UNCHANGED <<plugin, layout>>
BY DEF TypeOK, Answer, Render, Finish, Redirect, Threads

\* Only a form of the settings page changes the settings in effect.
THEOREM OnlySettingsPagesChangeSettingsAlways == Spec => OnlySettingsPagesChangeSettings
<1>1. TypeInv /\ [Next]_vars =>
        [memory' # memory => \E t \in Operators :
            pc[t] = "handling" /\ req[t].page = "settings" /\ pc'[t] # "handling"]_vars
  <2> SUFFICES ASSUME TypeInv, Next, memory' # memory
               PROVE  \E t \in Operators :
                         pc[t] = "handling" /\ req[t].page = "settings" /\ pc'[t] # "handling"
    OBVIOUS
  <2>1. \E t \in Operators : ApplySettings(t)
    BY DEF Next, Browse, Get, Press, Submit, Send, Request, Resolve, Serve, Post, SayHello,
       ClearRecent, ClearSeen, CountNote, Count, InsertNote, Insert,
       RejectSettings, TemplateHandles, OtherHandles, Feed, CountEvent, InsertEvent, Relayout, pluginVars
  <2>2. PICK t \in Operators : ApplySettings(t)
    BY <2>1
  <2>3. pc[t] = "handling" /\ req[t].page = "settings"
    BY <2>2 DEF ApplySettings, Handles, TypeInv, HandledAsDescribed, InHandler
  <2>4. pc'[t] \in {"idle", "get"}
    BY <2>2, AnswersEnd DEF ApplySettings, TypeInv
  <2> QED
    BY <2>3, <2>4
<1>2. Spec => []TypeInv
  BY TypeInit, NextKeepsTypes, PTL DEF Spec
<1> QED
  BY <1>1, <1>2, PTL DEF Spec, OnlySettingsPagesChangeSettings

-----------------------------------------------------------------------------
(* What a step does to the request of the operator who takes it.           *)

OthersStay(t) ==
    \A u \in Operators \ {t} :
        /\ pc'[u] = pc[u] /\ req'[u] = req[u] /\ model'[u] = model[u]
        /\ shown'[u] = shown[u] /\ outcome'[u] = outcome[u] /\ offers'[u] = offers[u]

Stays(t) == shown'[t] = shown[t] /\ outcome'[t] = outcome[t] /\ offers'[t] = offers[t]

\* A request is of a button or a form of the page in the browser.
SentFrom(page, r) ==
    \/ /\ r.kind = "command"
       /\ \E place \in Senders(page, r.name) :
             ButtonAt(page, place).label = r.label /\ ButtonAt(page, place).confirm = r.confirmed
    \/ /\ r.kind = "form"
       /\ \E i \in OfType(page, "form") : page[i].id = r.name

Sends(t) ==
    /\ pc'[t] = "post" /\ outcome'[t] = "none" /\ offers'[t] = {layout}
    /\ shown'[t] = shown[t] /\ SentFrom(shown[t].page, req'[t])

Resolves(t) ==
    /\ pc[t] \in {"get", "post"} /\ req[t].page = "default" /\ pc'[t] = pc[t] /\ Stays(t)
    /\ \E page : req'[t] = [req[t] EXCEPT !.page = page]

Refuses(t) ==
    /\ pc[t] = "post" /\ req[t].page # "default"
    /\ \E fault : Refuse(t, Parse(Described(req[t].page, fault)))

Dispatches(t) ==
    /\ pc[t] = "post"
    /\ \E fault : Dispatch(t, Parse(Described(req[t].page, fault)))

Works(t) ==
    InHandler(t) /\ pc'[t] \in {"counted", "cleared"} /\ req'[t] = req[t] /\ Stays(t)

Ends(t) ==
    /\ pc'[t] \in {"idle", "get"} /\ outcome'[t] # "refused"
    /\ pc'[t] = "idle" => outcome'[t] = "none"

Moves(t) ==
    Sends(t) \/ Resolves(t) \/ Refuses(t) \/ Dispatches(t) \/ Works(t) \/ Ends(t)

IdleIsClean == \A t \in Operators : pc[t] = "idle" => outcome[t] = "none"

LEMMA BrowseMoves ==
  ASSUME TypeInv, IdleIsClean, NEW t \in Operators, Browse(t)
  PROVE  UNCHANGED <<plugin, layout>> /\ OthersStay(t) /\ (Sends(t) \/ Ends(t))
<1>1. CASE Get(t)
  BY <1>1 DEF Get, OthersStay, Ends, IdleIsClean, TypeInv, TypeOK, Threads
<1>2. ASSUME NEW r, Send(t, r), SentFrom(shown[t].page, r), IsRequest(r)
      PROVE  UNCHANGED <<plugin, layout>> /\ OthersStay(t) /\ Sends(t)
  <2>1. SentFrom(shown[t].page, req'[t])
    BY <1>2 DEF Send, SentFrom, TypeInv, TypeOK, IsRequest, Requests
  <2> QED
    BY <1>2, <2>1 DEF Send, Sends, OthersStay, TypeInv, TypeOK, Threads
<1>3. CASE Press(t)
  <2>1. PICK i \in OfType(shown[t].page, "actions") :
           \E j \in DOMAIN shown[t].page[i].buttons :
              LET button == shown[t].page[i].buttons[j]
              IN Send(t, [NoRequest EXCEPT !.kind = "command", !.name = button.command,
                            !.label = button.label, !.confirmed = button.confirm])
    BY <1>3 DEF Press
  <2>2. PICK j \in DOMAIN shown[t].page[i].buttons :
           LET button == shown[t].page[i].buttons[j]
           IN Send(t, [NoRequest EXCEPT !.kind = "command", !.name = button.command,
                         !.label = button.label, !.confirmed = button.confirm])
    BY <2>1
  <2> DEFINE button == shown[t].page[i].buttons[j]
             r == [NoRequest EXCEPT !.kind = "command", !.name = button.command,
                      !.label = button.label, !.confirmed = button.confirm]
  <2>3. button \in Buttons
    <3>1. shown[t].page[i] \in SectionsOf(ParsedFields)
      BY DEF TypeInv, TypeOK, ParsedPages, OfType
    <3>2. shown[t].page[i].buttons \in Seq(Buttons)
      BY <3>1 DEF SectionsOf
    <3> QED
      BY <3>2
  <2>4. IsRequest(r) /\ r.kind = "command" /\ r.name = button.command
          /\ r.label = button.label /\ r.confirmed = button.confirm
    BY <2>3, RequestsAreTyped DEF IsRequest, Requests, Buttons
  <2>5. <<i, j>> \in Senders(shown[t].page, button.command)
          /\ ButtonAt(shown[t].page, <<i, j>>) = button
    BY DEF Senders, ButtonAt
  <2>6. SentFrom(shown[t].page, r)
    BY <2>4, <2>5 DEF SentFrom
  <2> QED
    BY <1>2, <2>2, <2>4, <2>6
<1>4. CASE Submit(t)
  <2>1. PICK i \in OfType(shown[t].page, "form") :
           LET form == shown[t].page[i]
           IN \E values \in Sent(form) :
                 Send(t, [NoRequest EXCEPT !.kind = "form", !.name = form.id, !.values = values])
    BY <1>4 DEF Submit
  <2> DEFINE form == shown[t].page[i]
  <2>2. PICK values \in Sent(form) :
           Send(t, [NoRequest EXCEPT !.kind = "form", !.name = form.id, !.values = values])
    BY <2>1
  <2> DEFINE r == [NoRequest EXCEPT !.kind = "form", !.name = form.id, !.values = values]
  <2>3. IsRequest(r) /\ r.kind = "form" /\ r.name = form.id
    <3>1. form \in SectionsOf(ParsedFields)
      BY DEF TypeInv, TypeOK, ParsedPages, OfType
    <3>2. form.id \in Names
      BY <3>1 DEF SectionsOf
    <3> QED
      BY <3>2, RequestsAreTyped, TextsAreTexts DEF IsRequest, Requests
  <2>4. SentFrom(shown[t].page, r)
    BY <2>3 DEF SentFrom
  <2> QED
    BY <1>2, <2>2, <2>3, <2>4
<1> QED
  BY <1>1, <1>3, <1>4 DEF Browse

LEMMA StepMoves ==
  ASSUME TypeInv, NEW t \in Operators, NEW label \in {"counted", "cleared"}, Step(t, label),
         InHandler(t)
  PROVE  UNCHANGED <<plugin, layout>> /\ OthersStay(t) /\ Moves(t)
BY DEF Step, OthersStay, Moves, Works, Stays, TypeInv, TypeOK, Threads

LEMMA AnswerMoves ==
  ASSUME TypeInv, NEW t \in Operators, NEW actions, NEW how \in {"handled", "failed"},
         Answer(t, actions, how)
  PROVE  UNCHANGED <<plugin, layout>> /\ OthersStay(t) /\ Moves(t)
<1>1. /\ pc' = [pc EXCEPT ![t] = pc'[t]] /\ pc'[t] \in {"idle", "get"}
      /\ pc'[t] = "idle" => outcome'[t] = "none"
      /\ outcome'[t] \in {"none", how}
      /\ \A u \in Operators \ {t} :
            /\ req'[u] = req[u] /\ model'[u] = model[u] /\ shown'[u] = shown[u]
            /\ outcome'[u] = outcome[u] /\ offers'[u] = offers[u]
      /\ UNCHANGED <<plugin, layout>>
  BY AnswersEnd DEF TypeInv
<1>2. \A u \in Operators \ {t} : pc'[u] = pc[u]
  BY <1>1 DEF TypeInv, TypeOK, Threads
<1> QED
  BY <1>1, <1>2 DEF OthersStay, Moves, Ends

LEMMA RequestMoves ==
  ASSUME TypeInv, NEW t \in Operators, Request(t)
  PROVE  UNCHANGED <<plugin, layout>> /\ OthersStay(t) /\ Moves(t)
<1>1. CASE Resolve(t)
  BY <1>1 DEF Resolve, OthersStay, Moves, Resolves, Stays, TypeInv, TypeOK
<1>2. CASE Serve(t)
  BY <1>2 DEF Serve, Render, Finish, OthersStay, Moves, Ends, TypeInv, TypeOK, Threads
<1>3. CASE Post(t)
  <2>1. PICK fault \in Faults :
           LET page == Parse(Described(req[t].page, fault))
           IN NotFound(t, page) \/ Refuse(t, page) \/ Invalid(t, page) \/ Dispatch(t, page)
    BY <1>3 DEF Post
  <2> DEFINE page == Parse(Described(req[t].page, fault))
  <2> HIDE DEF page
  <2>2. UNCHANGED <<plugin, layout>> /\ pc[t] = "post" /\ req[t].page # "default"
    BY <1>3 DEF Post
  <2>3. CASE NotFound(t, page) \/ Invalid(t, page)
    BY <2>2, <2>3 DEF NotFound, Invalid, Render, Finish, OthersStay, Moves, Ends, TypeInv, TypeOK, Threads
  <2>4. CASE Refuse(t, page)
    <3>1. OthersStay(t)
      BY <2>4 DEF Refuse, Redirect, OthersStay, TypeInv, TypeOK, Threads
    <3> QED
      BY <2>2, <2>4, <3>1 DEF Moves, Refuses, page
  <2>5. CASE Dispatch(t, page)
    <3>1. OthersStay(t)
      BY <2>5 DEF Dispatch, OthersStay, TypeInv, TypeOK, Threads
    <3> QED
      BY <2>2, <2>5, <3>1 DEF Moves, Dispatches, page
  <2> QED
    BY <2>1, <2>3, <2>4, <2>5 DEF page
<1>4. CASE \E actions : \E how \in {"handled", "failed"} : Answer(t, actions, how)
  BY <1>4, AnswerMoves
<1>5. CASE ClearRecent(t) \/ CountNote(t)
  BY <1>5, StepMoves DEF ClearRecent, CountNote, Handles, InHandler
<1>6. SayHello(t) \/ ClearSeen(t) \/ InsertNote(t) \/ ApplySettings(t) \/ RejectSettings(t)
        \/ TemplateHandles(t) \/ OtherHandles(t)
        => \E actions : \E how \in {"handled", "failed"} : Answer(t, actions, how)
  BY DEF SayHello, ClearSeen, InsertNote, ApplySettings, RejectSettings,
     TemplateHandles, OtherHandles
<1> QED
  BY <1>1, <1>2, <1>3, <1>4, <1>5, <1>6 DEF Request

LEMMA FeedMoves ==
  ASSUME TypeInv, NEW t \in Feeders, Feed(t)
  PROVE  UNCHANGED <<plugin, layout>> /\ \A u \in Operators : OthersStay(u) /\ Stays(u)
            /\ pc'[u] = pc[u] /\ req'[u] = req[u] /\ model'[u] = model[u]
BY ThreadsAssumption DEF Feed, CountEvent, InsertEvent, Step, OthersStay, Stays, TypeInv, TypeOK, Threads

-----------------------------------------------------------------------------
(* A request against the page it is about.                                 *)

\* What is sent is from the page, and a refusal is reported on the page refused.
InTurn(t) ==
    /\ pc[t] = "idle" => outcome[t] = "none"
    /\ pc[t] = "post" => layout \in offers[t] /\ outcome[t] = "none" /\ SentFrom(shown[t].page, req[t])
    /\ outcome[t] = "refused" => pc[t] = "get" /\ req[t].page # "default"

RequestInv(t) ==
    InTurn(t) /\ RunsAsOffered(t) /\ ValuesObey(t) /\ (Undisturbed(t) => IsTaken(t))

RequestsInv == TypeInv /\ \A t \in Operators : RequestInv(t)

\* A page with one button for each command finds the button pressed.
LEMMA TheOneButton ==
  ASSUME NEW page \in ParsedPages, OneButtonEach(page), NEW command,
         NEW place \in Senders(page, command)
  PROVE  ButtonByCommand(page, command) = ButtonAt(page, place)
           /\ ButtonByCommand(page, command) # None
<1>1. Senders(page, command) = {place}
  <2>1. PICK i \in OfType(page, "actions") : \E j \in DOMAIN page[i].buttons :
           place = <<i, j>> /\ page[i].buttons[j].command = command
    BY DEF Senders
  <2> QED
    BY <2>1 DEF OneButtonEach
<1>2. place[1] \in Nat /\ place[2] \in Nat /\ ButtonAt(page, place) \in Buttons
  BY ButtonPlaces
<1>3. (CHOOSE p \in {place} : \A q \in {place} : p[1] < q[1] \/ (p[1] = q[1] /\ p[2] <= q[2])) = place
  BY <1>2
<1> QED
  BY <1>1, <1>2, <1>3, NoneAssumption DEF ButtonByCommand

\* A form that is there is found.
LEMMA TheFormIsFound ==
  ASSUME NEW page \in ParsedPages, NEW i \in OfType(page, "form")
  PROVE  FormById(page, page[i].id) # None
<1> DEFINE same == {k \in OfType(page, "form") : page[k].id = page[i].id}
<1>1. DOMAIN page = 1 .. Len(page) /\ Len(page) \in Nat /\ same \subseteq DOMAIN page /\ same # {}
        /\ \A k \in DOMAIN page : page[k] \in SectionsOf(ParsedFields)
  BY DEF ParsedPages, OfType
<1>2. FirstOf(same) \in same
  BY <1>1, FirstOfMany
<1>3. page[FirstOf(same)] # None
  BY <1>1, <1>2, NoneAssumption
<1> QED
  BY <1>1, <1>3 DEF FormById

\* The host finds the form the plugin described, with its fields.
LEMMA ParsedForms ==
  ASSUME NEW d \in Documents, NEW id, FormById(Parse(d), id) # None
  PROVE  /\ FormById(d, id) \in SectionsOf(Fields) /\ FormById(d, id) # None
         /\ FormById(Parse(d), id).fields = ParseFields(FormById(d, id).fields)
<1> DEFINE same(page) == {i \in OfType(page, "form") : page[i].id = id}
<1>1. /\ DOMAIN Parse(d) = DOMAIN d
      /\ \A i \in DOMAIN d : d[i] \in SectionsOf(Fields) /\ Parse(d)[i] = ParseSection(d[i])
  BY PagesAreTyped
<1>2. \A i \in DOMAIN d :
         /\ Parse(d)[i].type = "form" <=> d[i].type = "form"
         /\ d[i].type = "form" => /\ Parse(d)[i].id = d[i].id
                                  /\ Parse(d)[i].fields = ParseFields(d[i].fields)
  BY <1>1, ParsedSections
<1>3. same(Parse(d)) = same(d)
  BY <1>1, <1>2 DEF OfType
<1>4. same(d) # {}
  BY <1>3 DEF FormById
<1>5. FirstOf(same(d)) \in same(d)
  <2>1. DOMAIN d = 1 .. Len(d) /\ Len(d) \in Nat /\ same(d) \in SUBSET DOMAIN d
    BY DEF Documents, OfType
  <2> QED
    BY <1>4, <2>1, FirstOfMany
<1>6. FirstOf(same(d)) \in DOMAIN d /\ d[FirstOf(same(d))].type = "form"
  BY <1>5 DEF OfType
<1>7. FormById(d, id) = d[FirstOf(same(d))] /\ FormById(Parse(d), id) = Parse(d)[FirstOf(same(d))]
  BY <1>3, <1>4 DEF FormById
<1> QED
  BY <1>1, <1>2, <1>6, <1>7, NoneAssumption

\* What Validate takes, Field::validate takes, but for the length of a text.
LEMMA ValidationsOfAField ==
  ASSUME NEW f \in Fields, NEW v \in Texts, HostAccepts(ParseField(f), v)
  PROVE  FieldAccepts(f, v) \/ TooLong(f, v)
<1>1. v \in AnyText
  BY TextsAreTexts
<1>2. CASE Blank(v)
  BY <1>2 DEF HostAccepts, FieldAccepts, ParseField, Fields
<1>3. CASE ~ Blank(v)
  BY <1>1, <1>3 DEF HostAccepts, FieldAccepts, TooLong, ParseField, Within, Fields, Optional, AnyText
<1> QED
  BY <1>2, <1>3

LEMMA RequestsInit == Init => RequestsInv
<1> SUFFICES ASSUME Init PROVE RequestsInv
  OBVIOUS
<1>1. TypeInv
  BY TypeInit
<1>2. ASSUME NEW t \in Operators PROVE pc[t] = "idle" /\ outcome[t] = "none"
  BY DEF Init, Threads
<1> QED
  BY <1>1, <1>2 DEF RequestsInv, RequestInv, InTurn, RunsAsOffered, ValuesObey, InHandler, IsTaken

\* What was offered is offered still, and what stays the same keeps what it has.
LEMMA StayingKeepsRequestInv ==
  ASSUME RequestsInv, NEW t \in Operators,
         pc'[t] = pc[t], req'[t] = req[t], model'[t] = model[t],
         shown'[t] = shown[t], outcome'[t] = outcome[t], plugin' = plugin,
         offers[t] \subseteq offers'[t], layout \in offers[t] => layout' \in offers'[t]
  PROVE  RequestInv(t)'
<1>1. Offered(t) \subseteq Offered(t)'
  BY DEF Offered
<1>2. RequestInv(t)
  BY DEF RequestsInv
<1>3. InTurn(t)'
  BY <1>2 DEF RequestInv, InTurn
<1>4. RunsAsOffered(t)'
  BY <1>1, <1>2 DEF RequestInv, RunsAsOffered, InHandler
<1>5. ValuesObey(t)'
  BY <1>1, <1>2 DEF RequestInv, ValuesObey, InHandler, Obeys
<1>6. Undisturbed(t)' => Undisturbed(t)
  BY <1>1 DEF Undisturbed
<1>7. Undisturbed(t)' => IsTaken(t)'
  BY <1>2, <1>6 DEF RequestInv, IsTaken
<1> QED
  BY <1>3, <1>4, <1>5, <1>7 DEF RequestInv

\* Sending, resolving, working in the handler and ending.
LEMMA QuietMovesKeepRequestInv ==
  ASSUME RequestsInv, NEW t \in Operators, UNCHANGED <<plugin, layout>>,
         Sends(t) \/ Resolves(t) \/ Works(t) \/ Ends(t)
  PROVE  RequestInv(t)'
<1>1. RequestInv(t) /\ TypeInv
  BY DEF RequestsInv
<1>2. CASE Sends(t)
  BY <1>2 DEF Sends, RequestInv, InTurn, RunsAsOffered, ValuesObey, InHandler, IsTaken
<1>3. CASE Ends(t)
  BY <1>3 DEF Ends, RequestInv, InTurn, RunsAsOffered, ValuesObey, InHandler, IsTaken
<1>4. CASE Resolves(t)
  <2>1. req'[t].kind = req[t].kind /\ req'[t].name = req[t].name
          /\ req'[t].label = req[t].label /\ req'[t].confirmed = req[t].confirmed
    BY <1>1, <1>4 DEF Resolves, TypeInv, TypeOK, IsRequest, Requests
  <2>2. SentFrom(shown[t].page, req[t]) => SentFrom(shown[t].page, req'[t])
    BY <2>1 DEF SentFrom
  <2>3. outcome[t] # "refused"
    BY <1>1, <1>4 DEF Resolves, RequestInv, InTurn
  <2> QED
    BY <1>1, <1>4, <2>2, <2>3
    DEF Resolves, Stays, RequestInv, InTurn, RunsAsOffered, ValuesObey, InHandler, IsTaken
<1>5. CASE Works(t)
  <2>1. Offered(t)' = Offered(t)
    BY <1>5 DEF Works, Stays, Offered
  <2>2. outcome[t] # "refused"
    BY <1>1, <1>5 DEF Works, InHandler, RequestInv, InTurn
  <2>3. InTurn(t)'
    BY <1>5, <2>2 DEF Works, Stays, InTurn
  <2>4. RunsAsOffered(t)'
    BY <1>1, <1>5, <2>1 DEF Works, RequestInv, RunsAsOffered
  <2>5. ValuesObey(t)'
    BY <1>1, <1>5, <2>1 DEF Works, RequestInv, ValuesObey, Obeys
  <2>6. IsTaken(t)'
    BY <1>5, <2>2 DEF Works, Stays, IsTaken
  <2> QED
    BY <2>3, <2>4, <2>5, <2>6 DEF RequestInv
<1> QED
  BY <1>2, <1>3, <1>4, <1>5

\* The page a post is checked against is one of those offered since it was sent.
LEMMA CheckedAgainstAnOffer ==
  ASSUME RequestsInv, NEW t \in Operators, pc[t] = "post", NEW fault,
         Parse(Described(req[t].page, fault)) # <<>>
  PROVE  /\ Described(req[t].page, fault) \in Offered(t)
         /\ Described(req[t].page, fault) \in Documents
         /\ Undisturbed(t) => Parse(Described(req[t].page, fault)) = shown[t].page
<1>1. layout \in offers[t] /\ TypeOK
  BY DEF RequestsInv, RequestInv, InTurn, TypeInv
<1>2. Described(req[t].page, fault) = DocumentOf(plugin, req[t].page, layout)
  BY <1>1, PagesAreDescribed
<1> QED
  BY <1>1, <1>2, DescribedPagesAreTyped DEF Offered, Undisturbed

LEMMA RefuseKeepsRequestInv ==
  ASSUME RequestsInv, NEW t \in Operators, UNCHANGED <<plugin, layout>>, Refuses(t)
  PROVE  RequestInv(t)'
<1>1. PICK fault : Refuse(t, Parse(Described(req[t].page, fault)))
  BY DEF Refuses
<1> DEFINE page == Parse(Described(req[t].page, fault))
<1>2. page # <<>> /\ Refusal(req[t], page) # "no"
  BY <1>1 DEF Refuse
<1>3. TypeOK /\ SentFrom(shown[t].page, req[t]) /\ shown[t].page \in ParsedPages
  BY DEF RequestsInv, RequestInv, InTurn, Refuses, TypeInv, TypeOK
<1>4. pc'[t] = "get" /\ req'[t].page = req[t].page /\ shown'[t] = shown[t] /\ offers'[t] = offers[t]
  BY <1>1, <1>3 DEF Refuse, Redirect, TypeOK, Threads, NoRequest
<1>5. ~ Undisturbed(t)
  <2> SUFFICES ASSUME Undisturbed(t) PROVE FALSE
    OBVIOUS
  <2>1. page = shown[t].page /\ OneButtonEach(page)
    BY <1>2, CheckedAgainstAnOffer DEF Refuses, Undisturbed
  <2> HIDE DEF page
  <2>2. CASE req[t].kind = "command"
    <3>1. PICK place \in Senders(page, req[t].name) :
             ButtonAt(page, place).label = req[t].label /\ ButtonAt(page, place).confirm = req[t].confirmed
      BY <1>3, <2>1, <2>2 DEF SentFrom
    <3>2. ButtonByCommand(page, req[t].name) = ButtonAt(page, place)
            /\ ButtonByCommand(page, req[t].name) # None
      BY <1>3, <2>1, TheOneButton
    <3> QED
      BY <1>2, <2>2, <3>1, <3>2 DEF Refusal
  <2>3. CASE req[t].kind # "command"
    <3>1. FormById(page, req[t].name) # None
      BY <1>3, <2>1, <2>3, TheFormIsFound DEF SentFrom
    <3> QED
      BY <1>2, <2>3, <3>1 DEF Refusal
  <2> QED
    BY <2>2, <2>3
<1>6. Undisturbed(t)' <=> Undisturbed(t)
  BY <1>4 DEF Undisturbed, Offered
<1> QED
  BY <1>4, <1>5, <1>6 DEF RequestInv, InTurn, RunsAsOffered, ValuesObey, InHandler, Refuses

LEMMA DispatchKeepsRequestInv ==
  ASSUME RequestsInv, NEW t \in Operators, UNCHANGED <<plugin, layout>>, Dispatches(t)
  PROVE  RequestInv(t)'
<1>1. PICK fault : Dispatch(t, Parse(Described(req[t].page, fault)))
  BY DEF Dispatches
<1> DEFINE d == Described(req[t].page, fault)
           page == Parse(d)
           form == FormById(page, req[t].name)
           collected == Collect(form, req[t].values)
<1>2. page # <<>> /\ Refusal(req[t], page) = "no" /\ (req[t].kind = "form" => Valid(req[t], page))
  BY <1>1 DEF Dispatch
<1>3. TypeOK /\ SentFrom(shown[t].page, req[t]) /\ shown[t].page \in ParsedPages /\ IsRequest(req[t])
  BY DEF RequestsInv, RequestInv, InTurn, Dispatches, TypeInv, TypeOK
<1>4. d \in Offered(t) /\ d \in Documents /\ (Undisturbed(t) => page = shown[t].page)
  BY <1>2, CheckedAgainstAnOffer DEF Dispatches
<1>5. /\ pc'[t] = "handling" /\ shown'[t] = shown[t] /\ offers'[t] = offers[t] /\ model'[t] = page
      /\ req'[t] = Event(req[t], page) /\ outcome'[t] = "none"
  BY <1>1, <1>3 DEF Dispatch, TypeOK, Threads, RequestsInv, RequestInv, InTurn, Dispatches
<1>6. req'[t].page = req[t].page /\ req'[t].name = req[t].name
  BY <1>3, <1>5 DEF Event, IsRequest, Requests
<1>7. Offered(t)' = Offered(t)
  BY <1>5, <1>6 DEF Offered
<1> HIDE DEF d
<1>8. CASE req[t].kind = "command"
  <2>1. req'[t] = req[t]
    BY <1>5, <1>8 DEF Event
  <2>2. ButtonByCommand(page, req[t].name) # None
          /\ (ButtonByCommand(page, req[t].name).confirm => req[t].confirmed)
    BY <1>2, <1>8 DEF Refusal
  <2>3. RunsAsOffered(t)'
    BY <1>4, <1>7, <2>1, <2>2 DEF RunsAsOffered
  <2>4. Undisturbed(t) => ButtonByCommand(page, req[t].name).label = req[t].label
    <3> SUFFICES ASSUME Undisturbed(t) PROVE ButtonByCommand(page, req[t].name).label = req[t].label
      OBVIOUS
    <3>1. page = shown[t].page /\ OneButtonEach(page)
      BY <1>4 DEF Undisturbed
    <3> HIDE DEF page
    <3>2. PICK place \in Senders(page, req[t].name) : ButtonAt(page, place).label = req[t].label
      BY <1>3, <1>8, <3>1 DEF SentFrom
    <3> QED
      BY <1>3, <3>1, <3>2, TheOneButton
  <2>5. Undisturbed(t)' => Undisturbed(t)
    BY <1>5, <1>7 DEF Undisturbed
  <2>6. Undisturbed(t)' => IsTaken(t)'
    BY <1>5, <2>1, <2>4, <2>5 DEF IsTaken
  <2>7. ValuesObey(t)' /\ InTurn(t)'
    BY <1>5, <1>8, <2>1 DEF ValuesObey, InTurn
  <2> QED
    BY <2>3, <2>6, <2>7 DEF RequestInv
<1>9. CASE req[t].kind # "command"
  <2>1. req[t].kind = "form" /\ form # None
    BY <1>2, <1>3, <1>9 DEF SentFrom, Refusal
  <2>2. req'[t].values = collected /\ req'[t].kind # "command"
    BY <1>3, <1>5, <1>9 DEF Event, IsRequest, Requests
  <2> DEFINE described == FormById(d, req[t].name)
  <2>3. described \in SectionsOf(Fields) /\ described # None /\ form.fields = ParseFields(described.fields)
    BY <1>4, <2>1, ParsedForms
  <2>4. ASSUME NEW i \in DOMAIN described.fields
        PROVE  LET f == described.fields[i]
                   v == Submitted(collected, f.id)
               IN FieldAccepts(f, v) \/ TooLong(f, v)
    <3>1. described.fields \in Seq(Fields)
      BY <2>3 DEF SectionsOf
    <3>2. described.fields[i] \in Fields
      BY <3>1
    <3>3. i \in DOMAIN form.fields /\ form.fields[i] = ParseField(described.fields[i])
      BY <2>3 DEF ParseFields
    <3>4. form.fields[i].id = described.fields[i].id
      BY <3>2, <3>3 DEF ParseField
    <3>5. HostAccepts(form.fields[i], Submitted(collected, form.fields[i].id))
      BY <1>2, <2>1, <3>3 DEF Valid
    <3>6. Submitted(collected, described.fields[i].id) \in Texts
      BY <1>3, CollectedTexts DEF IsRequest
    <3> QED
      BY <3>2, <3>3, <3>4, <3>5, <3>6, ValidationsOfAField
  <2> HIDE DEF form, page, collected
  <2>5. ValuesObey(t)'
    BY <1>4, <1>6, <1>7, <2>2, <2>3, <2>4 DEF ValuesObey, Obeys
  <2>6. RunsAsOffered(t)' /\ IsTaken(t)' /\ InTurn(t)'
    BY <1>5, <2>2 DEF RunsAsOffered, IsTaken, InTurn
  <2> QED
    BY <2>5, <2>6 DEF RequestInv
<1> QED
  BY <1>8, <1>9

LEMMA RequestsStep == RequestsInv /\ [Next]_vars => RequestsInv'
<1> SUFFICES ASSUME RequestsInv, [Next]_vars PROVE RequestsInv'
  OBVIOUS
<1>1. TypeInv /\ TypeInv' /\ IdleIsClean
  BY NextKeepsTypes DEF RequestsInv, RequestInv, InTurn, IdleIsClean
<1>2. ASSUME NEW t \in Operators, UNCHANGED <<plugin, layout>>, OthersStay(t), Moves(t)
      PROVE  \A u \in Operators : RequestInv(u)'
  <2>1. RequestInv(t)'
    BY <1>2, QuietMovesKeepRequestInv, RefuseKeepsRequestInv, DispatchKeepsRequestInv DEF Moves
  <2>2. ASSUME NEW u \in Operators \ {t} PROVE RequestInv(u)'
    BY <1>2, StayingKeepsRequestInv DEF OthersStay
  <2> QED
    BY <2>1, <2>2
<1>3. ASSUME NEW t \in Operators, Browse(t) \/ Request(t) PROVE \A u \in Operators : RequestInv(u)'
  BY <1>1, <1>2, <1>3, BrowseMoves, RequestMoves DEF Moves
<1>4. ASSUME NEW t \in Feeders, Feed(t) PROVE \A u \in Operators : RequestInv(u)'
  BY <1>1, <1>4, FeedMoves, StayingKeepsRequestInv DEF Stays
<1>5. ASSUME Relayout PROVE \A u \in Operators : RequestInv(u)'
  <2> SUFFICES ASSUME NEW u \in Operators PROVE RequestInv(u)'
    OBVIOUS
  <2>1. offers[u] \subseteq offers'[u] /\ (layout \in offers[u] => layout' \in offers'[u])
    BY <1>1, <1>5 DEF Relayout, TypeInv, TypeOK
  <2> QED
    BY <1>5, <2>1, StayingKeepsRequestInv DEF Relayout
<1>6. ASSUME UNCHANGED vars PROVE \A u \in Operators : RequestInv(u)'
  BY <1>6, StayingKeepsRequestInv DEF vars, threadVars
<1> QED
  BY <1>1, <1>3, <1>4, <1>5, <1>6 DEF Next, RequestsInv

LEMMA RequestsAlways == Spec => []RequestsInv
BY RequestsInit, RequestsStep, PTL DEF Spec

\* A command reaches the plugin only if the page offered it, confirmed if it asks.
THEOREM CommandsRunAsOfferedAlways == Spec => []CommandsRunAsOffered
<1>1. RequestsInv => CommandsRunAsOffered
  BY DEF RequestsInv, RequestInv, CommandsRunAsOffered
<1> QED
  BY <1>1, RequestsAlways, PTL

\* What is sent from a page that did not change is not refused or mislabelled.
THEOREM UndisturbedPressesAreTakenAlways == Spec => []UndisturbedPressesAreTaken
<1>1. RequestsInv => UndisturbedPressesAreTaken
  BY DEF RequestsInv, RequestInv, UndisturbedPressesAreTaken
<1> QED
  BY <1>1, RequestsAlways, PTL

\* What reaches the plugin obeys the form it described, but for lengths.
THEOREM DispatchedValuesObeyTheFormAlways == Spec => []DispatchedValuesObeyTheForm
<1>1. RequestsInv => DispatchedValuesObeyTheForm
  BY DEF RequestsInv, RequestInv, DispatchedValuesObeyTheForm
<1> QED
  BY <1>1, RequestsAlways, PTL

-----------------------------------------------------------------------------
(* What the example is handed.                                             *)

\* Its note form asks for one text, which it requires.
LEMMA NoteForm ==
  /\ Note.type = "form" /\ Note.id = "note" /\ DOMAIN Note.fields = {1}
  /\ Note.fields[1] \in Fields /\ Note.fields[1].id = "text"
  /\ Note.fields[1].kind = "text" /\ Note.fields[1].required /\ Note.fields[1].maxLength = None
<1>1. {"note", "text"} \subseteq Names
  BY NamesAssumption, IdsAssumption DEF KnownSections
<1> DEFINE f == Text("text", None)
<1>2. f \in Fields /\ f.id = "text" /\ f.kind = "text" /\ f.maxLength = None
  BY <1>1, FieldsAreTyped DEF Text, NewField
<1>3. Note.type = "form" /\ Note.id = "note" /\ Note.fields = <<SetRequired(f)>>
  BY <1>1, <1>2, OneRequired DEF Note
<1> HIDE DEF f
<1>4. SetRequired(f) \in Fields /\ SetRequired(f).id = "text" /\ SetRequired(f).kind = "text"
        /\ SetRequired(f).required /\ SetRequired(f).maxLength = None
  BY <1>2 DEF SetRequired, Fields
<1>5. ASSUME NEW r PROVE DOMAIN <<r>> = {1} /\ <<r>>[1] = r
  OBVIOUS
<1> QED
  BY <1>3, <1>4, <1>5

\* Its settings form requires a text, and bounds a number and a choice.
LEMMA GreetingForm ==
  /\ Greeting.type = "form" /\ Greeting.id = "settings" /\ DOMAIN Greeting.fields = 1 .. 4
  /\ LET f == Greeting.fields[1]
     IN /\ f \in Fields /\ f.id = "greeting" /\ f.kind = "text"
        /\ f.required /\ f.maxLength = None
  /\ LET f == Greeting.fields[2]
     IN f.id = "repeat" /\ f.kind = "number" /\ f.min = 1 /\ f.max = 10
  /\ LET f == Greeting.fields[4]
     IN f.id = "verbosity" /\ f.kind = "select" /\ f.options = Verbosities
<1> DEFINE g == SetRequired(Text("greeting", None))
           r == SetRange(NewField("repeat", "number"), 1, 10)
           v == NewField("verbose", "toggle")
           o == Select("verbosity", Verbosities)
<1>1. g \in Fields
  BY FieldsAreTyped, IdsAssumption
<1>2. g.id = "greeting" /\ g.kind = "text" /\ g.required /\ g.maxLength = None
  BY DEF SetRequired, Text, NewField
<1>3. r.id = "repeat" /\ r.kind = "number" /\ r.min = 1 /\ r.max = 10
  BY DEF SetRange, NewField
<1>4. o.id = "verbosity" /\ o.kind = "select" /\ o.options = Verbosities
  BY DEF Select, NewField
<1>5. Greeting.type = "form" /\ Greeting.id = "settings" /\ Greeting.fields = <<g, r, v, o>>
  BY FieldsOfGreeting
<1> HIDE DEF g, r, v, o
<1>6. DOMAIN Greeting.fields = 1 .. 4 /\ Greeting.fields[1] = g /\ Greeting.fields[2] = r
        /\ Greeting.fields[4] = o
  BY <1>5
<1> QED
  BY <1>1, <1>2, <1>3, <1>4, <1>5, <1>6

\* What is required is there.
LEMMA RequiredTextIsThere ==
  ASSUME NEW f \in Fields, f.kind = "text", f.required, f.maxLength = None, NEW v,
         FieldAccepts(f, v) \/ TooLong(f, v)
  PROVE  ~ Blank(v)
BY DEF FieldAccepts, TooLong

\* The buttons of the example, as the host reads them.
LEMMA ActionsOfTheExample ==
  /\ Actions(HelloButtons).type = "actions" /\ Actions(HelloButtons).buttons = HelloButtons
  /\ ParseSection(Actions(HelloButtons)) = Actions(HelloButtons)
  /\ \A i \in DOMAIN HelloButtons : HelloButtons[i].command \in {"say-hello", "clear"}
<1>1. Section("actions") \in SectionsOf(Fields) /\ Section("actions").type = "actions"
  <2>1. "actions" \in Names
    BY NamesAssumption, Zenon DEF KnownSections
  <2>2. Section("actions").type = "actions"
    BY DEF Section
  <2> QED
    BY <2>1, <2>2, SectionsAreTyped, Zenon
<1>2. Actions(HelloButtons).type = "actions" /\ Actions(HelloButtons).buttons = HelloButtons
  BY <1>1 DEF Actions, SectionsOf
<1>3. ParseSection(Actions(HelloButtons)) = Actions(HelloButtons)
  BY <1>2 DEF ParseSection
<1>4. \A i \in DOMAIN HelloButtons : HelloButtons[i].command \in {"say-hello", "clear"}
  <2>1. Button("say-hello", "Say hello").command = "say-hello"
    BY DEF Button
  <2>2. Destructive(Button("clear", "Clear activity")).command = "clear"
    BY DEF Button, Destructive
  <2>3. ASSUME NEW a, NEW b, a.command = "say-hello", b.command = "clear"
        PROVE  \A i \in DOMAIN <<a, b>> : <<a, b>>[i].command \in {"say-hello", "clear"}
    BY <2>3
  <2> QED
    BY <2>1, <2>2, <2>3, Zenon DEF HelloButtons
<1> QED
  BY <1>2, <1>3, <1>4

\* The example's settings page has one form, and of the others one has one.
LEMMA HelloForms ==
  ASSUME NEW page, NEW l, NEW name, FormById(DocumentOf("hello", page, l), name) # None
  PROVE  LET form == FormById(DocumentOf("hello", page, l), name)
         IN \/ page = "settings" /\ form = Greeting
            \/ page # "settings" /\ name = "note" /\ form = Note
<1> DEFINE d == DocumentOf("hello", page, l)
           same == {i \in OfType(d, "form") : d[i].id = name}
<1>1. same # {} /\ FormById(d, name) = d[FirstOf(same)]
  BY DEF FormById
<1>2. ASSUME NEW n \in Nat, DOMAIN d = 1 .. n
      PROVE  \E i \in 1 .. n : FormById(d, name) = d[i] /\ d[i].type = "form" /\ d[i].id = name
  <2>1. same \subseteq DOMAIN d
    BY DEF OfType
  <2>2. FirstOf(same) \in same
    BY <1>1, <1>2, <2>1, FirstOfMany
  <2> QED
    BY <1>1, <1>2, <2>2 DEF OfType
<1>3. \A type : Section(type).type = type /\ Actions(HelloButtons).type = "actions"
  BY ActionsOfTheExample DEF Section
<1>4. CASE page = "settings"
  <2>1. d = <<Section("text"), Greeting>>
    BY <1>4, Zenon DEF DocumentOf
  <2>2. DOMAIN d = 1 .. 2 /\ d[1] = Section("text") /\ d[2] = Greeting
    BY <2>1
  <2>3. PICK i \in 1 .. 2 : FormById(d, name) = d[i] /\ d[i].type = "form"
    BY <1>2, <2>2
  <2>4. i = 1 \/ i = 2
    OBVIOUS
  <2>5. FormById(d, name) = Greeting
    BY <1>3, <2>2, <2>3, <2>4
  <2> QED
    BY <1>4, <2>5
<1>5. CASE page = "dashboard"
  <2>1. d = <<Section("stats"), Section("table"), Note, Actions(HelloButtons)>>
    BY <1>5, Zenon DEF DocumentOf
  <2>2. DOMAIN d = 1 .. 4 /\ d[1] = Section("stats") /\ d[2] = Section("table")
          /\ d[3] = Note /\ d[4] = Actions(HelloButtons)
    BY <2>1
  <2>3. Note.id = "note"
    BY NoteForm
  <2>4. PICK i \in 1 .. 4 : FormById(d, name) = d[i] /\ d[i].type = "form" /\ d[i].id = name
    BY <1>2, <2>2
  <2>5. i \in {1, 2, 3, 4}
    OBVIOUS
  <2>6. FormById(d, name) = Note /\ name = "note"
    BY <1>3, <2>2, <2>3, <2>4, <2>5
  <2> QED
    BY <1>5, <2>6
<1>6. CASE page \notin {"settings", "dashboard"}
  <2>1. d = <<>>
    BY <1>6 DEF DocumentOf
  <2>2. same = {}
    BY <2>1 DEF OfType
  <2> QED
    BY <1>1, <2>2
<1> QED
  BY <1>4, <1>5, <1>6

\* A group of buttons comes from one.
LEMMA ParsedActions ==
  ASSUME NEW s \in SectionsOf(Fields), ParseSection(s).type = "actions"
  PROVE  s.type = "actions"
<1>1. s.type # "form"
  BY ParsedSections
<1>2. \A type : Section(type).type = type
  BY DEF Section
<1>3. ASSUME s.type \in KnownSections \ {"form", "actions"} PROVE FALSE
  BY <1>2, <1>3 DEF ParseSection, KnownSections
<1>4. ASSUME s.type \notin KnownSections PROVE FALSE
  BY <1>2, <1>4 DEF ParseSection, KnownSections
<1> QED
  BY <1>1, <1>3, <1>4

\* Its buttons send the two commands it knows.
LEMMA HelloCommands ==
  ASSUME NEW page, NEW l \in OtherPages \cup {<<>>}, NEW command,
         ButtonByCommand(Parse(DocumentOf("hello", page, l)), command) # None
  PROVE  command \in {"say-hello", "clear"}
<1> DEFINE d == DocumentOf("hello", page, l)
<1>1. d \in Documents
  BY DocumentsAreTyped
<1>2. PICK p : p \in Senders(Parse(d), command)
  BY DEF ButtonByCommand
<1>3. PICK i \in OfType(Parse(d), "actions") :
         \E j \in DOMAIN Parse(d)[i].buttons : Parse(d)[i].buttons[j].command = command
  BY <1>2 DEF Senders
<1>4. i \in DOMAIN d /\ Parse(d)[i] = ParseSection(d[i]) /\ Parse(d)[i].type = "actions"
        /\ d[i] \in SectionsOf(Fields)
  BY <1>1, <1>3, PagesAreTyped DEF OfType
<1>5. d[i].type = "actions"
  BY <1>4, ParsedActions
<1>6. d[i] = Actions(HelloButtons)
  <2>1. (\A type : Section(type).type = type) /\ Greeting.type = "form" /\ Note.type = "form"
    BY NoteForm, GreetingForm DEF Section
  <2>2. CASE page = "settings"
    <3>1. d = <<Section("text"), Greeting>>
      BY <2>2, Zenon DEF DocumentOf
    <3>2. DOMAIN d = 1 .. 2 /\ d[1] = Section("text") /\ d[2] = Greeting
      BY <3>1
    <3>3. i = 1 \/ i = 2
      BY <1>4, <3>2
    <3> QED
      BY <1>5, <2>1, <3>2, <3>3
  <2>3. CASE page = "dashboard"
    <3>1. d = <<Section("stats"), Section("table"), Note, Actions(HelloButtons)>>
      BY <2>3, Zenon DEF DocumentOf
    <3>2. DOMAIN d = 1 .. 4 /\ d[1] = Section("stats") /\ d[2] = Section("table")
            /\ d[3] = Note /\ d[4] = Actions(HelloButtons)
      BY <3>1
    <3>3. i \in {1, 2, 3, 4}
      BY <1>4, <3>2
    <3> QED
      BY <1>5, <2>1, <3>2, <3>3
  <2>4. CASE page \notin {"settings", "dashboard"}
    <3>1. d = <<>>
      BY <2>4 DEF DocumentOf
    <3> QED
      BY <1>4, <3>1
  <2> QED
    BY <2>2, <2>3, <2>4
<1>7. Parse(d)[i].buttons = HelloButtons
  BY <1>4, <1>6, ActionsOfTheExample
<1> QED
  BY <1>3, <1>7, ActionsOfTheExample

\* Values that obey its settings form are taken, but for a choice that was not made.
LEMMA GreetingIsTaken ==
  ASSUME NEW values, \A id \in DOMAIN values : values[id] \in Texts,
         \A i \in DOMAIN Greeting.fields :
            LET v == Submitted(values, Greeting.fields[i].id)
            IN FieldAccepts(Greeting.fields[i], v) \/ TooLong(Greeting.fields[i], v),
         ~ Blank(Submitted(values, "verbosity"))
  PROVE  Takes(values)
<1>1. \A id \in DOMAIN values : Submitted(values, id) = values[id]
  BY DEF Submitted
<1>2. ~ Blank(Submitted(values, "greeting"))
  BY GreetingForm, RequiredTextIsThere
<1>3. LET v == Submitted(values, "repeat")
      IN ~ Blank(v) => v.number # None /\ 1 <= v.number /\ v.number <= 10
  <2>1. FieldAccepts(Greeting.fields[2], Submitted(values, "repeat"))
    BY GreetingForm DEF TooLong
  <2>2. 1 # None /\ 10 # None
    BY NoneAssumption
  <2> QED
    BY <2>1, <2>2, GreetingForm DEF FieldAccepts, Within
<1>4. Trim(Submitted(values, "verbosity")) \in Verbosities
  <2>1. FieldAccepts(Greeting.fields[4], Submitted(values, "verbosity"))
    BY GreetingForm DEF TooLong
  <2> QED
    BY <2>1, GreetingForm DEF FieldAccepts
<1>5. "repeat" \in DOMAIN values /\ ~ Blank(values["repeat"]) =>
         values["repeat"].number # None /\ values["repeat"].number \in 1 .. 10
  <2> SUFFICES ASSUME "repeat" \in DOMAIN values, ~ Blank(values["repeat"])
               PROVE  values["repeat"].number # None /\ values["repeat"].number \in 1 .. 10
    OBVIOUS
  <2>1. values["repeat"].number \in Int \cup {None}
    BY TextsAreTexts DEF AnyText, Optional
  <2> QED
    BY <1>1, <1>3, <2>1
<1> QED
  BY <1>1, <1>2, <1>4, <1>5 DEF Takes

\* The example gets only what it knows how to take, or a dropdown without a choice.
THEOREM ExampleRefusesOnlyMissingOptionsAlways == Spec => []ExampleRefusesOnlyMissingOptions
<1>1. RequestsInv => ExampleRefusesOnlyMissingOptions
  <2> SUFFICES ASSUME RequestsInv, NEW t \in Operators, plugin = "hello", pc[t] = "handling"
               PROVE  \/ req[t].kind = "command" /\ req[t].name \in {"say-hello", "clear"}
                      \/ req[t].kind = "form" /\ BringsNote(t)
                      \/ /\ req[t].kind = "settings"
                         /\ Takes(req[t].values) \/ Blank(Submitted(req[t].values, "verbosity"))
    BY DEF ExampleRefusesOnlyMissingOptions
  <2>1. TypeOK /\ RunsAsOffered(t) /\ ValuesObey(t)
    BY DEF RequestsInv, RequestInv, TypeInv
  <2>2. req[t].kind \in {"command", "form", "settings"}
          /\ (req[t].kind # "command" => (req[t].kind = "settings" <=> req[t].page = "settings"))
    BY DEF RequestsInv, TypeInv, HandledAsDescribed, InHandler
  <2>3. \A d \in Offered(t) : \E l \in OtherPages \cup {<<>>} : d = DocumentOf("hello", req[t].page, l)
    BY <2>1 DEF Offered, TypeOK
  <2>4. CASE req[t].kind = "command"
    <3>1. PICK d \in Offered(t) : ButtonByCommand(Parse(d), req[t].name) # None
      BY <2>1, <2>4 DEF RunsAsOffered, InHandler
    <3> QED
      BY <2>3, <2>4, <3>1, HelloCommands
  <2>5. CASE req[t].kind \in {"form", "settings"}
    <3>1. PICK d \in Offered(t) : Obeys(t, d)
      BY <2>1, <2>5 DEF ValuesObey, InHandler
    <3> DEFINE form == FormById(d, req[t].name)
    <3>2. \/ req[t].kind = "settings" /\ form = Greeting
          \/ req[t].kind = "form" /\ req[t].name = "note" /\ form = Note
      BY <2>2, <2>3, <2>5, <3>1, HelloForms DEF Obeys
    <3>3. \A i \in DOMAIN form.fields :
             LET v == Submitted(req[t].values, form.fields[i].id)
             IN FieldAccepts(form.fields[i], v) \/ TooLong(form.fields[i], v)
      BY <3>1 DEF Obeys
    <3> HIDE DEF form
    <3>4. CASE req[t].kind = "form" /\ req[t].name = "note" /\ form = Note
      <4>1. ~ Blank(Submitted(req[t].values, "text"))
        BY <3>3, <3>4, NoteForm, RequiredTextIsThere
      <4> QED
        BY <3>4, <4>1 DEF BringsNote
    <3>5. CASE req[t].kind = "settings" /\ form = Greeting
      <4>1. \A id \in DOMAIN req[t].values : req[t].values[id] \in Texts
        BY <2>1 DEF TypeOK, IsRequest
      <4> QED
        BY <3>3, <3>5, <4>1, GreetingIsTaken
    <3> QED
      BY <3>2, <3>4, <3>5
  <2> QED
    BY <2>2, <2>4, <2>5
<1> QED
  BY <1>1, RequestsAlways, PTL

-----------------------------------------------------------------------------
(* The count and the list of the example.                                  *)

Counted == {t \in Threads : pc[t] = "counted"}
Clearing == {t \in Threads : pc[t] = "cleared"}
Least(n) == IF n < Rows THEN n ELSE Rows

\* Until a record and a clear overlap, the list is behind the count by the records
\* under way, or empty while a clear is.
ActivityInv ==
    ~ mixed =>
        \/ /\ Clearing = {} /\ Cardinality(Counted) <= seen
           /\ recent = Least(seen - Cardinality(Counted))
        \/ Clearing # {} /\ Counted = {} /\ recent = 0

LEMMA ActivityInit == Init => ActivityInv
<1> SUFFICES ASSUME Init PROVE ActivityInv
  OBVIOUS
<1>1. Clearing = {} /\ Counted = {}
  BY DEF Init, Clearing, Counted
<1>2. seen = 0 /\ recent = 0
  BY DEF Init
<1> QED
  BY <1>1, <1>2, FS_EmptySet, RowsAssumption DEF ActivityInv, Least

LEMMA CountsAreFinite == IsFiniteSet(Counted) /\ Cardinality(Counted) \in Nat
BY ThreadsAssumption, FS_Subset, FS_CardinalityType DEF Counted

LEMMA CountKeepsActivity ==
  ASSUME TypeOK, ActivityInv, Count, NEW t \in Threads, pc[t] \notin {"counted", "cleared"},
         pc' = [pc EXCEPT ![t] = "counted"]
  PROVE  ActivityInv'
<1> SUFFICES ASSUME ~ mixed' PROVE ActivityInv'
  BY DEF ActivityInv
<1>1. ~ mixed /\ Clearing = {}
  BY DEF Count, Clearing
<1>2. Clearing' = {} /\ Counted' = Counted \cup {t} /\ t \notin Counted
  BY <1>1 DEF TypeOK, Clearing, Counted
<1>3. Cardinality(Counted') = Cardinality(Counted) + 1
  BY <1>2, CountsAreFinite, FS_AddElement
<1>4. Cardinality(Counted) <= seen /\ recent = Least(seen - Cardinality(Counted))
  BY <1>1 DEF ActivityInv
<1>5. seen' = seen + 1 /\ recent' = recent /\ seen \in Nat
  BY DEF Count, TypeOK
<1>6. Cardinality(Counted') <= seen' /\ seen' - Cardinality(Counted') = seen - Cardinality(Counted)
  BY <1>3, <1>4, <1>5, CountsAreFinite
<1> QED
  BY <1>2, <1>4, <1>5, <1>6 DEF ActivityInv, Least

LEMMA InsertKeepsActivity ==
  ASSUME TypeOK, ActivityInv, Insert, NEW t \in Threads, pc[t] = "counted",
         pc' = [pc EXCEPT ![t] = pc'[t]], pc'[t] \notin {"counted", "cleared"}
  PROVE  ActivityInv'
<1> SUFFICES ASSUME ~ mixed' PROVE ActivityInv'
  BY DEF ActivityInv
<1>1. ~ mixed /\ t \in Counted
  BY DEF Insert, Counted
<1>2. Clearing = {} /\ Cardinality(Counted) <= seen /\ recent = Least(seen - Cardinality(Counted))
  BY <1>1 DEF ActivityInv
<1>3. Clearing' = {} /\ Counted' = Counted \ {t}
  BY <1>2 DEF TypeOK, Clearing, Counted
<1>4. Cardinality(Counted') = Cardinality(Counted) - 1
  BY <1>1, <1>3, CountsAreFinite, FS_RemoveElement
<1>5. seen' = seen /\ seen \in Nat /\ recent' = IF recent < Rows THEN recent + 1 ELSE Rows
  BY DEF Insert, TypeOK
<1>6. recent' = Least(seen - Cardinality(Counted) + 1)
  BY <1>2, <1>5, CountsAreFinite, RowsAssumption DEF Least
<1>7. seen' - Cardinality(Counted') = seen - Cardinality(Counted) + 1
        /\ Cardinality(Counted') <= seen'
  BY <1>2, <1>4, <1>5, CountsAreFinite
<1> QED
  BY <1>3, <1>6, <1>7 DEF ActivityInv, Least

LEMMA ClearRecentKeepsActivity ==
  ASSUME TypeOK, NEW t \in Operators, ClearRecent(t)
  PROVE  ActivityInv'
<1> SUFFICES ASSUME ~ mixed' PROVE ActivityInv'
  BY DEF ActivityInv
<1>1. Counted = {} /\ recent' = 0 /\ pc' = [pc EXCEPT ![t] = "cleared"] /\ t \in Threads
  BY DEF ClearRecent, Step, Counted, Threads
<1>2. Counted' = {} /\ t \in Clearing'
  BY <1>1 DEF TypeOK, Counted, Clearing
<1> QED
  BY <1>1, <1>2 DEF ActivityInv

LEMMA ClearSeenKeepsActivity ==
  ASSUME TypeOK, ActivityInv, NEW t \in Operators, ClearSeen(t)
  PROVE  ActivityInv'
<1> SUFFICES ASSUME ~ mixed' PROVE ActivityInv'
  BY DEF ActivityInv
<1>1. ~ mixed /\ t \in Clearing
  BY DEF ClearSeen, Clearing, Threads
<1>2. Counted = {} /\ recent = 0
  BY <1>1 DEF ActivityInv
<1>3. pc' = [pc EXCEPT ![t] = pc'[t]] /\ pc'[t] \in {"idle", "get"}
  BY AnswersEnd DEF ClearSeen
<1>4. Counted' = {}
  BY <1>2, <1>3 DEF TypeOK, Counted
<1>5. seen' = 0 /\ recent' = 0
  BY <1>2 DEF ClearSeen
<1>6. Cardinality(Counted') = 0
  BY <1>4, FS_EmptySet
<1> QED
  BY <1>4, <1>5, <1>6, RowsAssumption DEF ActivityInv, Least

LEMMA OthersKeepActivity ==
  ASSUME TypeOK, ActivityInv, UNCHANGED activity,
         \A u \in Threads : pc'[u] = pc[u] \/ {pc[u], pc'[u]} \cap {"counted", "cleared"} = {}
  PROVE  ActivityInv'
<1>1. Counted' = Counted /\ Clearing' = Clearing
  BY DEF Counted, Clearing
<1> QED
  BY <1>1 DEF ActivityInv, activity

LEMMA RequestKeepsActivity ==
  ASSUME TypeOK, ActivityInv, NEW t \in Operators, Request(t)
  PROVE  ActivityInv'
<1>1. CASE Resolve(t) \/ Serve(t)
  <2>1. \A u \in Threads : pc'[u] = pc[u] \/ {pc[u], pc'[u]} \cap {"counted", "cleared"} = {}
    BY <1>1 DEF Resolve, Serve, Finish, TypeOK
  <2> QED
    BY <1>1, <2>1, OthersKeepActivity DEF Resolve, Serve
<1>2. CASE Post(t)
  <2>1. pc[t] = "post" /\ UNCHANGED activity
    BY <1>2 DEF Post
  <2>2. PICK page : NotFound(t, page) \/ Refuse(t, page) \/ Invalid(t, page) \/ Dispatch(t, page)
    BY <1>2 DEF Post
  <2>3. pc' = [pc EXCEPT ![t] = pc'[t]] /\ pc'[t] \in {"idle", "get", "handling"}
    BY <2>2 DEF NotFound, Refuse, Redirect, Invalid, Finish, Dispatch, TypeOK, Threads
  <2>4. \A u \in Threads : pc'[u] = pc[u] \/ {pc[u], pc'[u]} \cap {"counted", "cleared"} = {}
    BY <2>1, <2>3 DEF TypeOK
  <2> QED
    BY <2>1, <2>4, OthersKeepActivity
<1>3. ASSUME NEW actions, NEW how, Answer(t, actions, how), pc[t] = "handling", UNCHANGED activity
      PROVE  ActivityInv'
  <2>1. pc' = [pc EXCEPT ![t] = pc'[t]] /\ pc'[t] \in {"idle", "get"}
    BY <1>3, AnswersEnd
  <2>2. \A u \in Threads : pc'[u] = pc[u] \/ {pc[u], pc'[u]} \cap {"counted", "cleared"} = {}
    BY <1>3, <2>1 DEF TypeOK
  <2> QED
    BY <1>3, <2>2, OthersKeepActivity
<1>4. CASE SayHello(t) \/ ApplySettings(t) \/ RejectSettings(t)
             \/ TemplateHandles(t) \/ OtherHandles(t)
  <2>1. pc[t] = "handling" /\ UNCHANGED activity
    BY <1>4 DEF SayHello, ApplySettings, RejectSettings, TemplateHandles, OtherHandles,
                Handles, pluginVars
  <2>2. \E actions : \E how : Answer(t, actions, how)
    BY <1>4 DEF SayHello, ApplySettings, RejectSettings, TemplateHandles, OtherHandles
  <2> QED
    BY <1>3, <2>1, <2>2
<1>5. CASE ClearRecent(t)
  BY <1>5, ClearRecentKeepsActivity
<1>6. CASE ClearSeen(t)
  BY <1>6, ClearSeenKeepsActivity
<1>7. CASE CountNote(t)
  <2>1. Count /\ pc[t] = "handling" /\ pc' = [pc EXCEPT ![t] = "counted"]
    BY <1>7 DEF CountNote, Handles, Step
  <2> QED
    BY <2>1, CountKeepsActivity DEF Threads
<1>8. CASE InsertNote(t)
  <2>1. Insert /\ pc[t] = "counted" /\ pc' = [pc EXCEPT ![t] = pc'[t]] /\ pc'[t] \in {"idle", "get"}
    BY <1>8, AnswersEnd DEF InsertNote
  <2> QED
    BY <2>1, InsertKeepsActivity DEF Threads
<1> QED
  BY <1>1, <1>2, <1>4, <1>5, <1>6, <1>7, <1>8 DEF Request

LEMMA ActivityStep == TypeInv /\ ActivityInv /\ [Next]_vars => ActivityInv'
<1> SUFFICES ASSUME TypeOK, ActivityInv, [Next]_vars PROVE ActivityInv'
  BY DEF TypeInv
<1>1. ASSUME NEW t \in Operators, Browse(t) PROVE ActivityInv'
  <2>1. UNCHANGED activity
    BY <1>1 DEF Browse, Get, Press, Submit, Send, pluginVars
  <2>2. \A u \in Threads : pc'[u] = pc[u] \/ {pc[u], pc'[u]} \cap {"counted", "cleared"} = {}
    BY <1>1 DEF Browse, Get, Press, Submit, Send, TypeOK
  <2> QED
    BY <2>1, <2>2, OthersKeepActivity
<1>2. ASSUME NEW t \in Operators, Request(t) PROVE ActivityInv'
  BY <1>2, RequestKeepsActivity
<1>3. ASSUME NEW t \in Feeders, Feed(t) PROVE ActivityInv'
  <2>1. CASE CountEvent(t)
    BY <2>1, CountKeepsActivity DEF CountEvent, Step, Threads
  <2>2. CASE InsertEvent(t)
    <3>1. Insert /\ pc[t] = "counted" /\ pc' = [pc EXCEPT ![t] = "idle"] /\ t \in Threads
      BY <2>2 DEF InsertEvent, Step, Threads
    <3>2. pc' = [pc EXCEPT ![t] = pc'[t]] /\ pc'[t] = "idle"
      BY <3>1 DEF TypeOK
    <3> QED
      BY <3>1, <3>2, InsertKeepsActivity
  <2> QED
    BY <1>3, <2>1, <2>2 DEF Feed
<1>4. ASSUME Relayout \/ UNCHANGED vars PROVE ActivityInv'
  BY <1>4, OthersKeepActivity DEF Relayout, vars, pluginVars, threadVars
<1> QED
  BY <1>1, <1>2, <1>3, <1>4 DEF Next

\* The count and the list agree unless a record and a clear have overlapped.
THEOREM UndisturbedActivityAgreesAlways == Spec => []UndisturbedActivityAgrees
<1>1. Spec => []TypeInv
  BY TypeInit, NextKeepsTypes, PTL DEF Spec
<1>2. Spec => []ActivityInv
  BY <1>1, ActivityInit, ActivityStep, PTL DEF Spec
<1>3. TypeInv /\ ActivityInv => UndisturbedActivityAgrees
  <2> SUFFICES ASSUME TypeOK, ActivityInv, ~ mixed,
                      \A t \in Threads : pc[t] \notin {"counted", "cleared"}
               PROVE  recent = IF seen < Rows THEN seen ELSE Rows
    BY DEF UndisturbedActivityAgrees, TypeInv
  <2>1. Counted = {} /\ Clearing = {}
    BY DEF Counted, Clearing
  <2>2. Cardinality(Counted) = 0
    BY <2>1, FS_EmptySet
  <2> QED
    BY <2>1, <2>2 DEF ActivityInv, Least, TypeOK
<1> QED
  BY <1>1, <1>2, <1>3, PTL
=============================================================================
