------------------------- MODULE SettingsFormProofs --------------------------
(***************************************************************************)
(* Proofs about SettingsForm, for any form and any texts.                  *)
(***************************************************************************)
EXTENDS SettingsForm, TLAPS

\* A field is of one of the five kinds, and each kind has its own values.
LEMMA KindsAreDeclared ==
  ASSUME NEW f \in Fields
  PROVE  /\ Kind(f) \in {"text", "secret", "number", "toggle", "select"}
         /\ Kind(f) \in {"text", "secret"} => Default(f) \in Texts
         /\ Kind(f) = "number" => Schema[f].type \subseteq Int /\ Default(f) \in Schema[f].type
         /\ Kind(f) = "toggle" => Default(f) \in BOOLEAN
         /\ Kind(f) = "select" => Options(f) \subseteq Names \ {""} /\ Default(f) \in Options(f)
<1>1. Declared(Schema[f])
  BY SchemaAssumption
<1> QED
  BY <1>1 DEF Declared, Kind, Default, Options

\* A word without white space is a text.
LEMMA WordsAreTexts == \A w \in Names : Plain(Word(w)) \in Texts
BY DEF Plain, Word, Texts, Cores

\* Whatever is stored, load gives a value of the field's type.
LEMMA LoadIsTyped ==
  ASSUME NEW f \in Fields, NEW t \in Texts \cup {Absent}
  PROVE  Load(f, t) \in ValuesOf(f)
<1>1. CASE Kind(f) \in {"text", "secret"}
  BY <1>1, KindsAreDeclared, AbsentAssumption DEF Load, ValuesOf
<1>2. CASE Kind(f) = "number"
  BY <1>2, KindsAreDeclared DEF Load, ValuesOf, Reads
<1>3. CASE Kind(f) = "toggle"
  BY <1>3, KindsAreDeclared DEF Load, ValuesOf
<1>4. CASE Kind(f) = "select"
  <2>1. Chooses(f, t) => t.core.w \in Options(f)
    BY DEF Chooses, Word
  <2> QED
    BY <1>4, <2>1, KindsAreDeclared DEF Load, ValuesOf
<1> QED
  BY <1>1, <1>2, <1>3, <1>4, KindsAreDeclared

\* The text of a value is a text, and loading it gives the value back.
LEMMA LoadInvertsToText ==
  ASSUME NEW f \in Fields, NEW v \in ValuesOf(f)
  PROVE  ToText(f, v) \in Texts /\ Load(f, ToText(f, v)) = v
<1>1. CASE Kind(f) \in {"text", "secret"}
  BY <1>1, AbsentAssumption DEF Load, ValuesOf, ToText
<1>2. CASE Kind(f) = "number"
  <2>1. v \in Schema[f].type /\ v \in Int /\ ToText(f, v) = Plain(Number(v))
    BY <1>2, KindsAreDeclared DEF ValuesOf, ToText
  <2>2. Plain(Number(v)) \in Texts
    BY <2>1 DEF Plain, Number, Texts, Cores
  <2>3. Reads(Plain(Number(v)), Schema[f].type) /\ Plain(Number(v)).core.n = v
    BY <2>1 DEF Plain, Number, Reads
  <2> QED
    BY <1>2, <2>1, <2>2, <2>3, AbsentAssumption DEF Load
<1>3. CASE Kind(f) = "toggle"
  <2>1. v \in BOOLEAN /\ ToText(f, v) = Plain(Word(IF v THEN "true" ELSE "false"))
    BY <1>3, KindsAreDeclared DEF ValuesOf, ToText
  <2>2. Plain(Word("true")) \in Texts /\ Plain(Word("false")) \in Texts
    BY WordsAreTexts, NamesAssumption
  <2>3. Plain(Word("true")).core = Word("true") /\ Plain(Word("false")).core = Word("false")
    BY DEF Plain
  <2>4. Word("true") # Word("false")
    BY DEF Word
  <2>5. CASE v = TRUE
    BY <1>3, <2>1, <2>2, <2>3, <2>5, AbsentAssumption DEF Load
  <2>6. CASE v = FALSE
    BY <1>3, <2>1, <2>2, <2>3, <2>4, <2>6, AbsentAssumption DEF Load
  <2> QED
    BY <2>1, <2>5, <2>6
<1>4. CASE Kind(f) = "select"
  <2>1. v \in Options(f) /\ v \in Names /\ ToText(f, v) = Plain(Word(v))
    BY <1>4, KindsAreDeclared DEF ValuesOf, ToText
  <2>2. Plain(Word(v)) \in Texts
    BY <2>1, WordsAreTexts
  <2>3. Chooses(f, Plain(Word(v))) /\ Plain(Word(v)).core.w = v
    BY <2>1 DEF Chooses, Plain, Word
  <2> QED
    BY <1>4, <2>1, <2>2, <2>3, AbsentAssumption DEF Load
<1> QED
  BY <1>1, <1>2, <1>3, <1>4, KindsAreDeclared

\* A text update accepts gives a value of the field's type.
LEMMA ParsedIsTyped ==
  ASSUME NEW f \in Fields, NEW t \in Texts, Parses(f, t), NEW v \in ValuesOf(f)
  PROVE  Parsed(f, t, v) \in ValuesOf(f)
<1>1. CASE Kind(f) \in {"text", "secret"}
  BY <1>1 DEF Parsed, ValuesOf
<1>2. CASE Kind(f) = "number"
  BY <1>2 DEF Parsed, ValuesOf, Parses, ParsesNumber
<1>3. CASE Kind(f) = "toggle"
  BY <1>3 DEF Parsed, ValuesOf
<1>4. CASE Kind(f) = "select"
  <2>1. Chooses(f, t)
    BY <1>4 DEF Parses
  <2>2. t.core.w \in Options(f)
    BY <2>1 DEF Chooses, Word
  <2> QED
    BY <1>4, <2>2 DEF Parsed, ValuesOf
<1> QED
  BY <1>1, <1>2, <1>3, <1>4, KindsAreDeclared

\* What the controller hands on are texts.
LEMMA CollectIsTyped ==
  ASSUME NEW post \in Posts
  PROVE  Collect(post) \in [Fields -> Texts \cup {Absent}]
<1> SUFFICES ASSUME NEW f \in Fields
             PROVE  Collect(post)[f] \in Texts \cup {Absent}
  BY DEF Collect
<1>1. post[f] \in Texts \cup {Absent}
  BY InputsAssumption DEF Posts
<1>2. Empty \in Texts
  BY WordsAreTexts, NamesAssumption DEF Empty
<1>3. CASE Kind(f) = "toggle"
  <2>1. (post[f] # Absent) \in ValuesOf(f)
    BY <1>3 DEF ValuesOf
  <2>2. ToText(f, post[f] # Absent) \in Texts
    BY <2>1, LoadInvertsToText
  <2> QED
    BY <1>3, <2>2 DEF Collect
<1>4. CASE Kind(f) # "toggle"
  BY <1>1, <1>2, <1>4 DEF Collect
<1> QED
  BY <1>3, <1>4

\* The inductive invariant: a restart keeps the settings because they have their
\* types, so that each one's text loads back.
FInv == TypeOK /\ RestartKeepsSettings

LEMMA InitEstablishesFInv == Init => FInv
<1> SUFFICES ASSUME Init PROVE FInv
  OBVIOUS
<1>1. stored \in [Fields -> Texts \cup {Absent}]
  <2>1. stored \in [Fields -> UNION {Inputs[f] : f \in Fields} \cup {Absent}]
    BY DEF Init, Posts
  <2>2. \A f \in Fields : stored[f] \in Texts \cup {Absent}
    BY InputsAssumption DEF Init, Posts
  <2> QED
    BY <2>1, <2>2
<1>2. \A f \in Fields : settings[f] = Load(f, stored[f]) /\ settings[f] \in ValuesOf(f)
  BY <1>1, LoadIsTyped DEF Init
<1> QED
  BY <1>1, <1>2 DEF Init, FInv, TypeOK, RestartKeepsSettings

LEMMA SaveKeepsFInv ==
  ASSUME FInv, NEW post \in Posts, Save(post)
  PROVE  FInv'
<1> DEFINE values == Collect(post)
<1> DEFINE base == IF FromValues THEN Defaults ELSE settings
<1>1. values \in [Fields -> Texts \cup {Absent}]
  BY CollectIsTyped
<1>2. \A f \in Fields : base[f] \in ValuesOf(f)
  <2>1. \A f \in Fields : Default(f) \in ValuesOf(f)
    BY KindsAreDeclared DEF ValuesOf
  <2> QED
    BY <2>1 DEF Defaults, FInv, TypeOK
<1>3. \A f \in Fields : settings'[f] \in ValuesOf(f)
  <2> SUFFICES ASSUME NEW f \in Fields PROVE settings'[f] \in ValuesOf(f)
    OBVIOUS
  <2>1. settings'[f] = IF values[f] = Absent THEN base[f] ELSE Parsed(f, values[f], base[f])
    BY DEF Save, Updated, Onto
  <2>2. values[f] # Absent => Parses(f, values[f]) /\ values[f] \in Texts
    BY <1>1 DEF Save, PluginAccepts
  <2> HIDE DEF values, base
  <2> QED
    BY <2>1, <2>2, <1>2, ParsedIsTyped
<1>4. \A f \in Fields : stored'[f] = ToText(f, settings'[f])
  BY DEF Save, ToValues
<1>5. \A f \in Fields : stored'[f] \in Texts /\ Load(f, stored'[f]) = settings'[f]
  BY <1>3, <1>4, LoadInvertsToText
<1>6. stored' \in [Fields -> Texts \cup {Absent}]
  BY <1>5 DEF Save, ToValues
<1>7. settings' = [f \in Fields |-> settings'[f]]
  BY DEF Save, Updated, Onto
<1> QED
  BY <1>1, <1>3, <1>5, <1>6, <1>7 DEF Save, FInv, TypeOK, RestartKeepsSettings

LEMMA RestartKeepsFInv ==
  ASSUME FInv, Restart
  PROVE  FInv'
<1>1. \A f \in Fields : settings'[f] = Load(f, stored'[f])
  BY DEF Restart
<1>2. settings' = [f \in Fields |-> settings'[f]] /\ stored' \in [Fields -> Texts \cup {Absent}]
  BY DEF Restart, FInv, TypeOK
<1>3. \A f \in Fields : settings'[f] \in ValuesOf(f)
  BY <1>1, <1>2, LoadIsTyped
<1> QED
  BY <1>1, <1>2, <1>3 DEF Restart, FInv, TypeOK, RestartKeepsSettings

LEMMA NextKeepsFInv == FInv /\ [Next]_vars => FInv'
<1> SUFFICES ASSUME FInv, [Next]_vars PROVE FInv'
  OBVIOUS
<1>1. CASE UNCHANGED vars
  BY <1>1 DEF vars, FInv, TypeOK, RestartKeepsSettings
<1>2. ASSUME NEW post \in Posts, Refuse(post) \/ Reject(post)
      PROVE  FInv'
  BY <1>2, CollectIsTyped DEF Refuse, Reject, FInv, TypeOK, RestartKeepsSettings
<1> QED
  BY <1>1, <1>2, SaveKeepsFInv, RestartKeepsFInv DEF Next

LEMMA FInvHolds == Spec => []FInv
BY InitEstablishesFInv, NextKeepsFInv, PTL DEF Spec

\* Every setting has its Rust type, and what is stored are texts.
THEOREM TypeCorrect == Spec => []TypeOK
<1>1. FInv => TypeOK
  BY DEF FInv
<1> QED
  BY <1>1, FInvHolds, PTL

\* Whatever form a plugin declares and whatever is typed into it, a restart loads
\* the settings the plugin was running with.
THEOREM RestartKeepsSettingsAlways == Spec => []RestartKeepsSettings
<1>1. FInv => RestartKeepsSettings
  BY DEF FInv
<1> QED
  BY <1>1, FInvHolds, PTL

\* A plugin that parses with update keeps every secret the operator left empty.
THEOREM OmittedSecretIsKeptByUpdate ==
  ASSUME FromValues = FALSE
  PROVE  Spec => OmittedSecretIsKept
<1> DEFINE Kept == \A f \in Fields : Kind(f) = "secret" /\ reply' = "saved" /\ sub'[f] = Absent
                       => settings'[f] = settings[f]
<1>1. [Next]_vars => [Kept]_vars
  <2> SUFFICES ASSUME Next PROVE Kept
    OBVIOUS
  <2>1. ASSUME NEW post \in Posts, Refuse(post) \/ Reject(post) PROVE Kept
    BY <2>1 DEF Refuse, Reject
  <2>2. ASSUME NEW post \in Posts, Save(post) PROVE Kept
    BY <2>2 DEF Save, Updated, Onto
  <2>3. CASE Restart
    BY <2>3 DEF Restart
  <2> QED
    BY <2>1, <2>2, <2>3 DEF Next
<1> QED
  BY <1>1, PTL DEF Spec, OmittedSecretIsKept

-----------------------------------------------------------------------------
(* What an untouched form submits.                                         *)

\* The text of a number or of a toggle is not blank.
LEMMA NumbersAreNotBlank == \A n : ~ Blank(Plain(Number(n)))
<1>1. \A n, w : Plain(Number(n)).core # Word(w)
  BY DEF Plain, Number, Word
<1> QED
  BY <1>1, Zenon DEF Blank

LEMMA TogglesAreNotBlank == ~ Blank(Plain(Word("true"))) /\ ~ Blank(Plain(Word("false")))
<1>1. \A v, w : Plain(Word(v)).core = Word(w) => v = w
  BY DEF Plain, Word
<1>2. "true" # "" /\ "false" # ""
  BY Zenon
<1> QED
  BY <1>1, <1>2, Zenon DEF Blank

\* A form posted back as rendered submits each value's text, and no secret.
LEMMA UntouchedTexts ==
  ASSUME NEW s, NEW f \in Fields, s[f] \in ValuesOf(f)
  PROVE  LET t == Collect(Untouched(s))[f]
         IN IF Kind(f) = "secret" THEN t = Absent ELSE t = ToText(f, s[f]) /\ t # Absent
<1> DEFINE post == Untouched(s)
<1>1. ToText(f, s[f]) # Absent
  BY LoadInvertsToText, AbsentAssumption
<1>2. CASE Kind(f) = "secret"
  <2>1. post[f] = Empty
    BY <1>2 DEF Untouched
  <2>2. Collect(post)[f] = IF post[f] \in {Empty, Absent} THEN Absent ELSE post[f]
    BY <1>2 DEF Collect
  <2> QED
    BY <1>2, <2>1, <2>2
<1>3. CASE Kind(f) = "toggle"
  <2>1. s[f] \in BOOLEAN
    BY <1>3 DEF ValuesOf
  <2>2. Plain(Word("true")) # Absent
    BY WordsAreTexts, NamesAssumption, AbsentAssumption, Zenon
  <2>3. post[f] = IF s[f] THEN Plain(Word("true")) ELSE Absent
    BY <1>3 DEF Untouched
  <2>4. Collect(post)[f] = ToText(f, post[f] # Absent)
    BY <1>3 DEF Collect
  <2>5. (post[f] # Absent) = s[f]
    BY <2>1, <2>2, <2>3
  <2> QED
    BY <1>1, <1>3, <2>4, <2>5
<1>4. CASE Kind(f) \in {"text", "number", "select"}
  <2>1. post[f] = ToText(f, s[f])
    BY <1>4 DEF Untouched
  <2>2. Collect(post)[f] = IF post[f] = Absent THEN Empty ELSE post[f]
    BY <1>4 DEF Collect
  <2> QED
    BY <1>1, <1>4, <2>1, <2>2
<1> QED
  BY <1>2, <1>3, <1>4, KindsAreDeclared

\* update reads the text of a value as that value, whatever it was before.
LEMMA ParsedInvertsToText ==
  ASSUME NEW f \in Fields, NEW v \in ValuesOf(f), NEW w
  PROVE  Parsed(f, ToText(f, v), w) = v
<1>1. CASE Kind(f) \in {"text", "secret"}
  BY <1>1 DEF Parsed, ToText
<1>2. CASE Kind(f) = "number"
  BY <1>2, NumbersAreNotBlank DEF Parsed, ToText, Plain, Number
<1>3. CASE Kind(f) = "toggle"
  BY <1>3 DEF Parsed, ToText, ValuesOf, Plain, Word
<1>4. CASE Kind(f) = "select"
  BY <1>4 DEF Parsed, ToText, Plain, Word
<1> QED
  BY <1>1, <1>2, <1>3, <1>4, KindsAreDeclared

\* With update, or without secrets, Save on an untouched form changes no setting.
THEOREM UntouchedFormChangesNothingAlways ==
  ASSUME FromValues = FALSE \/ \A f \in Fields : Kind(f) # "secret"
  PROVE  Spec => []UntouchedFormChangesNothing
<1>1. TypeOK => UntouchedFormChangesNothing
  <2> SUFFICES ASSUME TypeOK
               PROVE  Updated(Collect(Untouched(settings))) = settings
    BY DEF UntouchedFormChangesNothing
  <2> DEFINE values == Collect(Untouched(settings))
             base == IF FromValues THEN Defaults ELSE settings
  <2>1. ASSUME NEW f \in Fields
        PROVE  (IF values[f] = Absent THEN base[f] ELSE Parsed(f, values[f], base[f])) = settings[f]
    <3>1. settings[f] \in ValuesOf(f)
      BY DEF TypeOK
    <3>2. CASE Kind(f) = "secret"
      BY <3>1, <3>2, UntouchedTexts
    <3>3. CASE Kind(f) # "secret"
      <4>1. values[f] = ToText(f, settings[f]) /\ values[f] # Absent
        BY <3>1, <3>3, UntouchedTexts
      <4> HIDE DEF values, base
      <4> QED
        BY <3>1, <4>1, ParsedInvertsToText
    <3> QED
      BY <3>2, <3>3
  <2>2. Updated(values) = [f \in Fields |->
           IF values[f] = Absent THEN base[f] ELSE Parsed(f, values[f], base[f])]
    BY DEF Updated, Onto
  <2> HIDE DEF values, base
  <2>3. Updated(values) = [f \in Fields |-> settings[f]]
    BY <2>1, <2>2
  <2> QED
    BY <2>3 DEF TypeOK, values
<1>2. Spec => []TypeOK
  BY TypeCorrect
<1> QED
  BY <1>1, <1>2, PTL
-----------------------------------------------------------------------------
(* The two validations.                                                    *)

\* A blank text is no option.
LEMMA BlankChoosesNothing ==
  ASSUME NEW f \in Fields, Kind(f) = "select", NEW t, Blank(t)
  PROVE  ~ Chooses(f, t)
<1>1. "" \notin Options(f)
  BY KindsAreDeclared
<1>2. ASSUME NEW o \in Options(f), t.core = Word(o) PROVE FALSE
  <2>1. Word(o) = Word("")
    BY <1>2 DEF Blank
  <2> QED
    BY <1>1, <2>1 DEF Word
<1>3. ~ \E o \in Options(f) : t.core = Word(o)
  BY <1>2
<1> QED
  BY <1>3 DEF Chooses

\* Collect omits nothing but secrets.
LEMMA OmittedIsSecret ==
  ASSUME NEW post \in Posts, NEW f \in Fields, Collect(post)[f] = Absent
  PROVE  Kind(f) = "secret"
<1>1. CASE Kind(f) = "toggle"
  <2>1. Collect(post)[f] = ToText(f, post[f] # Absent)
    BY <1>1 DEF Collect
  <2>2. ToText(f, post[f] # Absent) \in Texts
    <3>1. (post[f] # Absent) \in ValuesOf(f)
      BY <1>1 DEF ValuesOf
    <3> QED
      BY <3>1, LoadInvertsToText
  <2> QED
    BY <2>1, <2>2, AbsentAssumption
<1>2. CASE Kind(f) \in {"text", "number", "select"}
  <2>1. Empty \in Texts
    BY WordsAreTexts, NamesAssumption, Zenon DEF Empty
  <2>2. Collect(post)[f] = IF post[f] = Absent THEN Empty ELSE post[f]
    BY <1>2 DEF Collect
  <2> QED
    BY <2>1, <2>2, AbsentAssumption
<1> QED
  BY <1>1, <1>2, KindsAreDeclared

\* A toggle is submitted as one of its two words.
LEMMA CollectedToggles ==
  ASSUME NEW post, NEW f \in Fields, Kind(f) = "toggle"
  PROVE  ~ Blank(Collect(post)[f])
<1>1. Collect(post)[f] = Plain(Word(IF post[f] # Absent THEN "true" ELSE "false"))
  BY DEF Collect, ToText
<1> QED
  BY <1>1, TogglesAreNotBlank

\* What the host refuses, update refuses.
LEMMA RefusedIsNotAccepted ==
  ASSUME NEW post \in Posts, NEW f \in Fields, ~ HostAcceptsField(f, Collect(post)[f])
  PROVE  Collect(post)[f] # Absent /\ ~ Parses(f, Collect(post)[f])
<1> DEFINE t == Collect(post)[f]
<1>1. CASE t = Absent
  BY <1>1, OmittedIsSecret DEF HostAcceptsField
<1>2. CASE t # Absent /\ Blank(t)
  <2>1. Schema[f].required /\ Kind(f) # "secret" /\ Kind(f) # "toggle"
    BY <1>2, CollectedToggles DEF HostAcceptsField
  <2>2. CASE Kind(f) = "select"
    BY <1>2, <2>2, BlankChoosesNothing DEF Parses
  <2> QED
    BY <1>2, <2>1, <2>2, KindsAreDeclared DEF Parses
<1>3. CASE t # Absent /\ ~ Blank(t)
  <2> HIDE DEF t
  <2>1. CASE Kind(f) = "number" /\ ~ (Reads(t, HostNumbers) /\ InBounds(f, t.core.n))
    BY <1>3, <2>1 DEF Parses, ParsesNumber, t
  <2>2. CASE Kind(f) = "select" /\ ~ Chooses(f, t)
    BY <1>3, <2>2 DEF Parses, t
  <2> QED
    BY <1>3, <2>1, <2>2 DEF HostAcceptsField, t
<1> QED
  BY <1>1, <1>2, <1>3

\* What the host lets through and update refuses is one of the two known cases.
LEMMA RejectedSlipsThrough ==
  ASSUME NEW f \in Fields, NEW t, t # Absent, HostAcceptsField(f, t), ~ Parses(f, t)
  PROVE  SlipsThrough(f, t)
<1>1. CASE Blank(t)
  BY <1>1 DEF HostAcceptsField, Parses, SlipsThrough
<1>2. CASE ~ Blank(t)
  BY <1>2 DEF HostAcceptsField, Parses, ParsesNumber, Reads, SlipsThrough
<1> QED
  BY <1>1, <1>2

\* The controller's validation and the derive's agree up to SlipsThrough.
THEOREM ValidationsAgreeAlways == Spec => []ValidationsAgree
<1>1. Init => ValidationsAgree
  BY DEF Init, ValidationsAgree
<1>2. ValidationsAgree /\ [Next]_vars => ValidationsAgree'
  <2> SUFFICES ASSUME ValidationsAgree, [Next]_vars PROVE ValidationsAgree'
    OBVIOUS
  <2>1. ASSUME NEW post \in Posts, Refuse(post) PROVE ValidationsAgree'
    <3>1. PICK f \in Fields : ~ HostAcceptsField(f, Collect(post)[f])
      BY <2>1 DEF Refuse, HostAccepts
    <3>2. ~ PluginAccepts(Collect(post))
      BY <3>1, RefusedIsNotAccepted DEF PluginAccepts
    <3>3. sub' = Collect(post) /\ reply' = "invalid"
      BY <2>1 DEF Refuse
    <3> QED
      BY <3>2, <3>3 DEF ValidationsAgree, PluginAccepts
  <2>2. ASSUME NEW post \in Posts, Reject(post) PROVE ValidationsAgree'
    <3>1. PICK f \in Fields : Collect(post)[f] # Absent /\ ~ Parses(f, Collect(post)[f])
      BY <2>2 DEF Reject, PluginAccepts
    <3>2. SlipsThrough(f, Collect(post)[f])
      BY <2>2, <3>1, RejectedSlipsThrough DEF Reject, HostAccepts
    <3>3. sub' = Collect(post) /\ reply' = "rejected"
      BY <2>2 DEF Reject
    <3> QED
      BY <3>2, <3>3 DEF ValidationsAgree, SlipsThrough
  <2>3. ASSUME NEW post \in Posts, Save(post) PROVE ValidationsAgree'
    BY <2>3 DEF Save, ValidationsAgree
  <2>4. CASE Restart
    BY <2>4 DEF Restart, ValidationsAgree
  <2>5. CASE UNCHANGED vars
    BY <2>5 DEF vars, ValidationsAgree, PluginAccepts, SlipsThrough
  <2> QED
    BY <2>1, <2>2, <2>3, <2>4, <2>5 DEF Next
<1> QED
  BY <1>1, <1>2, PTL DEF Spec

\* A value that update took from a submission, a number that was filled in, passes
\* both validations when it is submitted again.
LEMMA AcceptedAgain ==
  ASSUME NEW f \in Fields, NEW t \in Texts, NEW w \in ValuesOf(f),
         HostAcceptsField(f, t), Parses(f, t),
         Kind(f) # "secret", Kind(f) = "number" => ~ Blank(t)
  PROVE  LET again == ToText(f, Parsed(f, t, w))
         IN HostAcceptsField(f, again) /\ Parses(f, again)
<1> DEFINE again == ToText(f, Parsed(f, t, w))
<1>1. CASE Kind(f) = "text"
  BY <1>1 DEF ToText, Parsed
<1>2. CASE Kind(f) = "select"
  <2>1. Chooses(f, t)
    BY <1>2 DEF Parses
  <2>2. PICK o \in Options(f) : t.core = Word(o)
    BY <2>1 DEF Chooses
  <2>3. again = Plain(Word(o)) /\ again.core = Word(o)
    BY <1>2, <2>2 DEF ToText, Parsed, Plain, Word
  <2>4. Chooses(f, again) /\ ~ Blank(again)
    BY <1>2, <2>2, <2>3, BlankChoosesNothing DEF Chooses
  <2>5. again # Absent
    BY <1>2, <2>2, <2>3, WordsAreTexts, KindsAreDeclared, AbsentAssumption
  <2> QED
    BY <1>2, <2>4, <2>5 DEF HostAcceptsField, Parses
<1>3. CASE Kind(f) = "toggle"
  <2>1. again = Plain(Word("true")) \/ again = Plain(Word("false"))
    BY <1>3 DEF ToText
  <2>2. ~ Blank(again)
    BY <2>1, TogglesAreNotBlank
  <2>3. again # Absent
    BY <2>1, WordsAreTexts, NamesAssumption, AbsentAssumption, Zenon
  <2> HIDE DEF again
  <2>4. HostAcceptsField(f, again) /\ Parses(f, again)
    BY <1>3, <2>2, <2>3 DEF HostAcceptsField, Parses
  <2> QED
    BY <2>4 DEF again
<1>4. CASE Kind(f) = "number"
  <2>1. ParsesNumber(f, t) /\ Parsed(f, t, w) = t.core.n
    BY <1>4 DEF Parses, Parsed
  <2>2. again = Plain(Number(t.core.n))
    BY <1>4, <2>1 DEF ToText
  <2>3. again.core.is = "number" /\ again.core.n = t.core.n
    BY <2>2 DEF Plain, Number
  <2>4. ParsesNumber(f, again)
    BY <2>1, <2>3 DEF ParsesNumber, Reads
  <2>5. ~ Blank(again)
    BY <2>2, NumbersAreNotBlank
  <2>6. again # Absent
    <3>1. t.core.n \in ValuesOf(f)
      BY <1>4, <2>1 DEF ParsesNumber, ValuesOf
    <3> QED
      BY <2>1, <3>1, LoadInvertsToText, AbsentAssumption
  <2> HIDE DEF again
  <2>7. HostAcceptsField(f, again) /\ Parses(f, again)
    BY <1>4, <2>4, <2>5, <2>6 DEF HostAcceptsField, Parses, ParsesNumber
  <2> QED
    BY <2>7 DEF again
<1> QED
  BY <1>1, <1>2, <1>3, <1>4, KindsAreDeclared

\* What from_values took of a field, and to_values wrote, from_values takes again, unless
\* it is the field's default: a number submitted blank stays at that, in bounds or not.
\* It is what SettingsSave assumes of any form (RewrittenAssumption).
THEOREM WrittenIsTakenAgain ==
  ASSUME NEW f \in Fields, NEW t \in Texts, Parses(f, t)
  PROVE  LET again == ToText(f, Parsed(f, t, Default(f)))
         IN Parses(f, again) \/ again = ToText(f, Default(f))
<1> DEFINE again == ToText(f, Parsed(f, t, Default(f)))
<1>1. CASE Kind(f) \in {"text", "secret"}
  BY <1>1 DEF ToText, Parsed
<1>2. CASE Kind(f) = "toggle"
  BY <1>2 DEF Parses
<1>3. CASE Kind(f) = "select"
  <2>1. PICK o \in Options(f) : t.core = Word(o)
    BY <1>3 DEF Parses, Chooses
  <2>2. again.core = Word(o)
    BY <1>3, <2>1 DEF ToText, Parsed, Plain, Word
  <2> QED
    BY <1>3, <2>2 DEF Parses, Chooses
<1>4. CASE Kind(f) = "number" /\ Blank(t)
  BY <1>4 DEF Parsed
<1>5. CASE Kind(f) = "number" /\ ~ Blank(t)
  <2>1. ParsesNumber(f, t) /\ again = Plain(Number(t.core.n))
    BY <1>5 DEF Parses, Parsed, ToText
  <2>2. ~ Blank(again)
    BY <2>1, NumbersAreNotBlank
  <2>3. again.core.is = "number" /\ again.core.n = t.core.n
    BY <2>1 DEF Plain, Number
  <2>4. ParsesNumber(f, again)
    BY <2>1, <2>3 DEF ParsesNumber, Reads
  <2> HIDE DEF again
  <2>5. Parses(f, again)
    BY <1>5, <2>2, <2>4 DEF Parses
  <2> QED
    BY <2>5 DEF again
<1> QED
  BY <1>1, <1>2, <1>3, <1>4, <1>5, KindsAreDeclared

\* A form that was saved with its numbers filled in can be saved again as it is
\* rendered next.
THEOREM SavedFormsCanBeSavedAgainAlways == Spec => []SavedFormsCanBeSavedAgain
<1>1. Init => SavedFormsCanBeSavedAgain
  BY DEF Init, SavedFormsCanBeSavedAgain
<1>2. FInv /\ SavedFormsCanBeSavedAgain /\ [Next]_vars => SavedFormsCanBeSavedAgain'
  <2> SUFFICES ASSUME FInv, SavedFormsCanBeSavedAgain, [Next]_vars
               PROVE  SavedFormsCanBeSavedAgain'
    OBVIOUS
  <2>1. ASSUME NEW post \in Posts, Save(post) PROVE SavedFormsCanBeSavedAgain'
    <3> DEFINE values == Collect(post)
               base == IF FromValues THEN Defaults ELSE settings
               again == Collect(Untouched(settings'))
    <3>1. sub' = values /\ settings' = Updated(values) /\ HostAccepts(values) /\ PluginAccepts(values)
      BY <2>1 DEF Save
    <3>2. values \in [Fields -> Texts \cup {Absent}]
      BY CollectIsTyped
    <3>3. \A f \in Fields : settings'[f] \in ValuesOf(f)
      BY <2>1, SaveKeepsFInv DEF FInv, TypeOK
    <3>4. \A f \in Fields : base[f] \in ValuesOf(f)
      <4>1. \A f \in Fields : Default(f) \in ValuesOf(f)
        BY KindsAreDeclared DEF ValuesOf
      <4> QED
        BY <4>1 DEF Defaults, FInv, TypeOK
    <3>5. ASSUME NEW f \in Fields, Kind(f) = "number" => ~ Blank(values[f])
          PROVE  HostAcceptsField(f, again[f]) /\ (again[f] # Absent => Parses(f, again[f]))
      <4>1. CASE Kind(f) = "secret"
        <5>1. again[f] = Absent
          BY <3>3, <4>1, UntouchedTexts
        <5> QED
          BY <4>1, <5>1 DEF HostAcceptsField
      <4>2. CASE Kind(f) # "secret"
        <5>1. values[f] # Absent
          BY <4>2, OmittedIsSecret
        <5>2. settings'[f] = Parsed(f, values[f], base[f])
          BY <3>1, <5>1 DEF Updated, Onto
        <5>3. HostAcceptsField(f, values[f]) /\ Parses(f, values[f]) /\ values[f] \in Texts
          BY <3>1, <3>2, <5>1 DEF HostAccepts, PluginAccepts
        <5>4. again[f] = ToText(f, settings'[f])
          BY <3>3, <4>2, UntouchedTexts
        <5> HIDE DEF values, base, again
        <5> QED
          BY <3>4, <3>5, <4>2, <5>2, <5>3, <5>4, AcceptedAgain
      <4> QED
        BY <4>1, <4>2
    <3> QED
      BY <3>1, <3>5 DEF SavedFormsCanBeSavedAgain, HostAccepts, PluginAccepts
  <2>2. ASSUME NEW post \in Posts, Refuse(post) \/ Reject(post) PROVE SavedFormsCanBeSavedAgain'
    BY <2>2 DEF Refuse, Reject, SavedFormsCanBeSavedAgain
  <2>3. CASE Restart
    BY <2>3 DEF Restart, SavedFormsCanBeSavedAgain
  <2>4. CASE UNCHANGED vars
    BY <2>4 DEF vars, SavedFormsCanBeSavedAgain
  <2> QED
    BY <2>1, <2>2, <2>3, <2>4 DEF Next
<1> QED
  BY <1>1, <1>2, FInvHolds, PTL DEF Spec
=============================================================================
