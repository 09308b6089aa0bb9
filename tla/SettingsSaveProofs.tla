-------------------------- MODULE SettingsSaveProofs --------------------------
(***************************************************************************)
(* Proofs about SettingsSave, for any submitters, fields and values.       *)
(***************************************************************************)
EXTENDS SettingsSave, TLAPS

\* What SaveSettings carries can be typed, and is taken again or the default.
LEMMA SavedTexts ==
  ASSUME NEW f \in Fields, NEW t \in Saved(f)
  PROVE  t \in Texts[f] /\ t \in PluginTakes[f] \cup {Defaults[f]}
BY RewrittenAssumption DEF Saved

\* What the plugin loads is of the fields' type, whatever is stored and read.
LEMMA LoadedIsTyped ==
  ASSUME NEW document \in Documents, NEW unread \in SUBSET Fields
  PROVE  Loaded(document, unread) \in Submissions
BY DefaultsAssumption DEF Loaded, Documents, Submissions, AnyText

\* An accepted submission is parsed to what SaveSettings carries.
LEMMA ParsedIsSaved ==
  ASSUME NEW x \in Submissions, Accepted(x)
  PROVE  Parsed(x) \in Submissions /\ \A f \in Fields : Parsed(x)[f] \in Saved(f)
<1>1. \A f \in Fields : Parsed(x)[f] \in Saved(f)
  BY DEF Parsed, Saved, Accepted
<1>2. \A f \in Fields : Parsed(x)[f] \in Texts[f]
  BY <1>1, SavedTexts
<1>3. Parsed(x) = [f \in Fields |-> Parsed(x)[f]]
  BY DEF Parsed
<1> HIDE DEF Parsed
<1> QED
  BY <1>1, <1>2, <1>3 DEF Submissions, AnyText

LEMMA InitEstablishesSInv == Init => SInv
<1> SUFFICES ASSUME Init PROVE SInv
  OBVIOUS
<1>1. stored \in Documents /\ visible = stored /\ writer = NoWriter
  BY SavedTexts DEF Init, Store!Init, Documents
<1>2. TypeOK
  BY <1>1, LoadedIsTyped DEF Init, TypeOK, Replies
<1>3. FormsAreKnown
  BY DEF Init, FormsAreKnown
<1>4. KeptWasSaved
  BY <1>1 DEF Init, KeptWasSaved, Loaded
<1>5. SavesInTurn /\ UndisturbedSavesAgree
  BY <1>1, NoWriterAssumption DEF Init, SavesInTurn, UndisturbedSavesAgree
<1> QED
  BY <1>2, <1>3, <1>4, <1>5 DEF SInv

\* Everything up to the plugin's answer, and a rejection: nothing is applied.
LEMMA CheckingKeepsSInv ==
  ASSUME SInv, NEW s \in Submitters, Post(s) \/ Validate(s) \/ Invalid(s) \/ Reject(s)
  PROVE  SInv'
<1> USE DEF SInv, Post, Validate, Invalid, Reject, Tell, Goto, backend, history
<1>1. TypeOK'
  BY DEF TypeOK, Replies
<1>2. FormsAreKnown'
  BY DEF FormsAreKnown, TypeOK
<1>3. KeptWasSaved'
  BY DEF KeptWasSaved
<1>4. SavesInTurn'
  BY DEF SavesInTurn, TypeOK
<1>5. UndisturbedSavesAgree'
  BY DEF UndisturbedSavesAgree, NoSaveUnderWay, TypeOK
<1> QED
  BY <1>1, <1>2, <1>3, <1>4, <1>5

LEMMA AcceptKeepsSInv ==
  ASSUME SInv, NEW s \in Submitters, Accept(s)
  PROVE  SInv'
<1> USE DEF SInv, Accept, Goto, backend
<1>1. Parsed(form[s]) \in Submissions /\ \A f \in Fields : Parsed(form[s])[f] \in Saved(f)
  BY ParsedIsSaved DEF FormsAreKnown
<1>2. TypeOK'
  BY <1>1 DEF TypeOK
<1>3. FormsAreKnown'
  BY <1>1 DEF FormsAreKnown, TypeOK
<1>4. KeptWasSaved'
  BY <1>1 DEF KeptWasSaved
<1>5. SavesInTurn'
  <2>1. overlapped' \/ \A o \in Submitters : pc'[o] = "saving" => o = s
    BY DEF TypeOK
  <2> QED
    BY <2>1 DEF SavesInTurn, TypeOK
<1>6. UndisturbedSavesAgree'
  BY DEF UndisturbedSavesAgree, NoSaveUnderWay, TypeOK
<1> QED
  BY <1>2, <1>3, <1>4, <1>5, <1>6

\* One key shows: its value is one of a SaveSettings.
LEMMA SetSettingKeepsSInv ==
  ASSUME SInv, NEW s \in Submitters, SetSetting(s)
  PROVE  SInv'
<1> USE DEF SInv, history
<1>1. /\ form[s] \in Submissions /\ \A f \in Fields : form[s][f] \in Saved(f)
      /\ pc[s] = "saving"
      /\ UNCHANGED <<memory, stored, pc, form, reply, unsaved, overlapped, failed>>
      /\ writer = NoWriter /\ writer' = s
  BY DEF SetSetting, FormsAreKnown, Store!Show
<1>2. PICK f \in Fields : /\ f \in todo[s]
                          /\ visible' = [visible EXCEPT ![f] = form[s][f]]
                          /\ todo' = [todo EXCEPT ![s] = todo[s] \ {f}]
  BY DEF SetSetting, Store!Show, TypeOK
<1>3. /\ visible' \in Documents
      /\ \A g \in Fields : visible'[g] \in Saved(g) \cup {Unset}
  BY <1>1, <1>2 DEF TypeOK, KeptWasSaved, Submissions, Documents, AnyText
<1>4. TypeOK'
  BY <1>1, <1>2, <1>3 DEF TypeOK
<1>5. FormsAreKnown'
  BY <1>1 DEF FormsAreKnown
<1>6. KeptWasSaved'
  BY <1>1, <1>3 DEF KeptWasSaved
<1>7. SavesInTurn'
  <2>1. ~ overlapped /\ ~ failed =>
           /\ memory = form[s]
           /\ \A g \in Fields \ todo'[s] : visible'[g] = form[s][g]
    BY <1>1, <1>2 DEF SavesInTurn, TypeOK, Documents
  <2> QED
    BY <1>1, <2>1, NoWriterAssumption DEF SavesInTurn
<1>8. UndisturbedSavesAgree'
  BY <1>1, NoWriterAssumption DEF UndisturbedSavesAgree, NoSaveUnderWay
<1> QED
  BY <1>4, <1>5, <1>6, <1>7, <1>8

\* It is stored with all that is seen.
LEMMA SettingIsSetKeepsSInv ==
  ASSUME SInv, NEW s \in Submitters, SettingIsSet(s)
  PROVE  SInv'
<1> USE DEF SInv
<1>1. /\ writer = s /\ writer' = NoWriter /\ stored' = visible /\ pc[s] = "saving"
      /\ unsaved' = [unsaved EXCEPT ![s] = todo[s]]
      /\ UNCHANGED <<visible, memory, pc, form, todo, reply, overlapped, failed>>
  BY DEF SettingIsSet, Store!Persist, SavesInTurn
<1>2. TypeOK'
  BY <1>1 DEF TypeOK
<1>3. FormsAreKnown' /\ KeptWasSaved'
  BY <1>1 DEF FormsAreKnown, KeptWasSaved
<1>4. SavesInTurn'
  BY <1>1, NoWriterAssumption DEF SavesInTurn
<1>5. UndisturbedSavesAgree'
  BY <1>1 DEF UndisturbedSavesAgree, NoSaveUnderWay
<1> QED
  BY <1>2, <1>3, <1>4, <1>5

\* It throws: of the documents nothing can be said but that both were written by saves.
LEMMA SetSettingFailsKeepsSInv ==
  ASSUME SInv, NEW s \in Submitters, SetSettingFails(s)
  PROVE  SInv'
<1> USE DEF SInv
<1>1. /\ pc[s] = "saving" /\ failed'
      /\ visible' = visible /\ stored' \in {stored, visible} /\ writer' = NoWriter
      /\ todo' = [todo EXCEPT ![s] = {}]
      /\ UNCHANGED <<memory, pc, form, reply, unsaved, overlapped>>
  BY DEF SetSettingFails, Store!Fail, backend
<1>2. TypeOK'
  BY <1>1 DEF TypeOK, SetSettingFails
<1>3. FormsAreKnown' /\ KeptWasSaved'
  BY <1>1 DEF FormsAreKnown, KeptWasSaved
<1>4. SavesInTurn' /\ UndisturbedSavesAgree'
  BY <1>1, NoWriterAssumption DEF SavesInTurn, UndisturbedSavesAgree
<1> QED
  BY <1>2, <1>3, <1>4

\* The end of a save that neither overlapped nor failed: every field is stored.
LEMMA ConfirmKeepsSInv ==
  ASSUME SInv, NEW s \in Submitters, Confirm(s)
  PROVE  SInv'
<1> USE DEF SInv, Confirm, Tell, Goto, backend, history
<1>1. TypeOK'
  BY DEF TypeOK, Replies
<1>2. FormsAreKnown' /\ KeptWasSaved'
  BY DEF FormsAreKnown, KeptWasSaved, TypeOK
<1>3. SavesInTurn'
  BY DEF SavesInTurn, TypeOK
<1>4. UndisturbedSavesAgree'
  <2>1. ASSUME ~ overlapped, ~ failed PROVE memory = Loaded(stored, {})
    <3>1. writer = NoWriter
      BY <2>1 DEF SavesInTurn, TypeOK
    <3>2. memory \in Submissions /\ \A f \in Fields : stored[f] = memory[f]
      BY <2>1, <3>1 DEF SavesInTurn, UndisturbedSavesAgree, TypeOK
    <3>3. \A f \in Fields : stored[f] # Unset
      BY <3>2, UnsetAssumption DEF Submissions
    <3> QED
      BY <3>2, <3>3 DEF Loaded, Submissions
  <2> QED
    BY <2>1 DEF UndisturbedSavesAgree
<1> QED
  BY <1>1, <1>2, <1>3, <1>4

LEMMA RestartKeepsSInv ==
  ASSUME SInv, Restart
  PROVE  SInv'
<1> USE DEF SInv
<1>1. /\ visible' = stored /\ stored' = stored /\ writer' = NoWriter
      /\ pc' = [s \in Submitters |-> "idle"] /\ form' = [s \in Submitters |-> NoForm]
      /\ todo' = [s \in Submitters |-> {}] /\ reply' = [s \in Submitters |-> "none"]
      /\ unsaved' = [s \in Submitters |-> {}] /\ overlapped' = FALSE
  BY DEF Restart, Store!Restart
<1>2. PICK unread \in SUBSET Fields :
         memory' = Loaded(stored, unread) /\ failed' = (unread # {})
  BY DEF Restart
<1>3. TypeOK'
  BY <1>1, <1>2, LoadedIsTyped DEF TypeOK, Replies
<1>4. FormsAreKnown'
  BY <1>1 DEF FormsAreKnown
<1>5. KeptWasSaved'
  BY <1>1, <1>2 DEF KeptWasSaved, Loaded
<1>6. SavesInTurn'
  BY <1>1, NoWriterAssumption DEF SavesInTurn
<1>7. UndisturbedSavesAgree'
  BY <1>1, <1>2 DEF UndisturbedSavesAgree
<1> QED
  BY <1>3, <1>4, <1>5, <1>6, <1>7

LEMMA NextKeepsSInv == SInv /\ [Next]_vars => SInv'
<1> SUFFICES ASSUME SInv, [Next]_vars PROVE SInv'
  OBVIOUS
<1>1. CASE UNCHANGED vars
  BY <1>1 DEF vars, backend, history, SInv, TypeOK, FormsAreKnown, KeptWasSaved, SavesInTurn,
              UndisturbedSavesAgree, NoSaveUnderWay
<1> QED
  BY <1>1, CheckingKeepsSInv, AcceptKeepsSInv, SetSettingKeepsSInv, SettingIsSetKeepsSInv,
     SetSettingFailsKeepsSInv, ConfirmKeepsSInv, RestartKeepsSInv DEF Next

LEMMA SInvHolds == Spec => []SInv
BY InitEstablishesSInv, NextKeepsSInv, PTL DEF Spec

-----------------------------------------------------------------------------
(* Submissions use the backend as PluginStore lets them.                   *)

\* One submission's step is a call of the backend, its end or none of its business.
LEMMA SubmitterUsesStore ==
  ASSUME SInv, NEW s \in Submitters,
         \/ Post(s) \/ Validate(s) \/ Invalid(s) \/ Accept(s) \/ Reject(s)
         \/ SetSetting(s) \/ SettingIsSet(s) \/ SetSettingFails(s) \/ Confirm(s)
  PROVE  [Store!Next]_Store!vars
<1> USE DEF Store!Next, Store!vars
<1>1. CASE Post(s) \/ Validate(s) \/ Invalid(s) \/ Accept(s) \/ Reject(s) \/ Confirm(s)
  BY <1>1 DEF Post, Validate, Invalid, Accept, Reject, Confirm, backend
<1>2. CASE SetSetting(s)
  <2>1. form[s] \in Submissions
    BY <1>2 DEF SetSetting, SInv, FormsAreKnown
  <2>2. PICK f \in Fields : Store!Show(s, f, form[s][f])
    BY <1>2 DEF SetSetting, SInv, TypeOK
  <2>3. form[s][f] \in AnyText \cup {Unset}
    BY <2>1 DEF Submissions
  <2> QED
    BY <2>2, <2>3
<1>3. CASE SettingIsSet(s)
  BY <1>3 DEF SettingIsSet
<1>4. CASE SetSettingFails(s)
  BY <1>4 DEF SetSettingFails, backend
<1> QED
  BY <1>1, <1>2, <1>3, <1>4

\* Seen from the backend, submissions are writers of PluginStore that take turns:
\* what is proved of them rests on nothing SettingsBackend is not proved to do.
THEOREM StoreIsUsedAsPromised == Spec => Store!Spec
<1>1. Init => Store!Init
  BY DEF Init
<1>2. SInv /\ [Next]_vars => [Store!Next]_Store!vars
  <2> SUFFICES ASSUME SInv, [Next]_vars PROVE [Store!Next]_Store!vars
    OBVIOUS
  <2>1. CASE Restart
    BY <2>1 DEF Restart, Store!Next
  <2>2. CASE UNCHANGED vars
    BY <2>2 DEF vars, backend, Store!vars
  <2> QED
    BY <2>1, <2>2, SubmitterUsesStore DEF Next
<1> QED
  BY <1>1, <1>2, SInvHolds, PTL DEF Spec, Store!Spec

-----------------------------------------------------------------------------
\* Every field and local keeps its type.
THEOREM TypeCorrect == Spec => []TypeOK
<1>1. SInv => TypeOK
  BY DEF SInv
<1> QED
  BY <1>1, SInvHolds, PTL

\* No text the plugin would refuse is ever in effect, visible or stored, but as the field's
\* default, whatever the interleaving of submissions, failures and restarts.
THEOREM RejectedValuesNeverApplyAlways == Spec => []RejectedValuesNeverApply
<1>1. SInv => RejectedValuesNeverApply
  BY SavedTexts DEF SInv, KeptWasSaved, RejectedValuesNeverApply
<1> QED
  BY <1>1, SInvHolds, PTL

\* Saves that neither overlap nor fail leave plugin, cache and database agreeing.
THEOREM UndisturbedSavesAgreeAlways == Spec => []UndisturbedSavesAgree
<1>1. SInv => UndisturbedSavesAgree
  BY DEF SInv
<1> QED
  BY <1>1, SInvHolds, PTL

-----------------------------------------------------------------------------
(* What "Settings saved." means.                                           *)

\* Until a call of the backend fails, a field is written when it is ticked off, and a
\* submission is confirmed when all are.
SavesAreTickedOff ==
    ~ failed => \A s \in Submitters :
        /\ pc[s] = "saving" /\ writer # s => unsaved[s] \subseteq todo[s]
        /\ reply[s] = "saved" => pc[s] = "idle" /\ unsaved[s] = {}

LEMMA NextKeepsSavesTickedOff == SInv /\ SavesAreTickedOff /\ [Next]_vars => SavesAreTickedOff'
<1> SUFFICES ASSUME SInv, SavesAreTickedOff, [Next]_vars PROVE SavesAreTickedOff'
  OBVIOUS
<1> USE DEF SInv, TypeOK, SavesAreTickedOff
<1>1. CASE UNCHANGED vars
  BY <1>1 DEF vars, backend, history
<1>2. ASSUME NEW s \in Submitters, Post(s) \/ Validate(s) \/ Invalid(s) \/ Reject(s)
      PROVE  SavesAreTickedOff'
  BY <1>2 DEF Post, Validate, Invalid, Reject, Tell, Goto, backend, history
<1>3. ASSUME NEW s \in Submitters, Accept(s) PROVE SavesAreTickedOff'
  BY <1>3 DEF Accept, Goto, backend
<1>4. ASSUME NEW s \in Submitters, SetSetting(s) PROVE SavesAreTickedOff'
  BY <1>4, NoWriterAssumption DEF SetSetting, Store!Show, history
<1>5. ASSUME NEW s \in Submitters, SettingIsSet(s) PROVE SavesAreTickedOff'
  BY <1>5, NoWriterAssumption DEF SettingIsSet, Store!Persist, SavesInTurn
<1>6. ASSUME NEW s \in Submitters, SetSettingFails(s) PROVE SavesAreTickedOff'
  BY <1>6 DEF SetSettingFails
<1>7. ASSUME NEW s \in Submitters, Confirm(s) PROVE SavesAreTickedOff'
  BY <1>7 DEF Confirm, Tell, Goto, backend, history
<1>8. CASE Restart
  BY <1>8 DEF Restart
<1> QED
  BY <1>1, <1>2, <1>3, <1>4, <1>5, <1>6, <1>7, <1>8 DEF Next

\* SavedMeansStored is refuted by a call of the backend that fails, and by nothing else:
\* however submissions overlap, one that is confirmed had each of its fields stored.
THEOREM SavedMeansStoredUnlessACallFails == Spec => [](~ failed => SavedMeansStored)
<1>1. Init => SavesAreTickedOff
  BY DEF Init, SavesAreTickedOff
<1>2. SavesAreTickedOff => (~ failed => SavedMeansStored)
  BY DEF SavesAreTickedOff, SavedMeansStored
<1> QED
  BY <1>1, <1>2, NextKeepsSavesTickedOff, SInvHolds, PTL DEF Spec
=============================================================================
