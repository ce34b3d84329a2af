--------------------------- MODULE SettingsForms ---------------------------
(***************************************************************************)
(* The forms of frontend/src/pages/SettingsPage.tsx that edit the settings *)
(* table: one state variable per field, one query for the whole table, one *)
(* mutation observer shared by every form, and saves that put their fields *)
(* one after the other.                                                    *)
(*                                                                         *)
(* Three kinds of fields are filled in three ways: those in Eager at every *)
(* run of the hydration effect, those in Steady when they are empty, those *)
(* in Texts once.  A value is "x", "y", "bad" (refused by the form),       *)
(* "x " (a name to be trimmed) or "" (nothing).                            *)
(***************************************************************************)
EXTENDS Naturals, Sequences, SequencesExt

CONSTANTS
  SaveOrder,  \* [form -> its fields, in the order its save puts them]
  Steady, Eager, Texts,
  NameField,  \* the display name, a member of Texts
  ModeForm,   \* the form without a button: its select saves at once
  Saves,      \* bound: saves under way at one time
  Nowhere,    \* no table, no save
  NoGet, Asked, \* no GET, one without its answer
  MaxEdits, MaxFaults  \* bounds: edits and saves by the user, failures and other admins

SettingForms == DOMAIN SaveOrder
FieldsOf(form) == ToSet(SaveOrder[form])
SettingFields == UNION {FieldsOf(form) : form \in SettingForms}

SettingValues == {"x", "y", "x ", "bad", ""}
SaveRecord == [form : SettingForms, at : Nat, alone : BOOLEAN,
               sent : UNION {[FieldsOf(form) -> SettingValues] : form \in SettingForms}]

ASSUME SettingsAssumption ==
  /\ Steady \cup Eager \cup Texts = SettingFields
  /\ Steady \cap Texts = {} /\ NameField \in Texts
  /\ ModeForm \in SettingForms /\ FieldsOf(ModeForm) \cap Texts = {}
  /\ \A form \in SettingForms :
       Len(SaveOrder[form]) \in Nat \ {0} /\ DOMAIN SaveOrder[form] = 1..Len(SaveOrder[form])
ASSUME SettingsValuesAssumption ==
  /\ Nowhere \notin Saves /\ Nowhere \notin SaveRecord
  /\ NoGet # Asked /\ {NoGet, Asked} \cap [SettingFields -> SettingValues] = {}

VARIABLES
  table,      \* [SettingFields -> value]: what the server stores
  settings,   \* useSettings: the table as last read, or Nowhere
  reading,    \* the GET: NoGet, Asked, or the table it read
  field,      \* [SettingFields -> value]: the states of the page
  hydrated,   \* chatHydratedRef, clientNameHydratedRef
  save,       \* [Saves -> SaveRecord or Nowhere]
  writing,    \* saves whose present PUT the server has carried out
  pending,    \* the save that called the observer last, while its PUT is out
  typed,      \* history: [Texts -> what the user typed last, or Nowhere]
  doubtful,   \* history: why the cache may differ from the table
  mixed,      \* history: a save that met no other reported what it did not store
  edits, faults

settingsVars == <<table, settings, reading, field, hydrated, save, writing, pending,
                  typed, doubtful, mixed, edits, faults>>
history == <<typed, doubtful, mixed>>

Default == [f \in SettingFields |-> IF f \in Eager THEN "x" ELSE ""]

SettingsInit ==
  /\ table \in [SettingFields -> {"x", "y"}]
  /\ settings = Nowhere /\ reading = Asked
  /\ field = Default /\ hydrated = FALSE
  /\ save = [s \in Saves |-> Nowhere] /\ writing = {} /\ pending = Nowhere
  /\ typed = [f \in Texts |-> Nowhere] /\ doubtful = FALSE /\ mixed = FALSE
  /\ edits = 0 /\ faults = 0

-----------------------------------------------------------------------------
\* The effect on settings and on the fields in Steady.
Hydrate(now, data, done) ==
  [f \in SettingFields |->
     IF (f \in Steady /\ now[f] # "") \/ (f \in Texts /\ done) THEN now[f] ELSE data[f]]

\* The page is drawn with field values now and table data.
Draw(now, data, done) ==
  IF data = Nowhere THEN field' = now /\ hydrated' = done
  ELSE field' = Hydrate(now, data, done) /\ hydrated' = TRUE

\* A refetch supersedes one that is under way, but the first load is not cancelled.
InvalidateFault == /\ reading' = IF reading = NoGet THEN Asked ELSE reading
                   /\ UNCHANGED doubtful

Invalidate ==
  /\ reading' = IF settings = Nowhere /\ reading # NoGet THEN reading ELSE Asked
  /\ doubtful' = (doubtful \/ (settings = Nowhere /\ reading # NoGet))

\* What is typed before the first load is not kept.
Typed(f, v) == typed' = IF f \in Texts /\ hydrated THEN [typed EXCEPT ![f] = v] ELSE typed

\* An edit of a field; one in Steady is a dependency of the effect.
Type(f, v) ==
  /\ edits < MaxEdits /\ edits' = edits + 1
  /\ f \notin FieldsOf(ModeForm)
  /\ v # field[f]
  /\ v = "" => f \in Steady
  /\ v = "x " => f = NameField
  /\ LET now == [field EXCEPT ![f] = v] IN
       IF f \in Steady THEN Draw(now, settings, hydrated)
                       ELSE field' = now /\ UNCHANGED hydrated
  /\ Typed(f, v)
  /\ UNCHANGED <<table, settings, reading, save, writing, pending, doubtful, mixed, faults>>

\* isPending of the one observer.
IsPending == pending # Nowhere

Trim(v) == IF v = "x " THEN "x" ELSE v

\* A save of the values the form shows when it is submitted.
Start(s, form, values) ==
  /\ save[s] = Nowhere
  /\ save' = [save EXCEPT ![s] = [form |-> form, at |-> 1, sent |-> values, alone |-> TRUE]]
  /\ pending' = s

\* The texts of the chat may be empty; a number or a name may not.
Valid(form) == \A f \in FieldsOf(form) :
  field[f] # "bad" /\ (field[f] = "" => f \in Texts \ {NameField})

Submit(s, form) ==
  /\ edits < MaxEdits /\ edits' = edits + 1
  /\ form # ModeForm
  /\ ~IsPending
  /\ Valid(form)
  /\ Start(s, form, [f \in FieldsOf(form) |-> Trim(field[f])])
  /\ UNCHANGED <<table, settings, reading, field, hydrated, writing, history, faults>>

\* The select of the update mode is never disabled.
ChangeMode(s, v) ==
  /\ edits < MaxEdits /\ edits' = edits + 1
  /\ v \in {"x", "y"} /\ \A f \in FieldsOf(ModeForm) : v # field[f]
  /\ field' = [f \in SettingFields |-> IF f \in FieldsOf(ModeForm) THEN v ELSE field[f]]
  /\ Start(s, ModeForm, [f \in FieldsOf(ModeForm) |-> v])
  /\ UNCHANGED <<table, settings, reading, hydrated, writing, history, faults>>

-----------------------------------------------------------------------------
\* What the present PUT of a save carries.
ValueOf(s) == save[s].sent[SaveOrder[save[s].form][save[s].at]]

FieldAt(s) == SaveOrder[save[s].form][save[s].at]

\* Saves that hold the field being written are no longer alone with it.
Crossed(f, but) ==
  [s \in Saves |-> IF s = but \/ save[s] = Nowhere THEN save[s]
                   ELSE [save[s] EXCEPT !.alone = @ /\ f \notin FieldsOf(save[s].form)]]

\* The server carries out a PUT.
Write(s) ==
  /\ save[s] # Nowhere /\ s \notin writing
  /\ table' = [table EXCEPT ![FieldAt(s)] = ValueOf(s)]
  /\ writing' = writing \cup {s}
  /\ save' = Crossed(FieldAt(s), s)
  /\ UNCHANGED <<settings, reading, field, hydrated, pending, history, edits, faults>>

Done(s) == save[s].at = Len(SaveOrder[save[s].form])

\* The next PUT goes out; it makes its save the observer's latest.
Continue(s) ==
  /\ ~Done(s)
  /\ save' = [save EXCEPT ![s].at = @ + 1]
  /\ pending' = s
  /\ UNCHANGED <<field, typed, mixed>>

\* The last one is answered: the save reports success, and the name is shown as it
\* was stored, whatever has been typed since.
SaveFinishes(s) ==
  /\ Done(s)
  /\ save' = [save EXCEPT ![s] = Nowhere]
  /\ pending' = IF pending = s THEN Nowhere ELSE pending
  /\ mixed' = (mixed \/ (save[s].alone /\ \E f \in FieldsOf(save[s].form) : table[f] # save[s].sent[f]))
  /\ LET mine == FieldsOf(save[s].form) \cap {NameField} IN
       /\ field' = [f \in SettingFields |-> IF f \in mine THEN save[s].sent[f] ELSE field[f]]
       /\ typed' = [f \in Texts |-> IF f \in mine THEN Nowhere ELSE typed[f]]

SaveSettled(s) ==
  /\ s \in writing /\ writing' = writing \ {s}
  /\ Invalidate
  /\ Continue(s) \/ SaveFinishes(s)
  /\ UNCHANGED <<table, settings, hydrated, edits, faults>>

\* The PUT is refused or its answer is lost: the fields after it are not sent.
PutFails(s) ==
  /\ save' = [save EXCEPT ![s] = Nowhere]
  /\ pending' = IF pending = s THEN Nowhere ELSE pending
  /\ doubtful' = (doubtful \/ s \in writing)
  /\ writing' = writing \ {s}
  /\ UNCHANGED <<table, settings, reading, field, hydrated, typed, mixed>>

Failed(s) ==
  /\ faults < MaxFaults /\ faults' = faults + 1
  /\ save[s] # Nowhere
  /\ PutFails(s)
  /\ UNCHANGED edits

-----------------------------------------------------------------------------
TableRead ==
  /\ reading = Asked
  /\ reading' = table
  /\ UNCHANGED <<table, settings, field, hydrated, save, writing, pending, history, edits, faults>>

\* A table equal to the last is the last: the effect does not run.
TableShown ==
  /\ reading \notin {NoGet, Asked}
  /\ settings' = reading /\ reading' = NoGet
  /\ IF reading = settings THEN UNCHANGED <<field, hydrated>> ELSE Draw(field, reading, hydrated)
  /\ UNCHANGED <<table, save, writing, pending, history, edits, faults>>

TableLost ==
  /\ faults < MaxFaults /\ faults' = faults + 1
  /\ reading # NoGet /\ reading' = NoGet
  /\ doubtful' = TRUE
  /\ UNCHANGED <<table, settings, field, hydrated, save, writing, pending, typed, mixed, edits>>

\* Another administrator saves a field.
WrittenElsewhere(f, v) ==
  /\ faults < MaxFaults /\ faults' = faults + 1
  /\ v \in {"x", "y"} /\ table[f] # v
  /\ table' = [table EXCEPT ![f] = v]
  /\ doubtful' = TRUE
  /\ save' = Crossed(f, Nowhere)
  /\ UNCHANGED <<settings, reading, field, hydrated, writing, pending, typed, mixed, edits>>

SettingsNext ==
  \/ \E f \in SettingFields, v \in SettingValues : Type(f, v) \/ WrittenElsewhere(f, v)
  \/ \E s \in Saves :
       \/ \E form \in SettingForms : Submit(s, form)
       \/ \E v \in {"x", "y"} : ChangeMode(s, v)
       \/ Write(s) \/ SaveSettled(s) \/ Failed(s)
  \/ TableRead \/ TableShown \/ TableLost

SettingsSpec == SettingsInit /\ [][SettingsNext]_settingsVars

-----------------------------------------------------------------------------
\* Refetches, which follow every save of any form, never touch a text being typed:
\* a text changes under the user only when the save of that very text ends.
TextsKept == \A f \in Texts : typed[f] # Nowhere => field[f] = typed[f]

\* After the last answer the page works on the table as it is stored: a refetch
\* that read too early never wins, unless a request failed, another administrator
\* wrote, or a save was made before the first load.
TableFresh == reading = NoGet /\ writing = {} /\ ~doubtful => settings = table

\* A save that reports success has stored every field as the form showed it when it
\* was submitted, however long it took and whatever was typed meanwhile, unless
\* another save wrote the same field.
SavedAsSubmitted == ~mixed

\* The page keeps what is typed, stores what was submitted and shows what is stored.
FormsHold == TextsKept /\ TableFresh /\ SavedAsSubmitted

-----------------------------------------------------------------------------
\* "later refetches must not wipe long texts mid-typing" holds of texts only; the
\* codec select "only updates local state; it is saved together with quality and FPS
\* by the Save button" (lines 1046 and 1047): TLC refutes that a choice stays until
\* it is saved, as typing in a field of Steady fills it in again.
ChoiceKept == [][\A f \in Eager : hydrated /\ field'[f] # field[f] => edits' = edits + 1
                   /\ \A g \in Steady : field'[g] = field[g]]_settingsVars

\* Save is disabled while a save is pending: TLC refutes that one form has one save.
OneSavePerForm == \A s, t \in Saves :
  save[s] # Nowhere /\ save[t] # Nowhere /\ s # t => save[s].form # save[t].form
=============================================================================
