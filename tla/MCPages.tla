------------------------------ MODULE MCPages ------------------------------
(***************************************************************************)
(* Instances, for TLC, of what the pages of the panel do with the user and *)
(* with the requests they send: the remote-control page, its journal and   *)
(* chat and the input it captures, the forms of the settings page, the     *)
(* configuration of the download page, the device list.  They share no     *)
(* state; a behaviour is about one of them, its scope.                     *)
(***************************************************************************)
EXTENDS RemoteControl, SessionChat, RemoteScreen, SettingsForms, DownloadConfig, DeviceList,
        TLC

CONSTANTS
  t1, t2,                                        \* control: retries pending at one time
  f1, f2, mouse, s1, s2,                         \* screen: fingers, spots
  ctrl, enter, char, dead, png1, png2, raw1,     \* screen: keys, cursor images
  sv1, sv2,                                      \* settings: saves
  img1, img2,                                    \* download page: images
  d1, d2, slot1,                                 \* device list: devices, a change
  Scopes

MCRetryTimers == {t1, t2}

MCFingers == {f1, f2}
MCSpots == {s1, s2}
MCModifiers == {ctrl}
MCControls == {enter}
MCChars == {char}
MCOdd == {dead}
MCPngs == {png1, png2}
MCBitmaps == {raw1}

\* One field of each kind; the web form has two that are saved one after the other.
MCForms == [interval |-> <<"interval">>, mode |-> <<"mode">>, web |-> <<"quality", "codec">>,
            chat |-> <<"greeting">>, name |-> <<"name">>]
MCSteady == {"interval"}
MCEager == {"mode", "quality", "codec"}
MCTexts == {"greeting", "name"}
MCSaves == {sv1, sv2}

MCImages == {img1, img2}
MCIds == {1, 2, 3}

MCDevices == {d1, d2}
MCFilters == {"all", "online"}
MCSlots == {slot1}

\* Sets whose members nothing tells apart.
Symmetry == Permutations(MCFingers) \cup Permutations(MCSpots)

AllScopes == {"control", "journal", "chat", "drag", "mouse", "fingers", "keys", "cursor", "settings", "download",
              "words", "pages", "filters"}
ChatScopes == {"journal", "chat", "drag"}
ScreenScopes == {"mouse", "fingers", "keys", "cursor"}

VARIABLES
  scope,
  inPlay    \* the forms that are used

\* Two forms that react to one another, or do not.
FormPairs == {{"interval", "web"}, {"mode", "web"}, {"chat", "name"}}
InPlay == UNION {FieldsOf(f) : f \in inPlay}

Everything == <<vars, chatVars, screenVars, settingsVars, downloadVars, listVars, scope, inPlay>>

MCInit ==
  /\ scope \in Scopes
  /\ inPlay \in IF scope = "settings" THEN FormPairs ELSE {{}}
  /\ Init /\ (scope # "control" => ~state.password)
  /\ ChatInit
  /\ ScreenInit
  /\ scope \notin {"mouse", "fingers"} => inputMode = "touch"
  /\ scope # "keys" => platformKnown
  /\ SettingsInit /\ table = [f \in SettingFields |-> "y"]
  /\ DownloadInit /\ Len(stored.list) = IF scope = "words" THEN InstructionLimit ELSE 0
  /\ ListInit
  /\ rows[d2] = IF scope = "filters" THEN Nothing ELSE {}
  /\ rows[d1] \in IF scope = "filters" THEN {{}, {"online"}} ELSE {{}}

-----------------------------------------------------------------------------
\* The mouse alone or the fingers alone: every mixture of them makes the user
\* careless.
PointerScope ==
  /\ PointerNext
  /\ \/ scope = "mouse" /\ touching' = {}
     \/ scope = "fingers" /\ buttons' = {} /\ at'[mouse] = at[mouse]

\* The journal alone, the chat across sessions, or its widget on the screen.
ChatScope ==
  /\ ChatNext
  /\ \/ scope = "journal" /\ UNCHANGED <<talk, posVars>> /\ ~chatOpenReq'
     \/ /\ scope # "journal" /\ logPrefs' = DefaultPrefs
        /\ \A i \in DOMAIN logs' : logs'[i].marker \in Markers
        /\ \/ scope = "chat" /\ ~press'.moved
           \/ /\ scope = "drag" /\ unseen' = 0 /\ "self" \notin ToSet(chat')
              /\ \A i \in DOMAIN logs' : logs'[i].marker = "connect"

\* Only a user who is not careless: the properties say nothing of the others.
ScreenScope ==
  /\ \/ PointerScope /\ UNCHANGED <<keyboardVars, cursorVars>>
     \/ scope = "keys" /\ KeyboardNext /\ UNCHANGED <<pointerVars, cursorVars>>
     \/ scope = "cursor" /\ CursorNext /\ UNCHANGED <<pointerVars, keyboardVars>>
     \/ scope # "cursor" /\ SetPaused
  /\ ~careless'

\* Two forms are used, the fields of the others stay as they are loaded.  A change
\* of the mode is a save at once: with it, two edits or saves are enough for two
\* saves under way.
SettingsScope ==
  /\ SettingsNext
  /\ "mode" \in inPlay => edits' <= 2
  /\ \A f \in SettingFields \ InPlay :
       /\ table'[f] = table[f]
       /\ (settings = Nowhere => settings' = Nowhere) => field'[f] = field[f]
  /\ \A s \in Saves : save'[s] # Nowhere => save'[s].form \in inPlay

\* The images and the requests about them, or what is typed into a page that has as
\* many instructions as it may.
DownloadScope ==
  /\ DownloadNext
  /\ \/ scope = "download" /\ ~Overdone(cfg') /\ (draft' # None => draft'.text # Improper)
     \/ scope = "words" /\ UNCHANGED <<upload, deletion>>

\* The list on two pages, with its deletions, or under its filters.
ListScope ==
  /\ ListNext
  /\ \/ /\ scope = "pages" /\ filter' = "all" /\ listFaults' = 0
        /\ \A d \in Devices : rows'[d] \in {Nothing, {}, {"pinned"}}
        /\ dialog'.kind \in {"none", "delete"}
     \/ /\ scope = "filters" /\ page' = 1 /\ listFaults' <= 1 /\ failed' = {}
        /\ dialog'.kind \in {"none", "alias", "password"}
        /\ \A c \in Slots : edit'[c].field # "pinned"

MCNext ==
  /\ UNCHANGED <<scope, inPlay>>
  /\ \/ /\ scope = "control" /\ Next
        /\ UNCHANGED <<chatVars, screenVars, settingsVars, downloadVars, listVars>>
     \/ /\ scope \in ChatScopes /\ ChatScope
        /\ UNCHANGED <<vars, screenVars, settingsVars, downloadVars, listVars>>
     \/ /\ scope \in ScreenScopes /\ ScreenScope
        /\ UNCHANGED <<vars, chatVars, settingsVars, downloadVars, listVars>>
     \/ /\ scope = "settings" /\ SettingsScope
        /\ UNCHANGED <<vars, chatVars, screenVars, downloadVars, listVars>>
     \/ /\ scope \in {"download", "words"} /\ DownloadScope
        /\ UNCHANGED <<vars, chatVars, screenVars, settingsVars, listVars>>
     \/ /\ scope \in {"pages", "filters"} /\ ListScope
        /\ UNCHANGED <<vars, chatVars, screenVars, settingsVars, downloadVars>>

MCSpec == MCInit /\ [][MCNext]_Everything
=============================================================================
