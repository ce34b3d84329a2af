----------------------------- MODULE DeviceList ----------------------------
(***************************************************************************)
(* The device list (frontend/src/pages/DevicesPage.tsx on the queries and  *)
(* mutations of frontend/src/api/devices.ts, handlers in                   *)
(* backend/internal/device/service.go): pages of a filtered list in a      *)
(* cache, requests that change a device, and the one that reloads.         *)
(*                                                                         *)
(* A device is a set of fields, on or off: an alias (given or not), pinned,*)
(* a saved password, online.  The filter stands for the search text, its   *)
(* fields and operators, and the status selector, which all go into the    *)
(* key of the query.  Of TanStack Query is modelled what the code relies   *)
(* on: a request that is cancelled is not heard of again, a first load is  *)
(* never cancelled, and polling may pause after failures.                  *)
(***************************************************************************)
EXTENDS Naturals, Sequences, FiniteSets, SequencesExt

CONSTANTS
  Devices,
  Filters,      \* subset of {"all", "online", "offline"}
  PageSize,     \* limit (20)
  LastPage,     \* bound: pages that can be turned to
  Slots,        \* bound: changes under way at one time
  Nothing,
  MaxChanges,   \* bound: changes made by the admin
  MaxListFaults   \* bound: requests that fail

Fields == {"alias", "pinned", "password", "online"}
ListKeys == Filters \X (1..LastPage)

ASSUME ListBoundsAssumption == PageSize \in Nat \ {0} /\ LastPage \in Nat \ {0}
ASSUME FiltersAssumption == "all" \in Filters
ASSUME DevicesAssumption == IsFiniteSet(Devices)
ASSUME NothingAssumption == \A s \in SUBSET Fields : s # Nothing

VARIABLES
  rows,     \* the devices table: the set of fields that are on, or Nothing
  page, filter,
  items,    \* [ListKeys -> data of the query, or Nothing]
  outdated,    \* keys to be loaded again when they are shown
  fetch,    \* [ListKeys -> request of the query: [pc, data, old]; old
            \* (history) when a change was answered meanwhile
  failed,   \* keys whose last request failed (isError)
  retry,    \* the retry of a failed list is set
  dialog,   \* [kind, device]
  edit,     \* [Slots -> [pc, field, device, on]]
  behind,   \* history: keys with an answer that began before a change and came after it
  changes, listFaults

listVars == <<rows, page, filter, items, outdated, fetch, failed, retry, dialog, edit, behind, changes, listFaults>>

key == <<filter, page>>
NoDialog == [kind |-> "none", device |-> Nothing]
Resting == [pc |-> "none", data |-> Nothing, old |-> FALSE]
ListAsked == [Resting EXCEPT !.pc = "sent"]
NoChange == [pc |-> "idle", field |-> "none", device |-> Nothing, on |-> FALSE]

ListInit ==
  /\ rows \in [Devices -> {{}, {"online"}, Nothing}]
  /\ page = 1 /\ filter = "all"
  /\ items = [k \in ListKeys |-> Nothing] /\ outdated = {} /\ failed = {}
  /\ fetch = [k \in ListKeys |-> IF k = <<"all", 1>> THEN ListAsked ELSE Resting]
  /\ retry = FALSE /\ dialog = NoDialog
  /\ edit = [c \in Slots |-> NoChange]
  /\ behind = {} /\ changes = 0 /\ listFaults = 0

Data == <<items, outdated, failed, behind>>
Budgets == <<changes, listFaults>>

-----------------------------------------------------------------------------
(* The backend. *)

Matches(f, d) ==
  /\ rows[d] # Nothing
  /\ f = "online" => "online" \in rows[d]
  /\ f = "offline" => "online" \notin rows[d]

\* ListDevices: the pinned ones first, the rest in a fixed order.
Sorted(f) ==
  LET these == {d \in Devices : Matches(f, d)}
      pinned == {d \in these : "pinned" \in rows[d]}
  IN SetToSeq(pinned) \o SetToSeq(these \ pinned)

Listed(k) ==
  LET all == Sorted(k[1])
      from == (k[2] - 1) * PageSize
      these == SubSeq(all, from + 1, Min({from + PageSize, Len(all)}))
  IN [total |-> Len(all),
      rows |-> [i \in 1..Len(these) |-> [device |-> these[i], fields |-> rows[these[i]]]]]

\* The status of the devices, see DevicePresence.
PresenceChanges(d) ==
  /\ rows[d] # Nothing
  /\ rows' = [rows EXCEPT ![d] = IF "online" \in @ THEN @ \ {"online"} ELSE @ \cup {"online"}]
  /\ UNCHANGED <<page, filter, Data, fetch, retry, dialog, edit, Budgets>>

\* A device that was deleted is not found.
HandleChange(c) ==
  /\ edit[c].pc = "sent"
  /\ LET q == edit[c]
         d == q.device
         set(s) == IF q.on THEN s \cup {q.field} ELSE s \ {q.field} IN
       \/ /\ rows[d] # Nothing
          /\ rows' = [rows EXCEPT ![d] = IF q.field = "row" THEN Nothing ELSE set(@)]
          /\ edit' = [edit EXCEPT ![c].pc = "ok"]
          /\ UNCHANGED listFaults
       \/ /\ rows[d] = Nothing
          /\ edit' = [edit EXCEPT ![c].pc = "refused"]
          /\ UNCHANGED <<rows, listFaults>>
       \/ /\ listFaults < MaxListFaults /\ listFaults' = listFaults + 1
          /\ edit' = [edit EXCEPT ![c].pc = "refused"]
          /\ UNCHANGED rows
  /\ UNCHANGED <<page, filter, Data, fetch, retry, dialog, changes>>

ListRead(k) ==
  /\ fetch[k].pc = "sent"
  /\ fetch' = [fetch EXCEPT ![k].pc = "read", ![k].data = Listed(k)]
  /\ UNCHANGED <<rows, page, filter, Data, retry, dialog, edit, Budgets>>

-----------------------------------------------------------------------------
(* The query. *)

\* fetch with cancelRefetch, which spares a first load.
Refetched(k) == IF items[k] = Nothing /\ fetch[k].pc # "none" THEN fetch
                ELSE [fetch EXCEPT ![k] = ListAsked]

\* The observer turns to a key: what is cached is shown, and loaded if it is not fresh.
Turn(f, p) ==
  /\ <<f, p>> # key
  /\ filter' = f /\ page' = p
  /\ fetch' = IF fetch[<<f, p>>].pc = "none" /\ (items[<<f, p>>] = Nothing \/ <<f, p>> \in outdated)
              THEN [fetch EXCEPT ![<<f, p>>] = ListAsked] ELSE fetch
  /\ retry' = (<<f, p>> \in failed)
  /\ UNCHANGED <<rows, Data, dialog, edit, Budgets>>

\* While a page loads the previous one stays on the screen.
PageTurns ==
  /\ dialog = NoDialog
  /\ \/ page > 1 /\ Turn(filter, page - 1)
     \/ /\ page < LastPage /\ items[key] # Nothing
        /\ page * PageSize < items[key].total
        /\ Turn(filter, page + 1)

FilterChanges == dialog = NoDialog /\ \E f \in Filters \ {filter} : Turn(f, 1)

\* refetchInterval: only when nothing is under way; nothing promises that it goes on.
PollList ==
  /\ fetch[key].pc = "none"
  /\ fetch' = [fetch EXCEPT ![key] = ListAsked]
  /\ UNCHANGED <<rows, page, filter, Data, retry, dialog, edit, Budgets>>

RetryTimer ==
  /\ retry /\ retry' = FALSE
  /\ fetch' = Refetched(key)
  /\ UNCHANGED <<rows, page, filter, Data, dialog, edit, Budgets>>

\* Loaded: the effect drops the timer when the list is no longer failed.
ListArrives(k) ==
  /\ fetch[k].pc = "read"
  /\ items' = [items EXCEPT ![k] = fetch[k].data]
  /\ fetch' = [fetch EXCEPT ![k] = Resting]
  /\ outdated' = outdated \ {k} /\ failed' = failed \ {k}
  /\ behind' = IF fetch[k].old THEN behind \cup {k} ELSE behind \ {k}
  /\ retry' = (retry /\ k # key)
  /\ UNCHANGED <<rows, page, filter, dialog, edit, Budgets>>

\* Fault: the effect follows isError alone.
RearmsFault(k) == IF k \in failed THEN retry ELSE TRUE

\* The effect follows the error too: every failure sets the timer again.
Rearms(k) == TRUE

\* Both attempts failed.
ListFails(k) ==
  /\ fetch[k].pc # "none" /\ listFaults < MaxListFaults
  /\ listFaults' = listFaults + 1
  /\ fetch' = [fetch EXCEPT ![k] = Resting]
  /\ failed' = failed \cup {k}
  /\ retry' = IF k = key THEN Rearms(k) ELSE retry
  /\ UNCHANGED <<rows, page, filter, items, outdated, behind, dialog, edit, changes>>

-----------------------------------------------------------------------------
(* What the admin does to a device on the screen, from the row as it is shown. *)

Shown == IF items[key] = Nothing THEN UNION {ToSet(items[k].rows) : k \in {j \in ListKeys : items[j] # Nothing}}
         ELSE ToSet(items[key].rows)

SendChange(what, d, on) ==
  /\ changes < MaxChanges /\ changes' = changes + 1
  /\ \E c \in Slots :
       /\ edit[c].pc = "idle"
       /\ edit' = [edit EXCEPT ![c] = [pc |-> "sent", field |-> what, device |-> d, on |-> on]]
  /\ UNCHANGED <<rows, page, filter, Data, fetch, retry, listFaults>>

\* handlePin
Pin ==
  /\ dialog = NoDialog
  /\ \E r \in Shown : SendChange("pinned", r.device, "pinned" \notin r.fields)
  /\ UNCHANGED dialog

Open(kind) ==
  /\ dialog = NoDialog
  /\ \E r \in Shown : dialog' = [kind |-> kind, device |-> r]
  /\ UNCHANGED <<rows, page, filter, Data, fetch, retry, edit, Budgets>>

Cancel ==
  /\ dialog # NoDialog /\ dialog' = NoDialog
  /\ UNCHANGED <<rows, page, filter, Data, fetch, retry, edit, Budgets>>

\* The alias is sent and the dialog closed at once; an alias cannot be taken away.
SaveAlias ==
  /\ dialog.kind = "alias"
  /\ SendChange("alias", dialog.device.device, TRUE)
  /\ dialog' = NoDialog

\* PasswordDialog: it stays open until the answer, with its buttons enabled.
SavePassword ==
  /\ dialog.kind = "password"
  /\ \E on \in {TRUE} \cup (IF "password" \in dialog.device.fields THEN {FALSE} ELSE {}) :
       SendChange("password", dialog.device.device, on)
  /\ UNCHANGED dialog

\* One deletion at a time: deleteDevice.isPending.
Delete ==
  /\ dialog.kind = "delete"
  /\ \A c \in Slots : edit[c].field # "row"
  /\ SendChange("row", dialog.device.device, TRUE)
  /\ UNCHANGED dialog

\* Fault: the caller's refetch of what is shown is all.
StaleAfterFault == outdated

\* invalidateQueries of everything below "devices".
StaleAfter == {k \in ListKeys : items[k] # Nothing}

\* onSuccess, then the handler: the shown list is loaded again, the others when they
\* are turned to.  A deletion closes whatever dialog is open, also when it failed; a
\* password does when it was saved.
ChangeAnswered(c) ==
  /\ edit[c].pc \in {"ok", "refused"}
  /\ edit' = [edit EXCEPT ![c] = NoChange]
  /\ \/ /\ edit[c].pc = "ok"
        /\ outdated' = StaleAfter
        /\ fetch' = [k \in ListKeys |-> IF fetch[k].pc # "none" /\ (k # key \/ items[k] = Nothing)
                                    THEN [fetch[k] EXCEPT !.old = TRUE] ELSE Refetched(key)[k]]
        /\ dialog' = IF edit[c].field \in {"row", "password"} THEN NoDialog ELSE dialog
     \/ /\ edit[c].pc = "refused"
        /\ dialog' = IF edit[c].field = "row" THEN NoDialog ELSE dialog
        /\ UNCHANGED <<outdated, fetch>>
  /\ UNCHANGED <<rows, page, filter, items, failed, behind, retry, Budgets>>

ListNext ==
  \/ \E d \in Devices : PresenceChanges(d)
  \/ \E k \in ListKeys : ListRead(k) \/ ListArrives(k) \/ ListFails(k)
  \/ \E c \in Slots : HandleChange(c) \/ ChangeAnswered(c)
  \/ \E kind \in {"alias", "password", "delete"} : Open(kind)
  \/ PageTurns \/ FilterChanges \/ PollList \/ RetryTimer
  \/ Pin \/ Cancel \/ SaveAlias \/ SavePassword \/ Delete

\* Requests are answered and timers fire; nothing else is promised.
ListFairness ==
  /\ WF_listVars(RetryTimer)
  /\ WF_listVars(ListRead(key) \/ ListArrives(key))

ListSpec == ListInit /\ [][ListNext]_listVars

-----------------------------------------------------------------------------
Busy == (\E c \in Slots : edit[c].pc # "idle") \/ fetch[key].pc # "none"

\* What is shown once everything is answered is what the changes made of the devices,
\* on whatever page they were made and whatever was loaded before: but for lists that
\* failed, and for a load that the change outran: a first one, or one of a page left.
ListFresh ==
  ~Busy /\ items[key] # Nothing /\ key \notin failed \cup behind =>
    \A r \in ToSet(items[key].rows) :
      rows[r.device] # Nothing /\ r.fields \ {"online"} = rows[r.device] \ {"online"}

\* "Self-healing: ... While the list query is errored, retry on a short timer until it
\* succeeds": a list that failed is loaded at last, if the admin stays on it.
ListHeals == key \in failed ~> key \notin failed

-----------------------------------------------------------------------------
\* The same without the exception: TLC refutes it, a load that has read the list
\* before a change, and is not cancelled, counts as fresh.
AlwaysFresh ==
  ~Busy /\ items[key] # Nothing /\ key \notin failed =>
    \A r \in ToSet(items[key].rows) : rows[r.device] # Nothing

\* A dialog is closed by the admin or by its own device: TLC refutes it.
DialogsApart == [][dialog # NoDialog /\ dialog' = NoDialog =>
  \A c \in Slots : edit'[c] # edit[c] /\ edit'[c] = NoChange => edit[c].device = dialog.device.device]_listVars

\* The page that is shown exists: TLC refutes it, the last device of it may go.
PageExists == ~Busy /\ items[key] # Nothing /\ page > 1 => items[key].rows # <<>>

=============================================================================
