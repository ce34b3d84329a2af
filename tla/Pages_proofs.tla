---------------------------- MODULE Pages_proofs ----------------------------
(***************************************************************************)
(* What holds of the pages of the panel for any number of devices, fields, *)
(* images and requests under way: what they show and keep when everything  *)
(* has been answered, that the documents they build are accepted, and that *)
(* journal and chat are true to the session they outlive.                  *)
(***************************************************************************)
EXTENDS DeviceList, SettingsForms, DownloadConfig, SessionChat, FiniteSetTheorems,
        SequenceTheorems, TLAPS

-----------------------------------------------------------------------------
(* Operators. *)

\* A finite set as a sequence.
LEMMA SetAsSeq ==
  ASSUME NEW S, IsFiniteSet(S)
  PROVE  /\ SetToSeq(S) \in Seq(S)
         /\ \A i \in DOMAIN SetToSeq(S) : SetToSeq(S)[i] \in S
         /\ Len(SetToSeq(S)) = Cardinality(S)
<1>1. Cardinality(S) \in Nat /\ ExistsBijection(1..Cardinality(S), S)
  BY FS_CardinalityType
<1>2. \E f \in [1..Cardinality(S) -> S] : IsInjective(f)
  BY <1>1 DEF ExistsBijection, Bijection, Injection
<1>3. SetToSeq(S) \in [1..Cardinality(S) -> S]
  BY <1>2 DEF SetToSeq
<1> QED
  BY <1>1, <1>3

\* The shorter of two lengths.
LEMMA MinOfTwo ==
  ASSUME NEW a \in Int, NEW b \in Int
  PROVE  Min({a, b}) \in Int /\ Min({a, b}) <= a /\ Min({a, b}) <= b
<1>1. \E x \in {a, b} : \A y \in {a, b} : x =< y
  OBVIOUS
<1> QED
  BY <1>1 DEF Min

-----------------------------------------------------------------------------
(* The device list: what is shown is what the changes made of the devices. *)

ListRow == [device : Devices, fields : SUBSET Fields]
ListData == [total : Nat, rows : Seq(ListRow)]
ListRequest == [pc : {"none", "sent", "read"}, data : ListData \cup {Nothing}, old : BOOLEAN]
ListDialog == {NoDialog} \cup [kind : {"alias", "password", "delete"}, device : ListRow]
DeviceChange == [pc : {"sent", "ok", "refused"}, field : {"alias", "pinned", "password", "row"},
           device : Devices, on : BOOLEAN]

ListTypeOK ==
  /\ rows \in [Devices -> (SUBSET Fields) \cup {Nothing}]
  /\ page \in 1..LastPage /\ filter \in Filters
  /\ items \in [ListKeys -> ListData \cup {Nothing}]
  /\ fetch \in [ListKeys -> ListRequest]
  /\ dialog \in ListDialog
  /\ edit \in [Slots -> DeviceChange \cup {NoChange}]

\* List x has of every device what table t has.
Fresh(t, x) ==
  \A i \in DOMAIN x.rows :
    LET r == x.rows[i] IN
    /\ r.device \in Devices /\ t[r.device] # Nothing
    /\ r.fields \ {"online"} = t[r.device] \ {"online"}

LEMMA ListedFresh ==
  ASSUME rows \in [Devices -> (SUBSET Fields) \cup {Nothing}], NEW k \in ListKeys
  PROVE  Listed(k) \in ListData /\ Fresh(rows, Listed(k))
<1> DEFINE these == {d \in Devices : Matches(k[1], d)}
           pinned == {d \in these : "pinned" \in rows[d]}
           all == Sorted(k[1])
           from == (k[2] - 1) * PageSize
           upto == Min({from + PageSize, Len(all)})
           part == SubSeq(all, from + 1, upto)
<1>1. IsFiniteSet(pinned) /\ IsFiniteSet(these \ pinned)
  BY DevicesAssumption, FS_Subset
<1>2. SetToSeq(pinned) \in Seq(these) /\ SetToSeq(these \ pinned) \in Seq(these)
  BY <1>1, SetAsSeq
<1>3. all \in Seq(these)
  BY <1>2 DEF Sorted
<1>4. from \in Nat
  BY ListBoundsAssumption DEF ListKeys
<1>5. upto \in Int /\ upto <= Len(all)
  <2>1. from + PageSize \in Int /\ Len(all) \in Int
    BY <1>3, <1>4, ListBoundsAssumption
  <2> HIDE DEF from, all
  <2> QED
    BY <2>1, MinOfTwo
<1> HIDE DEF upto, from, all, these
<1>6. part \in Seq(these)
  BY <1>3, <1>4, <1>5, SubSeqProperties
<1>7. \A d \in these : d \in Devices /\ rows[d] # Nothing /\ rows[d] \in SUBSET Fields
  BY DEF these, Matches
<1> DEFINE x == [total |-> Len(all),
                 rows |-> [i \in 1..Len(part) |-> [device |-> part[i], fields |-> rows[part[i]]]]]
<1>8. Listed(k) = x
  BY DEF Listed, all, from, upto
<1>9. \A i \in 1..Len(part) : part[i] \in these
  BY <1>6
<1>10. \A i \in 1..Len(part) : [device |-> part[i], fields |-> rows[part[i]]] \in ListRow
  BY <1>7, <1>9 DEF ListRow
<1> HIDE DEF part
<1>11. Len(part) \in Nat /\ Len(all) \in Nat
  BY <1>3, <1>6
<1>12. x \in ListData
  BY <1>10, <1>11 DEF ListData
<1>13. Fresh(rows, x)
  BY <1>7, <1>9, <1>11 DEF Fresh
<1> QED
  BY <1>8, <1>12, <1>13

\* Why the list is right at rest: what was loaded is what the table has, unless it is
\* marked as outdated or overtaken, or a change was made that is still to be answered;
\* and what is marked is asked for once it is shown.
Pending == \E c \in Slots : edit[c].pc = "ok"

ListInv ==
  /\ ListTypeOK
  /\ key \in outdated => fetch[key].pc # "none" \/ key \in failed
  /\ ~Pending => \A k \in ListKeys :
       /\ items[k] # Nothing /\ k \notin outdated \cup behind => Fresh(rows, items[k])
       /\ fetch[k].pc = "read" /\ ~fetch[k].old => Fresh(rows, fetch[k].data)

LEMMA KeyListed == ListTypeOK => key \in ListKeys
BY DEF ListTypeOK, key, ListKeys

LEMMA ListAskedRequest ==
  /\ ListAsked \in ListRequest /\ ListAsked.pc = "sent"
  /\ Resting \in ListRequest /\ Resting.pc = "none"
BY DEF ListAsked, Resting, ListRequest

LEMMA ListInvInit == ListInit => ListInv
<1> SUFFICES ASSUME ListInit PROVE ListInv
    OBVIOUS
<1>1. ListTypeOK
  <2>1. \A d \in Devices : rows[d] \in (SUBSET Fields) \cup {Nothing}
    BY DEF ListInit, Fields
  <2> QED
    BY <2>1, ListAskedRequest, FiltersAssumption, ListBoundsAssumption
       DEF ListInit, ListTypeOK, ListDialog
<1>2. \A k \in ListKeys : fetch[k].pc # "read" /\ items[k] = Nothing
  BY ListAskedRequest DEF ListInit
<1> QED
  BY <1>1, <1>2 DEF ListInv, ListInit

\* What is shown is about devices.
LEMMA ShownRows == ListTypeOK => Shown \subseteq ListRow
<1> SUFFICES ASSUME ListTypeOK PROVE Shown \subseteq ListRow
    OBVIOUS
<1>1. ASSUME NEW k \in ListKeys, items[k] # Nothing PROVE ToSet(items[k].rows) \subseteq ListRow
  BY <1>1 DEF ListTypeOK, ListData, ToSet
<1> QED
  BY <1>1, KeyListed DEF Shown

\* The table, the changes under way and what was loaded stay; the page that is shown
\* is asked for if it is to be loaded again.
LEMMA ListKept ==
  ASSUME ListInv, ListTypeOK', UNCHANGED <<rows, edit, items, outdated, behind>>,
         failed \subseteq failed',
         \A k \in ListKeys : \/ fetch'[k] = fetch[k]
                             \/ fetch'[k] = ListAsked
                             \/ fetch'[k] = Resting /\ k \in failed',
         key' \in outdated => fetch'[key'].pc # "none" \/ key' \in failed'
  PROVE  ListInv'
<1>1. Pending' <=> Pending
  BY DEF Pending
<1>2. \A k \in ListKeys : fetch'[k] = fetch[k] \/ fetch'[k].pc # "read"
  BY ListAskedRequest
<1>3. ASSUME ~Pending', NEW k \in ListKeys
      PROVE  /\ items'[k] # Nothing /\ k \notin outdated' \cup behind' => Fresh(rows', items'[k])
             /\ fetch'[k].pc = "read" /\ ~fetch'[k].old => Fresh(rows', fetch'[k].data)
  BY <1>1, <1>2, <1>3 DEF ListInv
<1> QED
  BY <1>3 DEF ListInv, key

LEMMA ListTypeNext == ListTypeOK /\ [ListNext]_listVars => ListTypeOK'
<1> SUFFICES ASSUME ListTypeOK, [ListNext]_listVars PROVE ListTypeOK'
    OBVIOUS
<1> USE DEF ListTypeOK, Data, Budgets
<1>0. \A f \in Filters, p \in 1..LastPage : <<f, p>> \in ListKeys
  BY DEF ListKeys
<1>1. ASSUME NEW d \in Devices, PresenceChanges(d) PROVE ListTypeOK'
  BY <1>1 DEF PresenceChanges, Fields
<1>2. ASSUME NEW k \in ListKeys, ListRead(k) \/ ListArrives(k) \/ ListFails(k) PROVE ListTypeOK'
  <2>1. CASE ListRead(k)
    <3>1. [fetch[k] EXCEPT !.pc = "read", !.data = Listed(k)] \in ListRequest
      BY ListedFresh DEF ListRequest
    <3>2. fetch' = [fetch EXCEPT ![k] = [fetch[k] EXCEPT !.pc = "read", !.data = Listed(k)]]
      BY <2>1 DEF ListRead
    <3> QED
      BY <2>1, <3>1, <3>2 DEF ListRead
  <2>2. CASE ListArrives(k)
    <3>1. fetch[k].data \in ListData \cup {Nothing}
      BY DEF ListRequest
    <3> QED
      BY <2>2, <3>1, ListAskedRequest DEF ListArrives
  <2>3. CASE ListFails(k)
    BY <2>3, ListAskedRequest DEF ListFails
  <2> QED
    BY <1>2, <2>1, <2>2, <2>3
<1>3. ASSUME NEW c \in Slots, HandleChange(c) PROVE ListTypeOK'
  <2>1. edit[c] \in DeviceChange
    BY <1>3 DEF HandleChange, NoChange
  <2>2. \A p \in {"ok", "refused"} : [edit[c] EXCEPT !.pc = p] \in DeviceChange
    BY <2>1 DEF DeviceChange
  <2>3. edit' \in [Slots -> DeviceChange \cup {NoChange}]
    <3>1. PICK p \in {"ok", "refused"} : edit' = [edit EXCEPT ![c] = [edit[c] EXCEPT !.pc = p]]
      BY <1>3 DEF HandleChange
    <3> QED
      BY <2>2, <3>1
  <2>4. rows' \in [Devices -> (SUBSET Fields) \cup {Nothing}]
    <3>1. edit[c].field # "row" => edit[c].field \in Fields
      BY <2>1 DEF DeviceChange, Fields
    <3> QED
      BY <1>3, <2>1, <3>1 DEF HandleChange, DeviceChange
  <2> QED
    BY <1>3, <2>3, <2>4 DEF HandleChange
<1>4. ASSUME NEW c \in Slots, ChangeAnswered(c) PROVE ListTypeOK'
  <2>1. fetch' \in [ListKeys -> ListRequest]
    <3>1. \A k \in ListKeys : [fetch[k] EXCEPT !.old = TRUE] \in ListRequest
      BY DEF ListRequest
    <3>2. Refetched(key) \in [ListKeys -> ListRequest]
      BY ListAskedRequest, KeyListed DEF Refetched
    <3> QED
      BY <1>4, <3>1, <3>2 DEF ChangeAnswered
  <2>2. dialog' \in ListDialog
    BY <1>4 DEF ChangeAnswered, ListDialog
  <2> QED
    BY <1>4, <2>1, <2>2 DEF ChangeAnswered
<1>5. ASSUME NEW kind \in {"alias", "password", "delete"}, Open(kind) PROVE ListTypeOK'
  BY <1>5, ShownRows DEF Open, ListDialog
<1>6. ASSUME NEW f \in Filters, NEW p \in 1..LastPage, Turn(f, p) PROVE ListTypeOK'
  BY <1>0, <1>6, ListAskedRequest DEF Turn
<1>7. CASE PageTurns
  <2>1. page > 1 => page - 1 \in 1..LastPage
    BY ListBoundsAssumption
  <2>2. page < LastPage => page + 1 \in 1..LastPage
    BY ListBoundsAssumption
  <2> QED
    BY <1>6, <1>7, <2>1, <2>2 DEF PageTurns
<1>8. CASE FilterChanges
  <2>1. 1 \in 1..LastPage
    BY ListBoundsAssumption
  <2> QED
    BY <1>6, <1>8, <2>1 DEF FilterChanges
<1>9. CASE PollList \/ RetryTimer
  BY <1>9, ListAskedRequest, KeyListed DEF PollList, RetryTimer, Refetched
<1>10. ASSUME NEW w \in {"alias", "pinned", "password", "row"}, NEW r \in ListRow, NEW on \in BOOLEAN,
              SendChange(w, r.device, on), dialog' \in {dialog, NoDialog}
       PROVE  ListTypeOK'
  <2>1. [pc |-> "sent", field |-> w, device |-> r.device, on |-> on] \in DeviceChange
    BY DEF DeviceChange, ListRow
  <2>2. dialog' \in ListDialog
    BY <1>10 DEF ListDialog
  <2> QED
    BY <1>10, <2>1, <2>2 DEF SendChange
<1>11. CASE Pin
  BY <1>10, <1>11, ShownRows DEF Pin
<1>12. CASE SaveAlias \/ SavePassword \/ Delete
  <2>1. dialog # NoDialog /\ dialog.device \in ListRow
    <3>1. dialog.kind # "none"
      BY <1>12 DEF SaveAlias, SavePassword, Delete
    <3>2. NoDialog.kind = "none"
      BY DEF NoDialog
    <3> QED
      BY <3>1, <3>2 DEF ListDialog
  <2> QED
    BY <1>10, <1>12, <2>1 DEF SaveAlias, SavePassword, Delete
<1>13. CASE Cancel
  BY <1>13 DEF Cancel, ListDialog
<1>14. CASE UNCHANGED listVars
  BY <1>14 DEF listVars
<1> QED
  BY <1>1, <1>2, <1>3, <1>4, <1>5, <1>7, <1>8, <1>9, <1>11, <1>12, <1>13, <1>14 DEF ListNext

LEMMA ListInvNext == ListInv /\ [ListNext]_listVars => ListInv'
<1> SUFFICES ASSUME ListInv, [ListNext]_listVars PROVE ListInv'
    OBVIOUS
<1>0. ListTypeOK /\ ListTypeOK' /\ key \in ListKeys
  BY ListTypeNext, KeyListed DEF ListInv
<1> USE <1>0 DEF Data, Budgets
<1>00. key \in outdated => fetch[key].pc # "none" \/ key \in failed
  BY DEF ListInv
<1>1. ASSUME NEW d \in Devices, PresenceChanges(d) PROVE ListInv'
  <2>1. /\ UNCHANGED <<page, filter, items, outdated, failed, behind, fetch, edit>>
        /\ \A e \in Devices : rows[e] # Nothing =>
             rows'[e] # Nothing /\ rows'[e] \ {"online"} = rows[e] \ {"online"}
    <3>1. rows[d] \in SUBSET Fields /\ "online" \in Fields
      BY <1>1 DEF PresenceChanges, ListTypeOK, Fields
    <3>2. rows[d] \cup {"online"} # Nothing /\ rows[d] \ {"online"} # Nothing
      BY <3>1, NothingAssumption
    <3> QED
      BY <1>1, <3>2 DEF PresenceChanges, ListTypeOK
  <2>2. \A x : Fresh(rows, x) => Fresh(rows', x)
    BY <2>1 DEF Fresh
  <2>3. Pending' <=> Pending
    BY <2>1 DEF Pending
  <2> QED
    BY <2>1, <2>2, <2>3 DEF ListInv, key
<1>2. ASSUME NEW k \in ListKeys, ListRead(k) PROVE ListInv'
  <2>1. /\ fetch[k].pc = "sent" /\ fetch'[k].pc = "read" /\ fetch'[k].data = Listed(k)
        /\ \A j \in ListKeys \ {k} : fetch'[j] = fetch[j]
        /\ UNCHANGED <<rows, page, filter, items, outdated, failed, behind, edit>>
    <3>1. /\ [fetch[k] EXCEPT !.pc = "read", !.data = Listed(k)].pc = "read"
          /\ [fetch[k] EXCEPT !.pc = "read", !.data = Listed(k)].data = Listed(k)
      BY DEF ListTypeOK, ListRequest
    <3>2. fetch' = [fetch EXCEPT ![k] = [fetch[k] EXCEPT !.pc = "read", !.data = Listed(k)]]
      BY <1>2 DEF ListRead
    <3> QED
      BY <1>2, <3>1, <3>2 DEF ListRead, ListTypeOK
  <2>2. Fresh(rows, Listed(k))
    BY ListedFresh DEF ListTypeOK
  <2>3. (Pending' <=> Pending) /\ key' = key
    BY <2>1 DEF Pending, key
  <2> QED
    BY <2>1, <2>2, <2>3 DEF ListInv
<1>3. ASSUME NEW k \in ListKeys, ListArrives(k) PROVE ListInv'
  <2>1. /\ fetch[k].pc = "read" /\ items' = [items EXCEPT ![k] = fetch[k].data]
        /\ fetch' = [fetch EXCEPT ![k] = Resting]
        /\ outdated' = outdated \ {k} /\ failed' = failed \ {k}
        /\ behind' = IF fetch[k].old THEN behind \cup {k} ELSE behind \ {k}
        /\ UNCHANGED <<rows, page, filter, edit>>
    BY <1>3 DEF ListArrives
  <2>2. (Pending' <=> Pending) /\ key' = key
    BY <2>1 DEF Pending, key
  <2>3. key' \in outdated' => fetch'[key'].pc # "none" \/ key' \in failed'
    BY <2>1, <2>2 DEF ListInv, ListTypeOK
  <2>4. ASSUME ~Pending', NEW j \in ListKeys
        PROVE  /\ items'[j] # Nothing /\ j \notin outdated' \cup behind' => Fresh(rows', items'[j])
               /\ fetch'[j].pc = "read" /\ ~fetch'[j].old => Fresh(rows', fetch'[j].data)
    <3>1. CASE j = k
      BY <2>1, <2>2, <2>4, <3>1, ListAskedRequest DEF ListInv, ListTypeOK
    <3>2. CASE j # k
      BY <2>1, <2>2, <2>4, <3>2 DEF ListInv, ListTypeOK
    <3> QED
      BY <3>1, <3>2
  <2> QED
    BY <2>3, <2>4 DEF ListInv
<1>4. ASSUME NEW k \in ListKeys, ListFails(k) PROVE ListInv'
  <2>1. /\ UNCHANGED <<rows, edit, items, outdated, behind>> /\ failed' = failed \cup {k} /\ key' = key
        /\ fetch' = [fetch EXCEPT ![k] = Resting]
    BY <1>4 DEF ListFails, key
  <2>2. fetch'[k] = Resting /\ \A j \in ListKeys \ {k} : fetch'[j] = fetch[j]
    BY <2>1 DEF ListTypeOK
  <2>3. key' \in outdated => fetch'[key'].pc # "none" \/ key' \in failed'
    BY <1>00, <2>1, <2>2
  <2> QED
    BY <2>1, <2>2, <2>3, ListKept
<1>5. ASSUME NEW c \in Slots, HandleChange(c) PROVE ListInv'
  <2>0. edit[c] \in DeviceChange
    BY <1>5 DEF HandleChange, NoChange, ListTypeOK
  <2>1. PICK p \in {"ok", "refused"} :
          /\ edit' = [edit EXCEPT ![c] = [edit[c] EXCEPT !.pc = p]]
          /\ p = "refused" => rows' = rows
    BY <1>5 DEF HandleChange
  <2>2. UNCHANGED <<page, filter, items, outdated, failed, behind, fetch>> /\ edit[c].pc = "sent"
    BY <1>5 DEF HandleChange
  <2>3. edit'[c].pc = p /\ \A d \in Slots \ {c} : edit'[d] = edit[d]
    <3>1. [edit[c] EXCEPT !.pc = p].pc = p
      BY <2>0 DEF DeviceChange
    <3> QED
      BY <2>1, <3>1 DEF ListTypeOK
  <2>4. ~Pending' => ~Pending /\ rows' = rows
    BY <2>1, <2>2, <2>3 DEF Pending
  <2> QED
    BY <2>2, <2>4 DEF ListInv, key
<1>6. ASSUME NEW c \in Slots, ChangeAnswered(c) PROVE ListInv'
  <2>1. /\ edit' = [edit EXCEPT ![c] = NoChange] /\ edit[c].pc \in {"ok", "refused"}
        /\ UNCHANGED <<rows, page, filter, items, failed, behind>>
    BY <1>6 DEF ChangeAnswered
  <2>2. CASE edit[c].pc = "refused"
    <3>1. UNCHANGED <<outdated, fetch>>
      BY <1>6, <2>2 DEF ChangeAnswered
    <3>2. Pending' <=> Pending
      BY <2>1, <2>2 DEF Pending, ListTypeOK, NoChange
    <3> QED
      BY <2>1, <3>1, <3>2 DEF ListInv, key
  <2>3. CASE edit[c].pc = "ok"
    <3>1. /\ outdated' = StaleAfter
          /\ fetch' = [k \in ListKeys |-> IF fetch[k].pc # "none" /\ (k # key \/ items[k] = Nothing)
                                         THEN [fetch[k] EXCEPT !.old = TRUE] ELSE Refetched(key)[k]]
      BY <1>6, <2>3 DEF ChangeAnswered
    <3>2. ASSUME NEW k \in ListKeys PROVE fetch'[k].pc = "read" => fetch'[k].old
      <4>1. CASE fetch[k].pc # "none" /\ (k # key \/ items[k] = Nothing)
        <5>1. [fetch[k] EXCEPT !.old = TRUE].old = TRUE
          BY DEF ListTypeOK, ListRequest
        <5> QED
          BY <3>1, <4>1, <5>1
      <4>2. CASE fetch[k].pc = "none" \/ (k = key /\ items[k] # Nothing)
        BY <3>1, <4>2, ListAskedRequest DEF Refetched, ListTypeOK
      <4> QED
        BY <4>1, <4>2
    <3>3. items[key] # Nothing => fetch'[key].pc # "none"
      BY <3>1, ListAskedRequest DEF Refetched, ListTypeOK
    <3> QED
      BY <2>1, <3>1, <3>2, <3>3 DEF ListInv, StaleAfter, key
  <2> QED
    BY <2>1, <2>2, <2>3
<1>7. ASSUME NEW f \in Filters, NEW p \in 1..LastPage, Turn(f, p) PROVE ListInv'
  <2>1. /\ key' = <<f, p>> /\ <<f, p>> \in ListKeys
        /\ UNCHANGED <<rows, items, outdated, failed, behind, edit>>
        /\ fetch' = IF fetch[<<f, p>>].pc = "none" /\ (items[<<f, p>>] = Nothing \/ <<f, p>> \in outdated)
                    THEN [fetch EXCEPT ![<<f, p>>] = ListAsked] ELSE fetch
    BY <1>7 DEF Turn, key, ListKeys
  <2> DEFINE n == <<f, p>>
  <2>2. n \in outdated => fetch'[n].pc # "none"
    BY <2>1, ListAskedRequest DEF ListTypeOK
  <2>3. \A k \in ListKeys : fetch'[k] = fetch[k] \/ fetch'[k] = ListAsked
    BY <2>1 DEF ListTypeOK
  <2>4. key' = n /\ UNCHANGED <<rows, items, outdated, failed, behind, edit>>
    BY <2>1
  <2> HIDE DEF n
  <2> QED
    BY <2>2, <2>3, <2>4, ListKept
<1>8. CASE PageTurns
  <2>1. page > 1 => page - 1 \in 1..LastPage
    BY ListBoundsAssumption DEF ListTypeOK
  <2>2. page < LastPage => page + 1 \in 1..LastPage
    BY ListBoundsAssumption DEF ListTypeOK
  <2> QED
    BY <1>7, <1>8, <2>1, <2>2 DEF PageTurns, ListTypeOK
<1>9. CASE FilterChanges
  <2>1. 1 \in 1..LastPage
    BY ListBoundsAssumption
  <2> QED
    BY <1>7, <1>9, <2>1 DEF FilterChanges
<1>10. CASE PollList \/ RetryTimer
  <2>1. /\ UNCHANGED <<rows, edit, items, outdated, behind, failed>> /\ key' = key
        /\ fetch' \in {fetch, [fetch EXCEPT ![key] = ListAsked]}
    BY <1>10 DEF PollList, RetryTimer, Refetched, key
  <2>2. \A k \in ListKeys : fetch'[k] = fetch[k] \/ fetch'[k] = ListAsked
    BY <2>1 DEF ListTypeOK
  <2>3. key \in outdated => fetch'[key].pc # "none" \/ key \in failed
    BY <1>00, <2>2, ListAskedRequest
  <2> QED
    BY <2>1, <2>2, <2>3, ListKept
<1>11. ASSUME NEW w, NEW d, NEW on, SendChange(w, d, on) PROVE ListInv'
  <2>1. /\ UNCHANGED <<rows, page, filter, items, outdated, failed, behind, fetch>>
        /\ \E c \in Slots : /\ edit[c].pc = "idle"
                            /\ edit' = [edit EXCEPT ![c] =
                                  [pc |-> "sent", field |-> w, device |-> d, on |-> on]]
    BY <1>11 DEF SendChange
  <2>2. Pending' <=> Pending
    BY <2>1 DEF Pending, ListTypeOK
  <2> QED
    BY <2>1, <2>2 DEF ListInv, key
<1>12. CASE Pin
  BY <1>11, <1>12 DEF Pin
<1>13. CASE SaveAlias \/ SavePassword \/ Delete
  BY <1>11, <1>13 DEF SaveAlias, SavePassword, Delete
<1>14. CASE Cancel \/ \E kind \in {"alias", "password", "delete"} : Open(kind)
  <2>1. UNCHANGED <<rows, edit, items, outdated, behind, failed, fetch>> /\ key' = key
    BY <1>14 DEF Cancel, Open, key
  <2> QED
    BY <1>00, <2>1, ListKept
<1>15. CASE UNCHANGED listVars
  <2>1. UNCHANGED <<rows, edit, items, outdated, behind, failed, fetch>> /\ key' = key
    BY <1>15 DEF listVars, key
  <2> QED
    BY <1>00, <2>1, ListKept
<1> QED
  BY <1>1, <1>2, <1>3, <1>4, <1>5, <1>6, <1>8, <1>9, <1>10, <1>12, <1>13, <1>14, <1>15 DEF ListNext

\* However many changes are under way at a time, whichever pages and filters are
\* turned to and whatever fails, what is shown once everything is answered is what
\* the changes made of the devices, but for lists that failed and loads that a change
\* outran (the invalidations of api/devices.ts and DevicesPage.tsx).
THEOREM ListIsFresh == ListSpec => []ListFresh
<1>1. ListInv => ListFresh
  <2> SUFFICES ASSUME ListInv, ~Busy, items[key] # Nothing, key \notin failed \cup behind
               PROVE  \A r \in ToSet(items[key].rows) :
                        rows[r.device] # Nothing /\ r.fields \ {"online"} = rows[r.device] \ {"online"}
    BY DEF ListFresh
  <2>1. ~Pending /\ key \notin outdated /\ key \in ListKeys
    BY KeyListed DEF Busy, Pending, ListInv
  <2>2. Fresh(rows, items[key])
    BY <2>1 DEF ListInv
  <2> QED
    BY <2>2 DEF Fresh, ToSet
<1> QED
  BY <1>1, ListInvInit, ListInvNext, PTL DEF ListSpec

-----------------------------------------------------------------------------
(* The forms of the settings page. *)

SettingsTypeOK ==
  /\ table \in [SettingFields -> SettingValues]
  /\ reading \in [SettingFields -> SettingValues] \cup {NoGet, Asked}
  /\ settings \in [SettingFields -> SettingValues] \cup {Nowhere}
  /\ field \in [SettingFields -> SettingValues]
  /\ hydrated \in BOOLEAN
  /\ save \in [Saves -> SaveRecord \cup {Nowhere}]
  /\ writing \subseteq Saves
  /\ typed \in [Texts -> SettingValues \cup {Nowhere}]

\* A save has a field to put, and a value for each of its fields.
SavesInOrder ==
  \A s \in Saves :
    IF save[s] = Nowhere THEN s \notin writing
    ELSE /\ save[s].at \in 1..Len(SaveOrder[save[s].form])
         /\ save[s].sent \in [FieldsOf(save[s].form) -> SettingValues]

LEMMA FormFields ==
  ASSUME NEW form \in SettingForms
  PROVE  /\ FieldsOf(form) \subseteq SettingFields
         /\ \A i \in 1..Len(SaveOrder[form]) : SaveOrder[form][i] \in FieldsOf(form)
         /\ \A f \in FieldsOf(form) : \E i \in 1..Len(SaveOrder[form]) : SaveOrder[form][i] = f
         /\ Len(SaveOrder[form]) \in Nat \ {0}
BY SettingsAssumption DEF SettingFields, FieldsOf, ToSet

LEMMA SettingsTypeInit == SettingsInit => SettingsTypeOK /\ SavesInOrder
BY DEF SettingsInit, SettingsTypeOK, SavesInOrder, SettingValues, Default

LEMMA HydrateType ==
  ASSUME NEW now \in [SettingFields -> SettingValues], NEW done,
         NEW data \in [SettingFields -> SettingValues] \cup {Nowhere}, Draw(now, data, done),
         done \in BOOLEAN
  PROVE  field' \in [SettingFields -> SettingValues] /\ hydrated' \in BOOLEAN
BY DEF Draw, Hydrate

\* Crossing a write leaves a save what it is, but for what it knows of others.
LEMMA CrossedKeeps ==
  ASSUME SettingsTypeOK, NEW f, NEW but, NEW s \in Saves
  PROVE  /\ Crossed(f, but) \in [Saves -> SaveRecord \cup {Nowhere}]
         /\ save[s] = Nowhere => Crossed(f, but)[s] = Nowhere
         /\ save[s] # Nowhere =>
              LET new == Crossed(f, but)[s] IN
              /\ new # Nowhere /\ new \in SaveRecord
              /\ new.form = save[s].form /\ new.at = save[s].at /\ new.sent = save[s].sent
              /\ new.alone => save[s].alone /\ (s = but \/ f \notin FieldsOf(save[s].form))
<1> DEFINE new(t) == [save[t] EXCEPT !.alone = @ /\ f \notin FieldsOf(save[t].form)]
<1>1. ASSUME NEW t \in Saves, save[t] # Nowhere
      PROVE  /\ new(t) \in SaveRecord /\ new(t) # Nowhere
             /\ new(t).form = save[t].form /\ new(t).at = save[t].at /\ new(t).sent = save[t].sent
             /\ new(t).alone = (save[t].alone /\ f \notin FieldsOf(save[t].form))
  <2>1. save[t] \in SaveRecord
    BY <1>1 DEF SettingsTypeOK
  <2>2. new(t) \in SaveRecord
    BY <2>1 DEF SaveRecord
  <2> QED
    BY <2>1, <2>2, SettingsValuesAssumption DEF SaveRecord
<1> HIDE DEF new
<1>2. Crossed(f, but) = [t \in Saves |-> IF t = but \/ save[t] = Nowhere THEN save[t] ELSE new(t)]
  BY DEF Crossed, new
<1>3. Crossed(f, but) \in [Saves -> SaveRecord \cup {Nowhere}]
  BY <1>1, <1>2 DEF SettingsTypeOK
<1>4. CASE s = but
  BY <1>2, <1>3, <1>4 DEF SettingsTypeOK
<1>5. CASE s # but
  BY <1>1, <1>2, <1>3, <1>5
<1> QED
  BY <1>4, <1>5

LEMMA SettingsTypeNext ==
  SettingsTypeOK /\ SavesInOrder /\ [SettingsNext]_settingsVars => SettingsTypeOK' /\ SavesInOrder'
<1> SUFFICES ASSUME SettingsTypeOK, SavesInOrder, [SettingsNext]_settingsVars
             PROVE  SettingsTypeOK' /\ SavesInOrder'
    OBVIOUS
<1> USE DEF SettingsTypeOK, history
<1>1. ASSUME NEW f \in SettingFields, NEW v \in SettingValues, Type(f, v)
      PROVE  SettingsTypeOK' /\ SavesInOrder'
  <2>1. field' \in [SettingFields -> SettingValues] /\ hydrated' \in BOOLEAN
    BY <1>1, HydrateType DEF Type
  <2>2. typed' \in [Texts -> SettingValues \cup {Nowhere}]
    BY <1>1 DEF Type, Typed
  <2> QED
    BY <1>1, <2>1, <2>2 DEF Type, SavesInOrder
<1>2. ASSUME NEW f, NEW but, save' = Crossed(f, but) PROVE save' \in [Saves -> SaveRecord \cup {Nowhere}]
  <2>1. CASE Saves = {}
    BY <1>2, <2>1 DEF Crossed
  <2> QED
    BY <1>2, <2>1, CrossedKeeps
<1>3. ASSUME NEW f, NEW but, save' = Crossed(f, but),
             \A s \in Saves : s \in writing' /\ s \notin writing => save[s] # Nowhere
      PROVE  SavesInOrder'
  BY <1>3, CrossedKeeps DEF SavesInOrder
<1>4. ASSUME NEW f \in SettingFields, NEW v \in SettingValues, WrittenElsewhere(f, v)
      PROVE  SettingsTypeOK' /\ SavesInOrder'
  BY <1>2, <1>3, <1>4 DEF WrittenElsewhere
<1>5. ASSUME NEW s \in Saves, NEW form \in SettingForms,
             NEW values \in [FieldsOf(form) -> SettingValues], Start(s, form, values),
             writing' = writing
      PROVE  save' \in [Saves -> SaveRecord \cup {Nowhere}] /\ SavesInOrder'
  <2> DEFINE r == [form |-> form, at |-> 1, sent |-> values, alone |-> TRUE]
  <2>1. r \in SaveRecord /\ r # Nowhere
    <3>1. values \in UNION {[FieldsOf(f) -> SettingValues] : f \in SettingForms}
      OBVIOUS
    <3>2. r \in SaveRecord
      BY <3>1 DEF SaveRecord
    <3> QED
      BY <3>2, SettingsValuesAssumption
  <2>2. r.form = form /\ r.at = 1 /\ r.sent = values
    OBVIOUS
  <2>3. save[s] = Nowhere /\ save' = [save EXCEPT ![s] = r]
    BY <1>5 DEF Start
  <2> HIDE DEF r
  <2>4. 1 \in 1..Len(SaveOrder[form])
    BY FormFields
  <2> QED
    BY <1>5, <2>1, <2>2, <2>3, <2>4 DEF SavesInOrder
<1>6. ASSUME NEW s \in Saves, NEW form \in SettingForms, Submit(s, form)
      PROVE  SettingsTypeOK' /\ SavesInOrder'
  <2>1. [f \in FieldsOf(form) |-> Trim(field[f])] \in [FieldsOf(form) -> SettingValues]
    BY FormFields DEF Trim, SettingValues
  <2> QED
    BY <1>5, <1>6, <2>1 DEF Submit
<1>7. ASSUME NEW s \in Saves, NEW v \in {"x", "y"}, ChangeMode(s, v)
      PROVE  SettingsTypeOK' /\ SavesInOrder'
  <2>1. [f \in FieldsOf(ModeForm) |-> v] \in [FieldsOf(ModeForm) -> SettingValues]
    BY DEF SettingValues
  <2>2. field' \in [SettingFields -> SettingValues]
    BY <1>7 DEF ChangeMode, SettingValues
  <2> QED
    BY <1>5, <1>7, <2>1, <2>2, SettingsAssumption DEF ChangeMode
<1>8. ASSUME NEW s \in Saves, Write(s) PROVE SettingsTypeOK' /\ SavesInOrder'
  <2>1. ValueOf(s) \in SettingValues
    BY <1>8, FormFields DEF Write, SavesInOrder, ValueOf, SaveRecord
  <2> QED
    BY <1>2, <1>3, <1>8, <2>1 DEF Write
<1>9. ASSUME NEW s \in Saves, s \in writing, writing' = writing \ {s}, Continue(s) \/ SaveFinishes(s)
      PROVE  /\ save' \in [Saves -> SaveRecord \cup {Nowhere}] /\ SavesInOrder'
             /\ field' \in [SettingFields -> SettingValues]
             /\ typed' \in [Texts -> SettingValues \cup {Nowhere}]
  <2>0. save[s] # Nowhere /\ save[s] \in SaveRecord
        /\ save[s].at \in 1..Len(SaveOrder[save[s].form]) /\ save[s].form \in SettingForms
        /\ save[s].sent \in [FieldsOf(save[s].form) -> SettingValues]
    BY <1>9 DEF SavesInOrder, SaveRecord
  <2>1. CASE Continue(s)
    <3> DEFINE r == [save[s] EXCEPT !.at = @ + 1]
    <3>1. r \in SaveRecord /\ r.form = save[s].form /\ r.at = save[s].at + 1 /\ r.sent = save[s].sent
      BY <2>0 DEF SaveRecord
    <3>2. r.at \in 1..Len(SaveOrder[save[s].form])
      BY <2>0, <2>1, <3>1, FormFields DEF Continue, Done
    <3>3. save' = [save EXCEPT ![s] = r] /\ UNCHANGED <<field, typed>>
      BY <2>1 DEF Continue
    <3> HIDE DEF r
    <3> QED
      BY <1>9, <2>0, <3>1, <3>2, <3>3 DEF SavesInOrder
  <2>2. CASE SaveFinishes(s)
    <3>1. save' = [save EXCEPT ![s] = Nowhere]
      BY <2>2 DEF SaveFinishes
    <3>2. /\ field' \in [SettingFields -> SettingValues]
          /\ typed' \in [Texts -> SettingValues \cup {Nowhere}]
      BY <2>0, <2>2 DEF SaveFinishes
    <3> QED
      BY <1>9, <3>1, <3>2 DEF SavesInOrder
  <2> QED
    BY <1>9, <2>1, <2>2
<1>10. ASSUME NEW s \in Saves, SaveSettled(s) PROVE SettingsTypeOK' /\ SavesInOrder'
  BY <1>9, <1>10 DEF SaveSettled, Invalidate
<1>11. ASSUME NEW s \in Saves, Failed(s) PROVE SettingsTypeOK' /\ SavesInOrder'
  BY <1>11 DEF Failed, PutFails, SavesInOrder
<1>12. CASE TableShown
  <2>1. reading \in [SettingFields -> SettingValues]
    BY <1>12 DEF TableShown
  <2>2. field' \in [SettingFields -> SettingValues] /\ hydrated' \in BOOLEAN
    BY <1>12, <2>1, HydrateType DEF TableShown
  <2> QED
    BY <1>12, <2>1, <2>2 DEF TableShown, SavesInOrder
<1>13. CASE TableRead \/ TableLost
  BY <1>13 DEF TableRead, TableLost, SavesInOrder
<1>14. CASE UNCHANGED settingsVars
  BY <1>14 DEF settingsVars, SavesInOrder
<1> QED
  BY <1>1, <1>4, <1>6, <1>7, <1>8, <1>10, <1>11, <1>12, <1>13, <1>14 DEF SettingsNext

\* A save that met no other has stored what it has put so far.
Stored(s) ==
  save[s] # Nowhere /\ save[s].alone =>
    \A i \in 1..Len(SaveOrder[save[s].form]) :
      i < save[s].at \/ (i = save[s].at /\ s \in writing) =>
        LET f == SaveOrder[save[s].form][i] IN table[f] = save[s].sent[f]

\* Why the forms keep their word: a text is typed into a page that has been filled in;
\* what is read while nothing is being written is the table; and what a save has put
\* stays as long as no other writes its fields.
FormsInv ==
  /\ SettingsTypeOK /\ SavesInOrder
  /\ \A f \in Texts : typed[f] # Nowhere => hydrated /\ field[f] = typed[f]
  /\ ~doubtful /\ writing = {} =>
       (reading = NoGet => settings = table) /\ (reading \notin {NoGet, Asked} => reading = table)
  /\ ~mixed
  /\ \A s \in Saves : Stored(s)

LEMMA FormsInvInit == SettingsInit => FormsInv
BY SettingsTypeInit, SettingsValuesAssumption DEF SettingsInit, FormsInv, Stored

\* Drawing the page leaves a text alone that was typed into it.
LEMMA DrawKeeps ==
  ASSUME NEW now, NEW data, NEW f \in Texts, Draw(now, data, TRUE), now \in [SettingFields -> SettingValues]
  PROVE  field'[f] = now[f] /\ hydrated'
BY SettingsAssumption DEF Draw, Hydrate

LEMMA TypedKept ==
  ASSUME SettingsTypeOK, NEW g \in Texts,
         \A f \in Texts : typed[f] # Nowhere => hydrated /\ field[f] = typed[f],
         [SettingsNext]_settingsVars, typed'[g] # Nowhere
  PROVE  hydrated' /\ field'[g] = typed'[g]
<1> USE SettingsAssumption DEF SettingsTypeOK, history
<1>1. ASSUME NEW f \in SettingFields, NEW v \in SettingValues, Type(f, v)
      PROVE  hydrated' /\ field'[g] = typed'[g]
  <2> DEFINE now == [field EXCEPT ![f] = v]
  <2>1. now \in [SettingFields -> SettingValues] /\ g \in SettingFields
    OBVIOUS
  <2>2. CASE f \in Steady
    <3>1. typed' = typed /\ g # f /\ Draw(now, settings, hydrated)
      BY <1>1, <2>2 DEF Type, Typed
    <3>2. hydrated = TRUE /\ now[g] = field[g]
      BY <2>1, <3>1
    <3> HIDE DEF now
    <3> QED
      BY <2>1, <3>1, <3>2, DrawKeeps
  <2>3. CASE f \notin Steady
    <3>1. field' = now /\ hydrated' = hydrated
      BY <1>1, <2>3 DEF Type
    <3>2. CASE f \in Texts /\ hydrated
      BY <1>1, <2>1, <3>1, <3>2 DEF Type, Typed
    <3>3. CASE ~(f \in Texts /\ hydrated)
      <4>1. typed' = typed /\ g # f
        BY <1>1, <3>3 DEF Type, Typed
      <4> QED
        BY <2>1, <3>1, <4>1
    <3> QED
      BY <3>2, <3>3
  <2> QED
    BY <2>2, <2>3
<1>2. ASSUME NEW s \in Saves, NEW v \in {"x", "y"}, ChangeMode(s, v)
      PROVE  hydrated' /\ field'[g] = typed'[g]
  BY <1>2 DEF ChangeMode
<1>3. ASSUME NEW s \in Saves, SaveSettled(s) PROVE hydrated' /\ field'[g] = typed'[g]
  <2>1. hydrated' = hydrated /\ (Continue(s) \/ SaveFinishes(s))
    BY <1>3 DEF SaveSettled
  <2>2. CASE Continue(s)
    BY <2>1, <2>2 DEF Continue
  <2>3. CASE SaveFinishes(s)
    BY <2>1, <2>3 DEF SaveFinishes
  <2> QED
    BY <2>1, <2>2, <2>3
<1>4. CASE TableShown
  <2>1. typed' = typed /\ hydrated = TRUE
    BY <1>4 DEF TableShown
  <2>2. CASE reading = settings
    BY <1>4, <2>1, <2>2 DEF TableShown
  <2>3. CASE reading # settings
    BY <1>4, <2>1, <2>3, DrawKeeps DEF TableShown
  <2> QED
    BY <2>2, <2>3
<1>5. CASE UNCHANGED <<field, hydrated, typed>>
  BY <1>5
<1> QED
  BY <1>1, <1>2, <1>3, <1>4, <1>5
     DEF SettingsNext, WrittenElsewhere, Submit, Write, Failed, PutFails, TableRead, TableLost, settingsVars

\* A write to the table: other saves of that field are no longer alone.
LEMMA WriteKeeps ==
  ASSUME SettingsTypeOK, SavesInOrder, NEW f \in SettingFields, NEW v, NEW but, NEW s \in Saves,
         Stored(s), s # but, table' = [table EXCEPT ![f] = v], save' = Crossed(f, but),
         s \in writing' => s \in writing
  PROVE  Stored(s)'
<1>1. CASE save[s] = Nowhere
  BY <1>1, CrossedKeeps DEF Stored
<1>2. CASE save[s] # Nowhere
  <2>0. save[s].form \in SettingForms
    BY <1>2 DEF SettingsTypeOK, SaveRecord
  <2> DEFINE r == save[s]
             new == save'[s]
  <2>1. /\ new.form = r.form /\ new.at = r.at /\ new.sent = r.sent
        /\ new.alone => r.alone /\ f \notin FieldsOf(r.form)
    BY <1>2, CrossedKeeps
  <2>2. ASSUME new.alone, NEW i \in 1..Len(SaveOrder[r.form]), i < r.at \/ (i = r.at /\ s \in writing')
        PROVE  table'[SaveOrder[r.form][i]] = r.sent[SaveOrder[r.form][i]]
    <3>1. SaveOrder[r.form][i] \in FieldsOf(r.form)
      BY <2>0, <2>2, FormFields
    <3>2. SaveOrder[r.form][i] # f /\ SaveOrder[r.form][i] \in SettingFields
      BY <2>0, <2>1, <2>2, <3>1, FormFields
    <3>3. table[SaveOrder[r.form][i]] = r.sent[SaveOrder[r.form][i]]
      BY <1>2, <2>1, <2>2 DEF Stored
    <3> QED
      BY <3>2, <3>3 DEF SettingsTypeOK
  <2> QED
    BY <2>1, <2>2 DEF Stored
<1> QED
  BY <1>1, <1>2

LEMMA StoredKept ==
  ASSUME SettingsTypeOK, SavesInOrder, [SettingsNext]_settingsVars, NEW s \in Saves,
         \A t \in Saves : Stored(t)
  PROVE  Stored(s)'
<1> USE DEF history
<1>1. ASSUME NEW f \in SettingFields, NEW v \in SettingValues, WrittenElsewhere(f, v) PROVE Stored(s)'
  BY <1>1, WriteKeeps, SettingsValuesAssumption DEF WrittenElsewhere
<1>2. ASSUME NEW t \in Saves, Write(t) PROVE Stored(s)'
  <2>0. /\ save[t] # Nowhere /\ t \notin writing /\ save[t].form \in SettingForms
        /\ save[t].at \in 1..Len(SaveOrder[save[t].form])
        /\ table' = [table EXCEPT ![FieldAt(t)] = ValueOf(t)]
        /\ writing' = writing \cup {t} /\ save' = Crossed(FieldAt(t), t)
    BY <1>2 DEF Write, SavesInOrder, SettingsTypeOK, SaveRecord
  <2>1. FieldAt(t) \in SettingFields
    BY <2>0, FormFields DEF FieldAt
  <2>2. CASE s # t
    BY <2>0, <2>1, <2>2, WriteKeeps
  <2>3. CASE s = t
    <3>1. save'[t] = save[t]
      BY <2>0, CrossedKeeps DEF Crossed
    <3>2. ASSUME save[t].alone, NEW i \in 1..Len(SaveOrder[save[t].form]), i < save[t].at \/ i = save[t].at
          PROVE  table'[SaveOrder[save[t].form][i]] = save[t].sent[SaveOrder[save[t].form][i]]
      <4>1. SaveOrder[save[t].form][i] \in SettingFields
        BY <2>0, <3>2, FormFields
      <4>2. CASE SaveOrder[save[t].form][i] = FieldAt(t)
        BY <2>0, <2>1, <4>2 DEF SettingsTypeOK, ValueOf, FieldAt
      <4>3. CASE SaveOrder[save[t].form][i] # FieldAt(t)
        <5>1. i < save[t].at
          BY <3>2, <4>3 DEF FieldAt
        <5> QED
          BY <2>0, <3>2, <4>1, <4>3, <5>1 DEF SettingsTypeOK, Stored
      <4> QED
        BY <4>2, <4>3
    <3> QED
      BY <2>0, <2>3, <3>1, <3>2 DEF Stored
  <2> QED
    BY <2>2, <2>3
<1>3. ASSUME NEW t \in Saves, NEW form \in SettingForms, NEW values, Start(t, form, values),
             UNCHANGED <<table, writing>>
      PROVE  Stored(s)'
  <2> DEFINE r == [form |-> form, at |-> 1, sent |-> values, alone |-> TRUE]
  <2>1. save[t] = Nowhere /\ save' = [save EXCEPT ![t] = r] /\ t \notin writing
    BY <1>3 DEF Start, SavesInOrder
  <2>2. r.form = form /\ r.at = 1
    OBVIOUS
  <2> HIDE DEF r
  <2>3. CASE s = t
    <3>1. save'[s] = r
      BY <2>1, <2>3 DEF SettingsTypeOK
    <3> QED
      BY <1>3, <2>1, <2>2, <2>3, <3>1, FormFields DEF Stored
  <2>4. CASE s # t
    BY <1>3, <2>1, <2>4 DEF Stored, SettingsTypeOK
  <2> QED
    BY <2>3, <2>4
<1>4. ASSUME NEW t \in Saves, SaveSettled(t) PROVE Stored(s)'
  <2>0. t \in writing /\ writing' = writing \ {t} /\ table' = table /\ save[t] # Nowhere
        /\ (Continue(t) \/ SaveFinishes(t))
    BY <1>4 DEF SaveSettled, SavesInOrder
  <2>1. CASE s # t
    BY <2>0, <2>1 DEF Stored, SettingsTypeOK, Continue, SaveFinishes
  <2>2. CASE s = t /\ Continue(t)
    <3> DEFINE r == [save[t] EXCEPT !.at = @ + 1]
    <3>1. save' = [save EXCEPT ![t] = r]
      BY <2>2 DEF Continue
    <3>2. /\ r.at = save[t].at + 1 /\ r.form = save[t].form /\ r.sent = save[t].sent
          /\ r.alone = save[t].alone /\ save[t].at \in Nat
      BY <2>0 DEF SettingsTypeOK, SaveRecord
    <3> HIDE DEF r
    <3>3. save'[t] = r
      BY <3>1 DEF SettingsTypeOK
    <3>4. ASSUME r.alone, NEW i \in 1..Len(SaveOrder[r.form]), i < r.at \/ (i = r.at /\ t \in writing')
          PROVE  table[SaveOrder[r.form][i]] = r.sent[SaveOrder[r.form][i]]
      <4>1. save[t].form \in SettingForms
        BY <2>0 DEF SettingsTypeOK, SaveRecord
      <4>2. Len(SaveOrder[r.form]) \in Nat
        BY <3>2, <4>1, FormFields
      <4>3. i < save[t].at \/ i = save[t].at
        BY <2>0, <3>2, <3>4, <4>2
      <4>4. Stored(t) /\ save[t] # Nowhere /\ save[t].alone /\ t \in writing
        BY <2>0, <3>2, <3>4
      <4>5. i \in 1..Len(SaveOrder[save[t].form])
        BY <3>2, <3>4
      <4>6. table[SaveOrder[save[t].form][i]] = save[t].sent[SaveOrder[save[t].form][i]]
        BY <4>3, <4>4, <4>5 DEF Stored
      <4> QED
        BY <3>2, <4>6
    <3> QED
      BY <2>0, <2>2, <3>3, <3>4 DEF Stored
  <2>3. CASE s = t /\ SaveFinishes(t)
    BY <2>0, <2>3 DEF Stored, SettingsTypeOK, SaveFinishes
  <2> QED
    BY <2>0, <2>1, <2>2, <2>3
<1>5. ASSUME NEW t \in Saves, Failed(t) PROVE Stored(s)'
  BY <1>5 DEF Failed, PutFails, Stored, SettingsTypeOK
<1>6. CASE UNCHANGED <<table, save, writing>>
  BY <1>6 DEF Stored
<1> QED
  BY <1>1, <1>2, <1>3, <1>4, <1>5, <1>6, SettingsAssumption
     DEF SettingsNext, Submit, ChangeMode, Type, TableRead, TableLost, TableShown, settingsVars

\* What is read is the table, while nothing is being written or in doubt.
LEMMA ReadFresh ==
  ASSUME SettingsTypeOK, SavesInOrder, [SettingsNext]_settingsVars, ~doubtful', writing' = {},
         ~doubtful /\ writing = {} =>
           (reading = NoGet => settings = table) /\ (reading \notin {NoGet, Asked} => reading = table)
  PROVE  /\ reading' = NoGet => settings' = table'
         /\ reading' \notin {NoGet, Asked} => reading' = table'
<1> USE SettingsValuesAssumption DEF history
<1>1. ASSUME NEW s \in Saves, SaveSettled(s)
      PROVE  reading' = Asked
  BY <1>1 DEF SaveSettled, Invalidate
<1>2. CASE TableRead
  BY <1>2 DEF TableRead, SettingsTypeOK
<1>3. CASE TableShown
  BY <1>3 DEF TableShown
<1>4. ASSUME NEW s \in Saves, Failed(s)
      PROVE  UNCHANGED <<reading, settings, table>> /\ ~doubtful /\ writing = {}
  BY <1>4 DEF Failed, PutFails
<1>5. ASSUME NEW s \in Saves, Write(s) PROVE FALSE
  BY <1>5 DEF Write
<1>6. CASE UNCHANGED <<reading, settings, table, doubtful, writing>>
  BY <1>6
<1> QED
  BY <1>1, <1>2, <1>3, <1>4, <1>5, <1>6
     DEF SettingsNext, WrittenElsewhere, Submit, ChangeMode, Type, TableLost, settingsVars

\* A save that was alone reports success of what it stored.
LEMMA NeverMixed ==
  ASSUME SettingsTypeOK, SavesInOrder, [SettingsNext]_settingsVars, ~mixed, \A s \in Saves : Stored(s)
  PROVE  ~mixed'
<1>1. ASSUME NEW s \in Saves, s \in writing, SaveFinishes(s) PROVE ~mixed'
  <2>1. /\ save[s] # Nowhere /\ save[s].form \in SettingForms
        /\ save[s].at = Len(SaveOrder[save[s].form])
    BY <1>1 DEF SaveFinishes, Done, SavesInOrder, SettingsTypeOK, SaveRecord
  <2>2. ASSUME save[s].alone, NEW f \in FieldsOf(save[s].form) PROVE table[f] = save[s].sent[f]
    <3>1. PICK i \in 1..Len(SaveOrder[save[s].form]) : SaveOrder[save[s].form][i] = f
      BY <2>1, FormFields
    <3>2. i < save[s].at \/ i = save[s].at
      BY <2>1, <3>1, FormFields
    <3> QED
      BY <1>1, <2>1, <2>2, <3>1, <3>2 DEF Stored
  <2> QED
    BY <1>1, <2>2 DEF SaveFinishes
<1>2. CASE UNCHANGED mixed
  BY <1>2
<1> QED
  BY <1>1, <1>2
     DEF SettingsNext, WrittenElsewhere, Submit, ChangeMode, Type, Write, SaveSettled, Continue, Failed,
         PutFails, TableRead, TableShown, TableLost, settingsVars, history

LEMMA FormsInvNext == FormsInv /\ [SettingsNext]_settingsVars => FormsInv'
<1> SUFFICES ASSUME FormsInv, [SettingsNext]_settingsVars PROVE FormsInv'
    OBVIOUS
<1> USE DEF FormsInv
<1>1. SettingsTypeOK' /\ SavesInOrder'
  BY SettingsTypeNext
<1>2. \A f \in Texts : typed'[f] # Nowhere => hydrated' /\ field'[f] = typed'[f]
  BY TypedKept
<1>3. ~doubtful' /\ writing' = {} =>
        /\ reading' = NoGet => settings' = table'
        /\ reading' \notin {NoGet, Asked} => reading' = table'
  BY ReadFresh
<1>4. ~mixed'
  BY NeverMixed
<1>5. \A s \in Saves : Stored(s)'
  BY StoredKept
<1> QED
  BY <1>1, <1>2, <1>3, <1>4, <1>5

\* For any forms, fields and saves under way at a time: a refetch never wipes a text
\* that is being typed, the page works on the table as it is stored once all is
\* answered, and a save that met no other has stored what it showed (the hydration
\* effects and the shared mutation of SettingsPage.tsx).
THEOREM FormsKeepTheirWord == SettingsSpec => []FormsHold
<1>1. FormsInv => FormsHold
  BY DEF FormsInv, FormsHold, TextsKept, TableFresh, SavedAsSubmitted
<1> QED
  BY <1>1, FormsInvInit, FormsInvNext, PTL DEF SettingsSpec
-----------------------------------------------------------------------------
(* The download page: documents, lists and their instructions. *)

Lists == Seq(Instructions \cup {Hole})
Platforms == Seq([key : {1, 2}, button : Words])
Docs == [library : SUBSET Images, text : Words, platforms : Platforms, list : Lists]
Jobs == [at : Nat, base : Instructions \cup {None}, images : SUBSET Images]

\* The images of an upload fit into the instruction it starts from.
Fits(job) ==
  /\ job.base \in Instructions
  /\ Len(job.base.images) + Cardinality(job.images) <= PhotoLimit

DownloadTypeOK ==
  /\ stored \in Docs /\ saved \in Docs /\ cfg \in Docs /\ files \in SUBSET Images
  /\ draft \in Instructions \cup {None} /\ creating \in BOOLEAN
  /\ creating => draft \in Instructions
  /\ upload \in [Images -> [pc : {"idle", "sent", "filed", "read", "ok", "failed", "done", "lost"},
                            doc : Docs, job : Jobs]]
  /\ \A f \in Images : upload[f].pc # "idle" => Fits(upload[f].job)
  /\ deletion \in [Images -> [pc : {"idle", "sent", "removed", "read"}, doc : Docs]]
  /\ put \in [pc : {"idle", "sent", "saved", "refused"}, doc : Docs]

\* What validation says of a list: no hole, no instruction with too many images, no
\* id twice.
Sound(list) ==
  \A k, l \in 1..Len(list) :
    /\ list[k] # Hole /\ Len(list[k].images) <= PhotoLimit
    /\ k # l => list[k].id # list[l].id

\* An instruction that may join a list.
Joins(x, list) ==
  /\ Len(x.images) <= PhotoLimit
  /\ \A k \in 1..Len(list) : list[k].id # x.id

\* A list made of distinct elements of another.
Drawn(m, l) ==
  \E r \in [1..Len(m) -> 1..Len(l)] :
    \A j, k \in 1..Len(m) : m[j] = l[r[j]] /\ (j # k => r[j] # r[k])

LEMMA DrawnIsSound ==
  ASSUME NEW l, NEW m, Drawn(m, l)
  PROVE  /\ Sound(l) => Sound(m)
         /\ \A x : Joins(x, l) => Joins(x, m)
<1>1. PICK r \in [1..Len(m) -> 1..Len(l)] :
           \A j, k \in 1..Len(m) : m[j] = l[r[j]] /\ (j # k => r[j] # r[k])
  BY DEF Drawn
<1>2. Sound(l) => Sound(m)
  <2> SUFFICES ASSUME Sound(l), NEW j \in 1..Len(m), NEW k \in 1..Len(m)
               PROVE  /\ m[j] # Hole /\ Len(m[j].images) <= PhotoLimit
                      /\ j # k => m[j].id # m[k].id
      BY DEF Sound
  <2>1. r[j] \in 1..Len(l) /\ r[k] \in 1..Len(l)
    BY <1>1
  <2> QED
    BY <1>1, <2>1 DEF Sound
<1>3. ASSUME NEW x, Joins(x, l) PROVE Joins(x, m)
  <2>1. \A k \in 1..Len(m) : r[k] \in 1..Len(l) /\ m[k] = l[r[k]]
    BY <1>1
  <2> QED
    BY <1>3, <2>1 DEF Joins
<1> QED
  BY <1>2, <1>3

LEMMA SwapDraws ==
  ASSUME NEW T, NEW s \in Seq(T), NEW i \in 1..(Len(s) - 1)
  PROVE  SwapAt(s, i) \in Seq(T) /\ Drawn(SwapAt(s, i), s)
<1> DEFINE m == SwapAt(s, i)
           r == [k \in 1..Len(s) |-> IF k = i THEN i + 1 ELSE IF k = i + 1 THEN i ELSE k]
<1>1. Len(s) \in Nat /\ i \in 1..Len(s) /\ i + 1 \in 1..Len(s) /\ i # i + 1
  OBVIOUS
<1>2. m \in Seq(T) /\ Len(m) = Len(s)
  BY <1>1 DEF SwapAt
<1>3. \A k \in 1..Len(s) : m[k] = s[r[k]]
  BY <1>1 DEF SwapAt
<1>4. r \in [1..Len(s) -> 1..Len(s)]
  BY <1>1
<1>5. \A j, k \in 1..Len(s) : j # k => r[j] # r[k]
  BY <1>1
<1> HIDE DEF m, r
<1>6. Drawn(m, s)
  BY <1>2, <1>3, <1>4, <1>5 DEF Drawn
<1> QED
  BY <1>2, <1>6 DEF m

LEMMA RemovalDraws ==
  ASSUME NEW T, NEW s \in Seq(T), NEW i \in 1..Len(s)
  PROVE  /\ RemoveAt(s, i) \in Seq(T) /\ Drawn(RemoveAt(s, i), s)
         /\ Len(RemoveAt(s, i)) = Len(s) - 1
<1> DEFINE a == SubSeq(s, 1, i - 1)
           b == SubSeq(s, i + 1, Len(s))
           m == RemoveAt(s, i)
           r == [k \in 1..(Len(s) - 1) |-> IF k < i THEN k ELSE k + 1]
<1>1. Len(s) \in Nat /\ i \in Nat /\ 1 <= i /\ i <= Len(s)
  OBVIOUS
<1>2. /\ a \in Seq(T) /\ Len(a) = i - 1
      /\ \A k \in 1..(i - 1) : a[k] = s[k]
  BY <1>1, SubSeqProperties
<1>3. /\ b \in Seq(T) /\ Len(b) = Len(s) - i
      /\ \A k \in 1..(Len(s) - i) : b[k] = s[k + i]
  BY <1>1, SubSeqProperties
<1>4. m = a \o b
  BY DEF RemoveAt
<1> HIDE DEF a, b, m
<1>5. /\ m \in Seq(T) /\ Len(m) = Len(s) - 1
      /\ \A k \in 1..(Len(s) - 1) : m[k] = IF k <= i - 1 THEN a[k] ELSE b[k - (i - 1)]
  <2>1. Len(a) + Len(b) = Len(s) - 1
    BY <1>1, <1>2, <1>3
  <2>2. /\ a \o b \in Seq(T) /\ Len(a \o b) = Len(a) + Len(b)
        /\ \A k \in 1..(Len(a) + Len(b)) :
             (a \o b)[k] = IF k <= Len(a) THEN a[k] ELSE b[k - Len(a)]
    BY <1>2, <1>3, ConcatProperties
  <2> HIDE DEF r
  <2>3. Len(a) = i - 1
    BY <1>2
  <2> QED
    BY <1>4, <2>1, <2>2, <2>3
<1>6. \A k \in 1..(Len(s) - 1) : m[k] = s[r[k]]
  <2> SUFFICES ASSUME NEW k \in 1..(Len(s) - 1) PROVE m[k] = s[r[k]]
      OBVIOUS
  <2>1. CASE k < i
    BY <1>1, <1>2, <1>5, <2>1
  <2>2. CASE ~(k < i)
    <3>1. k - (i - 1) \in 1..(Len(s) - i) /\ (k - (i - 1)) + i = k + 1
      BY <1>1, <2>2
    <3> QED
      BY <1>1, <1>3, <1>5, <2>2, <3>1
  <2> QED
    BY <2>1, <2>2
<1>7. r \in [1..Len(m) -> 1..Len(s)]
  BY <1>1, <1>5
<1>8. \A j, k \in 1..Len(m) : j # k => r[j] # r[k]
  <2> SUFFICES ASSUME NEW j \in 1..(Len(s) - 1), NEW k \in 1..(Len(s) - 1), j # k
               PROVE  r[j] # r[k]
      BY <1>5
  <2> QED
    BY <1>1
<1> HIDE DEF r
<1>9. Drawn(m, s)
  BY <1>5, <1>6, <1>7, <1>8 DEF Drawn
<1> QED
  BY <1>5, <1>9 DEF m

\* An instruction in the place of another, or behind the end of the list.
LEMMA PutKeeps ==
  ASSUME NEW list \in Lists, NEW i \in Nat \ {0}, NEW x \in Instructions
  PROVE  /\ Put(list, i, x) \in Lists
         /\ i <= Len(list) => /\ Len(Put(list, i, x)) = Len(list)
                              /\ \A k \in 1..Len(list) :
                                   Put(list, i, x)[k] = IF k = i THEN x ELSE list[k]
<1> DEFINE n == IF i > Len(list) THEN i ELSE Len(list)
           m == Put(list, i, x)
<1>1. n \in Nat /\ Len(list) \in Nat
  BY DEF Lists
<1>2. m \in [1..n -> Instructions \cup {Hole}]
  BY <1>1 DEF Put, Lists
<1>3. m \in Lists /\ Len(m) = n
  BY <1>1, <1>2 DEF Lists
<1>4. \A k \in 1..n : m[k] = IF k = i THEN x ELSE IF k <= Len(list) THEN list[k] ELSE Hole
  BY DEF Put
<1> HIDE DEF m
<1> QED
  BY <1>1, <1>3, <1>4 DEF m

\* The same instruction with other contents leaves a sound list sound.
LEMMA PutIsSound ==
  ASSUME NEW list \in Lists, NEW i \in 1..Len(list), NEW x \in Instructions,
         Sound(list), x.id = list[i].id, Len(x.images) <= PhotoLimit
  PROVE  /\ Sound(Put(list, i, x))
         /\ \A y : Joins(y, list) => Joins(y, Put(list, i, x))
<1>1. Len(list) \in Nat /\ i \in Nat \ {0} /\ i <= Len(list)
  BY DEF Lists
<1>2. /\ Len(Put(list, i, x)) = Len(list)
      /\ \A k \in 1..Len(list) : Put(list, i, x)[k] = IF k = i THEN x ELSE list[k]
  BY <1>1, PutKeeps
<1>3. x # Hole
  BY DownloadAssumption
<1> QED
  BY <1>2, <1>3 DEF Sound, Joins

\* As does one that joins it.
LEMMA AppendIsSound ==
  ASSUME NEW list \in Lists, NEW x \in Instructions, Sound(list), Joins(x, list)
  PROVE  Sound(Append(list, x))
<1>1. /\ Len(list) \in Nat /\ Len(Append(list, x)) = Len(list) + 1
      /\ \A k \in 1..Len(list) : Append(list, x)[k] = list[k]
      /\ Append(list, x)[Len(list) + 1] = x
  BY AppendProperties DEF Lists
<1>2. x # Hole
  BY DownloadAssumption
<1> QED
  BY <1>1, <1>2 DEF Sound, Joins

\* The server's validation in these words.
LEMMA ValidMeans ==
  ASSUME NEW doc \in Docs
  PROVE  ValidDoc(doc) <=>
           ~Overdone(doc) /\ Cardinality(doc.library) <= LibraryLimit /\ Sound(doc.list)
<1>1. DOMAIN doc.list = 1..Len(doc.list)
  BY DEF Docs, Lists
<1> QED
  BY <1>1 DEF ValidDoc, Sound

-----------------------------------------------------------------------------
(* The download page: types. *)

LEMMA DrawnInstruction ==
  ASSUME DownloadTypeOK, NEW i \in Editable, At(i) # Hole
  PROVE  /\ At(i) \in Instructions
         /\ \/ i = 0 /\ creating /\ At(i) = draft
            \/ i # 0 /\ i \in 1..Len(cfg.list) /\ At(i) = cfg.list[i]
<1>1. CASE i = 0
  <2>1. creating
    BY <1>1 DEF Editable
  <2> QED
    BY <1>1, <2>1 DEF At, DownloadTypeOK
<1>2. CASE i # 0
  <2>1. i \in 1..Len(cfg.list)
    BY <1>2 DEF Editable
  <2>2. cfg.list \in Seq(Instructions \cup {Hole})
    BY DEF DownloadTypeOK, Docs, Lists
  <2>3. cfg.list[i] \in Instructions \cup {Hole}
    BY <2>1, <2>2
  <2> QED
    BY <1>2, <2>1, <2>3 DEF At
<1> QED
  BY <1>1, <1>2

\* An edit of one instruction leaves its id, and its images within their limit.
Edits(i) ==
  \/ EditText(i) \/ RemovePhoto(i)
  \/ \E f \in Images : PickFromLibrary(i, f)

LEMMA EditsOne ==
  ASSUME DownloadTypeOK, NEW i, Edits(i)
  PROVE  /\ i \in Editable /\ At(i) # Hole
         /\ UNCHANGED creating /\ PageOnly
         /\ \E x \in Instructions :
              /\ Change(i, x) /\ x.id = At(i).id
              /\ Len(At(i).images) <= PhotoLimit => Len(x.images) <= PhotoLimit
<1>1. i \in Editable /\ At(i) # Hole /\ UNCHANGED creating /\ PageOnly
  BY DEF Edits, EditText, RemovePhoto, PickFromLibrary
<1> DEFINE y == At(i)
<1>2. y \in Instructions
  BY <1>1, DrawnInstruction
<1> HIDE DEF y
<1>3. y.images \in Seq(Images) /\ y.id \in Ids /\ y.text \in Words
  BY <1>2 DEF Instructions
<1>4. CASE EditText(i)
  <2>0. PICK t \in Words : Change(i, [y EXCEPT !.text = t])
    BY <1>4 DEF EditText, y
  <2> DEFINE x == [y EXCEPT !.text = t]
  <2>1. x \in Instructions /\ x.id = y.id /\ x.images = y.images
    BY <1>2, <1>3 DEF Instructions
  <2>2. Change(i, x)
    BY <2>0
  <2> HIDE DEF x
  <2> QED
    BY <1>1, <2>1, <2>2 DEF y
<1>5. CASE RemovePhoto(i)
  <2>1. PICK k \in 1..Len(y.images) : Change(i, [y EXCEPT !.images = RemoveAt(@, k)])
    BY <1>5 DEF RemovePhoto, y
  <2> DEFINE x == [y EXCEPT !.images = RemoveAt(@, k)]
  <2>2. RemoveAt(y.images, k) \in Seq(Images) /\ Len(RemoveAt(y.images, k)) = Len(y.images) - 1
    BY <1>3, RemovalDraws
  <2>3. x \in Instructions /\ x.id = y.id /\ Len(x.images) = Len(y.images) - 1
    BY <1>2, <2>2 DEF Instructions
  <2>4. Change(i, x) /\ Len(y.images) \in Nat
    BY <1>3, <2>1
  <2> HIDE DEF x
  <2>5. Len(y.images) <= PhotoLimit => Len(x.images) <= PhotoLimit
    BY <2>3, <2>4, DownloadAssumption
  <2> QED
    BY <1>1, <2>3, <2>4, <2>5 DEF y
<1>6. ASSUME NEW f \in Images, PickFromLibrary(i, f)
      PROVE  \E x \in Instructions :
               /\ Change(i, x) /\ x.id = y.id
               /\ Len(y.images) <= PhotoLimit => Len(x.images) <= PhotoLimit
  <2> DEFINE x == [y EXCEPT !.images = Append(@, f)]
  <2>1. Append(y.images, f) \in Seq(Images) /\ Len(Append(y.images, f)) = Len(y.images) + 1
    BY <1>3
  <2>2. x \in Instructions /\ x.id = y.id /\ Len(x.images) = Len(y.images) + 1
    BY <1>2, <2>1 DEF Instructions
  <2>3. Change(i, x) /\ Len(y.images) < PhotoLimit /\ Len(y.images) \in Nat
    BY <1>3, <1>6 DEF PickFromLibrary, y
  <2> HIDE DEF x
  <2>4. Len(x.images) <= PhotoLimit
    BY <2>2, <2>3, DownloadAssumption
  <2> QED
    BY <2>2, <2>3, <2>4
<1> QED
  BY <1>1, <1>4, <1>5, <1>6 DEF Edits, y

\* The page's document with an instruction changed is one.
LEMMA ChangeTypes ==
  ASSUME DownloadTypeOK, NEW i \in Nat, NEW x \in Instructions, Change(i, x)
  PROVE  /\ cfg' \in Docs /\ draft' \in Instructions \cup {None}
         /\ cfg'.library = cfg.library
         /\ i = 0 => cfg' = cfg /\ draft' = x
         /\ i # 0 => cfg'.list = Put(cfg.list, i, x) /\ draft' = draft
<1>1. CASE i = 0
  BY <1>1 DEF Change, DownloadTypeOK
<1>2. CASE i # 0
  <2>1. cfg.list \in Lists
    BY DEF DownloadTypeOK, Docs
  <2>2. Put(cfg.list, i, x) \in Lists
    BY <1>2, <2>1, PutKeeps
  <2>3. cfg' = [cfg EXCEPT !.list = Put(cfg.list, i, x)] /\ draft' = draft
    BY <1>2 DEF Change
  <2> QED
    BY <1>2, <2>2, <2>3 DEF DownloadTypeOK, Docs
<1> QED
  BY <1>1, <1>2

\* The other steps of the editor.
Rearranges ==
  \E i \in 0..Cardinality(Ids) : MoveInstruction(i) \/ RemoveInstruction(i)

LEMMA RearrangedDraws ==
  ASSUME DownloadTypeOK, Rearranges
  PROVE  /\ cfg' \in Docs /\ cfg'.library = cfg.library
         /\ Drawn(cfg'.list, cfg.list)
         /\ UNCHANGED <<draft, creating>> /\ PageOnly
<1>1. cfg \in Docs /\ cfg.list \in Seq(Instructions \cup {Hole})
  BY DEF DownloadTypeOK, Docs, Lists
<1>2. PICK i \in 0..Cardinality(Ids) : MoveInstruction(i) \/ RemoveInstruction(i)
  BY DEF Rearranges
<1>3. CASE MoveInstruction(i)
  <2>1. i \in 1..(Len(cfg.list) - 1)
    BY <1>3 DEF MoveInstruction
  <2>2. SwapAt(cfg.list, i) \in Seq(Instructions \cup {Hole}) /\ Drawn(SwapAt(cfg.list, i), cfg.list)
    BY <1>1, <2>1, SwapDraws
  <2>3. /\ cfg' = [cfg EXCEPT !.list = SwapAt(cfg.list, i)]
        /\ UNCHANGED <<draft, creating>> /\ PageOnly
    BY <1>3 DEF MoveInstruction
  <2> QED
    BY <1>1, <2>2, <2>3 DEF Docs, Lists
<1>4. CASE RemoveInstruction(i)
  <2>1. i \in 1..Len(cfg.list)
    BY <1>4 DEF RemoveInstruction
  <2>2. RemoveAt(cfg.list, i) \in Seq(Instructions \cup {Hole}) /\ Drawn(RemoveAt(cfg.list, i), cfg.list)
    BY <1>1, <2>1, RemovalDraws
  <2>3. /\ cfg' = [cfg EXCEPT !.list = RemoveAt(cfg.list, i)]
        /\ UNCHANGED <<draft, creating>> /\ PageOnly
    BY <1>4 DEF RemoveInstruction
  <2> QED
    BY <1>1, <2>2, <2>3 DEF Docs, Lists
<1> QED
  BY <1>2, <1>3, <1>4

LEMMA ButtonTyped ==
  ASSUME NEW s \in Platforms, NEW i \in DOMAIN s, NEW t \in Words
  PROVE  [s EXCEPT ![i].button = t] \in Platforms
<1> DEFINE R == [key : {1, 2}, button : Words]
           n == Len(s)
<1>1. n \in Nat /\ s \in [1..n -> R]
  <2>1. s \in Seq(R)
    BY DEF Platforms
  <2> HIDE DEF R
  <2> QED
    BY <2>1
<1>2. i \in 1..n /\ s[i] \in R
  BY <1>1
<1> DEFINE q == [s[i] EXCEPT !.button = t]
<1>3. q \in R
  BY <1>2
<1>4. [s EXCEPT ![i].button = t] = [s EXCEPT ![i] = q]
  OBVIOUS
<1> HIDE DEF n, R, q
<1>5. [s EXCEPT ![i] = q] \in [1..n -> R]
  BY <1>1, <1>3
<1>6. [s EXCEPT ![i] = q] \in Seq(R)
  BY <1>1, <1>5
<1> QED
  BY <1>4, <1>6 DEF Platforms, R

LEMMA PageEdited ==
  ASSUME DownloadTypeOK, EditPage \/ MovePlatform
  PROVE  /\ cfg' \in Docs /\ cfg'.library = cfg.library /\ cfg'.list = cfg.list
         /\ UNCHANGED <<draft, creating>> /\ PageOnly
<1>1. cfg \in Docs /\ cfg.platforms \in Seq([key : {1, 2}, button : Words])
  BY DEF DownloadTypeOK, Docs, Platforms
<1>2. CASE EditPage
  <2>0. PICK t \in Words :
          \/ cfg' = [cfg EXCEPT !.text = t]
          \/ \E i \in DOMAIN cfg.platforms : cfg' = [cfg EXCEPT !.platforms[i].button = t]
    BY <1>2 DEF EditPage
  <2>1. CASE cfg' = [cfg EXCEPT !.text = t]
    BY <1>1, <1>2, <2>1 DEF Docs, EditPage
  <2>2. CASE \E i \in DOMAIN cfg.platforms : cfg' = [cfg EXCEPT !.platforms[i].button = t]
    <3>1. PICK i \in DOMAIN cfg.platforms : cfg' = [cfg EXCEPT !.platforms[i].button = t]
      BY <2>2
    <3> DEFINE p == [cfg.platforms EXCEPT ![i].button = t]
    <3>2. p \in Platforms
      BY <1>1, ButtonTyped DEF Platforms
    <3>3. cfg' = [cfg EXCEPT !.platforms = p]
      BY <3>1
    <3> HIDE DEF p
    <3> QED
      BY <1>1, <1>2, <3>2, <3>3 DEF Docs, Platforms, EditPage
  <2> QED
    BY <2>0, <2>1, <2>2
<1>3. CASE MovePlatform
  <2>1. PICK i \in 1..(Len(cfg.platforms) - 1) : cfg' = [cfg EXCEPT !.platforms = SwapAt(@, i)]
    BY <1>3 DEF MovePlatform
  <2>2. SwapAt(cfg.platforms, i) \in Seq([key : {1, 2}, button : Words])
    BY <1>1, SwapDraws
  <2> QED
    BY <1>1, <1>3, <2>1, <2>2 DEF Docs, Platforms, MovePlatform
<1> QED
  BY <1>2, <1>3

\* Uploads: what their answer makes of the page.
LEMMA Filled ==
  ASSUME NEW job \in Jobs, Fits(job)
  PROVE  LET full == [job.base EXCEPT !.images = @ \o SetToSeq(job.images)] IN
         /\ full \in Instructions /\ full.id = job.base.id
         /\ Len(full.images) <= PhotoLimit
<1> DEFINE new == SetToSeq(job.images)
           images == job.base.images
           full == [job.base EXCEPT !.images = images \o new]
<1>1. job.base \in Instructions /\ images \in Seq(Images)
  BY DEF Fits, Instructions
<1>2. IsFiniteSet(job.images) /\ job.images \subseteq Images
  BY FS_Subset, DownloadAssumption DEF Jobs
<1>3. new \in Seq(Images) /\ Len(new) = Cardinality(job.images)
  BY <1>2, SetAsSeq
<1> HIDE DEF new
<1>4. images \o new \in Seq(Images) /\ Len(images \o new) = Len(images) + Cardinality(job.images)
  <2> HIDE DEF images
  <2>1. images \o new \in Seq(Images) /\ Len(images \o new) = Len(images) + Len(new)
    BY <1>1, <1>3, ConcatProperties
  <2> QED
    BY <1>3, <2>1
<1>5. full \in Instructions /\ full.id = job.base.id /\ full.images = images \o new
  BY <1>1, <1>4 DEF Instructions
<1>6. Len(full.images) <= PhotoLimit
  BY <1>4, <1>5 DEF Fits
<1> QED
  BY <1>5, <1>6 DEF new

\* What an answered upload makes of the list and the draft: nothing, or the
\* instruction it began with, filled, in its old place.
LEMMA AnswerFills ==
  ASSUME DownloadTypeOK, NEW f \in Images, UploadAnswered(f)
  PROVE  /\ cfg' \in Docs /\ cfg'.library = cfg.library \cup {f}
         /\ \/ cfg'.list = cfg.list /\ draft' = draft /\ misplaced' = misplaced
            \/ \E x \in Instructions :
                 LET job == upload[f].job IN
                 /\ x.id = job.base.id /\ Len(x.images) <= PhotoLimit
                 /\ \/ /\ job.at = 0 /\ draft' = x /\ cfg'.list = cfg.list
                       /\ ~misplaced' => ~misplaced /\ creating /\ draft.id = x.id
                    \/ /\ job.at # 0 /\ draft' = draft /\ cfg'.list = Put(cfg.list, job.at, x)
                       /\ ~misplaced' => /\ ~misplaced /\ job.at \in 1..Len(cfg.list)
                                         /\ cfg.list[job.at] # Hole /\ cfg.list[job.at].id = x.id
<1> DEFINE job == upload[f].job
           base == Base(job)
           full == [base EXCEPT !.images = @ \o SetToSeq(job.images)]
           entered == Entered(f)
<1>1. /\ cfg \in Docs /\ cfg.list \in Lists /\ Len(cfg.list) \in Nat
      /\ job \in Jobs /\ job.at \in Nat /\ Fits(job) /\ base = job.base
  <2>1. upload[f].pc = "ok"
    BY DEF UploadAnswered
  <2>2. job \in Jobs /\ Fits(job)
    BY <2>1 DEF DownloadTypeOK
  <2>3. cfg \in Docs /\ cfg.list \in Lists /\ Len(cfg.list) \in Nat
    BY DEF DownloadTypeOK, Docs, Lists
  <2> QED
    BY <2>2, <2>3 DEF Base, Jobs
<1>2. full \in Instructions /\ full.id = job.base.id /\ Len(full.images) <= PhotoLimit
  BY <1>1, Filled
<1>3. /\ entered \in Docs /\ entered.library = cfg.library \cup {f} /\ entered.list = cfg.list
      /\ entered.text = cfg.text /\ entered.platforms = cfg.platforms
  BY <1>1 DEF Entered, Docs
<1>4. CASE ~Finishes(f)
  <2>1. cfg' = entered /\ draft' = draft /\ misplaced' = misplaced
    BY <1>4 DEF UploadAnswered
  <2> HIDE DEF entered
  <2> QED
    BY <1>1, <1>3, <2>1 DEF Docs
<1>5. CASE Finishes(f) /\ job.at = 0
  <2>1. /\ cfg' = entered /\ draft' = full
        /\ misplaced' = (misplaced \/ ~creating \/ draft.id # base.id)
    BY <1>5 DEF UploadAnswered
  <2> HIDE DEF entered, full
  <2>2. ~misplaced' => ~misplaced /\ creating /\ draft.id = full.id
    BY <1>1, <1>2, <2>1
  <2> QED
    BY <1>1, <1>2, <1>3, <1>5, <2>1, <2>2 DEF Docs
<1>6. CASE Finishes(f) /\ job.at # 0
  <2>1. /\ cfg' = [entered EXCEPT !.list = Put(cfg.list, job.at, full)] /\ draft' = draft
        /\ misplaced' = (misplaced \/ job.at > Len(cfg.list) \/ cfg.list[job.at] = Hole
                           \/ cfg.list[job.at].id # base.id)
    BY <1>3, <1>6 DEF UploadAnswered
  <2> HIDE DEF entered, full
  <2>2. ~misplaced' => /\ ~misplaced /\ job.at \in 1..Len(cfg.list)
                       /\ cfg.list[job.at] # Hole /\ cfg.list[job.at].id = full.id
    <3>1. misplaced' <=> misplaced \/ job.at > Len(cfg.list) \/ cfg.list[job.at] = Hole
                           \/ cfg.list[job.at].id # base.id
      BY <2>1
    <3> HIDE DEF job, base
    <3> QED
      BY <1>1, <1>2, <1>6, <3>1
  <2>3. Put(cfg.list, job.at, full) \in Lists
    BY <1>1, <1>2, <1>6, PutKeeps
  <2>4. /\ cfg' \in Docs /\ cfg'.library = entered.library
        /\ cfg'.list = Put(cfg.list, job.at, full)
        /\ cfg'.text = cfg.text /\ cfg'.platforms = cfg.platforms
    BY <1>3, <2>1, <2>3 DEF Docs
  <2> QED
    BY <1>1, <1>2, <1>3, <1>6, <2>1, <2>2, <2>4 DEF Docs
<1> QED
  BY <1>4, <1>5, <1>6

LEMMA EmptyIsDoc == Empty \in Docs
<1>1. <<>> \in Lists
  BY DEF Lists
<1>2. <<[key |-> 1, button |-> 0], [key |-> 2, button |-> 0]>> \in Platforms
  <2> DEFINE R == [key : {1, 2}, button : Words]
  <2>1. [key |-> 1, button |-> 0] \in R /\ [key |-> 2, button |-> 0] \in R
    BY DEF Words
  <2> HIDE DEF R
  <2>2. <<[key |-> 1, button |-> 0], [key |-> 2, button |-> 0]>> \in Seq(R)
    BY <2>1
  <2> QED
    BY <2>2 DEF Platforms, R
<1> QED
  BY <1>1, <1>2 DEF Empty, Docs, Words

\* What earlier visits left is a document, and it passes validation.
LEMMA PreparedIsSound ==
  ASSUME NEW n \in 0..InstructionLimit
  PROVE  /\ Prepared(n) \in Docs /\ Prepared(n).library = {} /\ Sound(Prepared(n).list)
         /\ ValidDoc(Prepared(n))
<1> DEFINE l == [k \in 1..n |-> Instruction(k)]
           doc == [Empty EXCEPT !.list = l]
<1>1. n \in Nat /\ 1..n \subseteq Ids
  BY DownloadAssumption
<1>2. \A k \in 1..n : /\ Instruction(k) \in Instructions /\ Instruction(k) # Hole
                     /\ Instruction(k).id = k /\ Instruction(k).text = 0
                     /\ Len(Instruction(k).images) = 0
  <2> SUFFICES ASSUME NEW k \in 1..n PROVE
                 /\ Instruction(k) \in Instructions
                 /\ Instruction(k).id = k /\ Instruction(k).text = 0
                 /\ Len(Instruction(k).images) = 0
      BY DownloadAssumption
  <2>1. <<>> \in Seq(Images) /\ Len(<<>>) = 0
    OBVIOUS
  <2> QED
    BY <1>1, <2>1 DEF Instruction, Instructions, Words
<1>3. l \in Lists /\ Len(l) = n /\ \A k \in 1..n : l[k] = Instruction(k)
  BY <1>1, <1>2 DEF Lists
<1>4. Empty \in Docs /\ Empty.library = {} /\ Empty.text = 0
  BY EmptyIsDoc DEF Empty
<1> HIDE DEF l
<1>5. /\ doc \in Docs /\ doc.library = {} /\ doc.text = 0 /\ doc.list = l
      /\ doc.platforms = Empty.platforms
  BY <1>3, <1>4 DEF Docs
<1> HIDE DEF doc
<1>6. Sound(l)
  BY <1>1, <1>2, <1>3, DownloadAssumption DEF Sound
<1>7. \A i \in DOMAIN Empty.platforms : Empty.platforms[i].button = 0
  BY DEF Empty
<1>8. ~Overdone(doc)
  <2>1. DOMAIN l = 1..n
    BY <1>3 DEF Lists
  <2> QED
    BY <1>1, <1>2, <1>3, <1>5, <1>7, <2>1, DownloadAssumption DEF Overdone, Improper
<1>9. Cardinality(doc.library) <= LibraryLimit
  BY <1>5, FS_EmptySet, DownloadAssumption
<1> QED
  BY <1>5, <1>6, <1>8, <1>9, ValidMeans DEF Prepared, doc, l

LEMMA DownloadTypeInit == DownloadInit => DownloadTypeOK
<1> SUFFICES ASSUME DownloadInit PROVE DownloadTypeOK
    OBVIOUS
<1>0. stored \in Docs
  BY PreparedIsSound DEF DownloadInit
<1>1. Empty \in Docs
  BY EmptyIsDoc
<1>2. NoJob \in Jobs
  BY DEF NoJob, Jobs
<1>3. /\ upload \in [Images -> [pc : {"idle"}, doc : Docs, job : Jobs]]
      /\ deletion \in [Images -> [pc : {"idle"}, doc : Docs]]
      /\ put \in [pc : {"idle"}, doc : Docs]
  BY <1>1, <1>2 DEF DownloadInit, Idling
<1> QED
  BY <1>0, <1>1, <1>3 DEF DownloadInit, DownloadTypeOK

\* Steps of the page that ask nothing of the server.
PageStep ==
  /\ PageOnly
  /\ cfg' \in Docs /\ draft' \in Instructions \cup {None} /\ creating' \in BOOLEAN
  /\ creating' => draft' \in Instructions
  /\ cfg'.library = cfg.library

LEMMA EditsPage ==
  ASSUME DownloadTypeOK, NEW i, Edits(i)
  PROVE  PageStep
<1>1. /\ i \in Editable /\ At(i) # Hole
      /\ UNCHANGED creating /\ PageOnly
  BY EditsOne
<1>2. PICK x \in Instructions : Change(i, x)
  BY EditsOne
<1>3. i \in Nat
  BY <1>1, DrawnInstruction
<1> QED
  BY <1>1, <1>2, <1>3, ChangeTypes DEF PageStep, DownloadTypeOK

LEMMA ArrangesPage ==
  ASSUME DownloadTypeOK, Rearranges \/ EditPage \/ MovePlatform
  PROVE  PageStep
<1>1. /\ cfg' \in Docs /\ cfg'.library = cfg.library
      /\ UNCHANGED <<draft, creating>> /\ PageOnly
  BY RearrangedDraws, PageEdited
<1> QED
  BY <1>1 DEF PageStep, DownloadTypeOK

LEMMA OpensDialog ==
  ASSUME DownloadTypeOK, NEW id \in Ids, OpenCreateDialog(id)
  PROVE  PageStep /\ cfg' = cfg /\ draft' = Instruction(id) /\ draft' \in Instructions
<1>1. Instruction(id) \in Instructions
  BY DEF Instruction, Instructions, Words
<1> QED
  BY <1>1 DEF OpenCreateDialog, PageStep, DownloadTypeOK

LEMMA CommitsPage ==
  ASSUME DownloadTypeOK, CommitDraft
  PROVE  PageStep /\ cfg'.list = Append(cfg.list, draft) /\ draft \in Instructions /\ ~creating'
<1>1. cfg \in Docs /\ cfg.list \in Seq(Instructions \cup {Hole}) /\ draft \in Instructions
  BY DEF CommitDraft, DownloadTypeOK, Docs, Lists
<1>2. Append(cfg.list, draft) \in Seq(Instructions \cup {Hole})
  BY <1>1
<1>3. cfg' = [cfg EXCEPT !.list = Append(cfg.list, draft)]
  BY DEF CommitDraft
<1>4. /\ cfg' \in Docs /\ cfg'.library = cfg.library
      /\ cfg'.list = Append(cfg.list, draft)
  BY <1>1, <1>2, <1>3 DEF Docs, Lists
<1> QED
  BY <1>1, <1>4 DEF CommitDraft, PageStep

LEMMA CancelsPage == DownloadTypeOK /\ CancelCreate => PageStep
BY DEF CancelCreate, PageStep, DownloadTypeOK, PageOnly

LEMMA DownloadSteps ==
  ASSUME DownloadTypeOK, DownloadNext
  PROVE  \/ PageStep \/ OnSave \/ PutHandled \/ SaveAnswered
         \/ \E i \in 0..Cardinality(Ids), new \in SUBSET Images : StartUpload(i, new)
         \/ \E f \in Images :
              \/ OnDelete(f) \/ FileRemoved(f) \/ DeletionReads(f) \/ DeletionSaves(f) \/ DeletionFails(f)
              \/ FileWritten(f) \/ UploadReads(f) \/ UploadSaves(f) \/ UploadAnswered(f) \/ UploadFailed(f)
BY EditsPage, ArrangesPage, OpensDialog, CommitsPage, CancelsPage DEF DownloadNext, Edits, Rearranges

LEMMA DownloadTypeNext == DownloadTypeOK /\ [DownloadNext]_downloadVars => DownloadTypeOK'
<1> SUFFICES ASSUME DownloadTypeOK, [DownloadNext]_downloadVars PROVE DownloadTypeOK'
    OBVIOUS
<1> USE DEF requests
<1>1. CASE PageStep
  BY <1>1 DEF PageStep, PageOnly, DownloadTypeOK
<1>2. ASSUME NEW i, NEW new \in SUBSET Images, StartUpload(i, new) PROVE DownloadTypeOK'
  <2> DEFINE job == [at |-> i, base |-> At(i), images |-> new]
             u == [pc |-> "sent", doc |-> Empty, job |-> job]
  <2>1. /\ i \in Editable /\ At(i) # Hole
        /\ Cardinality(new) <= PhotoLimit - Len(At(i).images)
    BY <1>2 DEF StartUpload
  <2>2. At(i) \in Instructions /\ i \in Nat
    BY <2>1, DrawnInstruction
  <2>3. Len(At(i).images) \in Nat /\ Cardinality(new) \in Nat
    BY <2>2, FS_Subset, FS_CardinalityType, DownloadAssumption DEF Instructions
  <2>4. job \in Jobs /\ Fits(job)
    BY <2>1, <2>2, <2>3, DownloadAssumption DEF Jobs, Fits
  <2>5. upload' = [f \in Images |-> IF f \in new THEN u ELSE upload[f]]
    BY <1>2 DEF StartUpload
  <2>6. Empty \in Docs
    BY EmptyIsDoc
  <2> HIDE DEF job
  <2>7. /\ u \in [pc : {"sent"}, doc : Docs, job : Jobs] /\ u.job = job
    BY <2>4, <2>6
  <2> HIDE DEF u
  <2> QED
    BY <1>2, <2>4, <2>5, <2>7 DEF StartUpload, DownloadTypeOK
<1>3. CASE OnSave \/ PutHandled \/ SaveAnswered
  <2>1. Empty \in Docs
    BY EmptyIsDoc
  <2> QED
    BY <1>3, <2>1 DEF OnSave, PutHandled, SaveAnswered, Idling, NotSaved, HandlersOnly, DownloadTypeOK
<1>4. ASSUME NEW f \in Images,
             OnDelete(f) \/ FileRemoved(f) \/ DeletionReads(f) \/ DeletionFails(f) \/ DeletionSaves(f)
      PROVE  DownloadTypeOK'
  <2>1. Empty \in Docs
    BY EmptyIsDoc
  <2>2. CASE OnDelete(f)
    <3>1. cfg' \in Docs
      BY <2>2 DEF OnDelete, DownloadTypeOK, Docs
    <3> QED
      BY <2>2, <3>1 DEF OnDelete, DownloadTypeOK
  <2>3. CASE FileRemoved(f) \/ DeletionReads(f) \/ DeletionFails(f)
    BY <2>1, <2>3 DEF FileRemoved, DeletionReads, DeletionFails, Idling, NotSaved, HandlersOnly, DownloadTypeOK
  <2>4. CASE DeletionSaves(f)
    <3>1. [deletion[f].doc EXCEPT !.library = @ \ {f}] \in Docs
      BY DEF DownloadTypeOK, Docs
    <3>2. stored' \in Docs
      BY <2>4, <3>1 DEF DeletionSaves, DownloadTypeOK
    <3> QED
      BY <2>1, <2>4, <3>2 DEF DeletionSaves, Idling, NotSaved, HandlersOnly, DownloadTypeOK
  <2> QED
    BY <1>4, <2>2, <2>3, <2>4
<1>5. ASSUME NEW f \in Images,
             FileWritten(f) \/ UploadReads(f) \/ UploadSaves(f) \/ UploadFailed(f)
      PROVE  DownloadTypeOK'
  <2>1. CASE FileWritten(f) \/ UploadReads(f) \/ UploadFailed(f)
    BY <2>1 DEF FileWritten, UploadReads, UploadFailed, NotSaved, HandlersOnly, DownloadTypeOK
  <2>2. CASE UploadSaves(f)
    <3>1. [upload[f].doc EXCEPT !.library = @ \cup {f}] \in Docs
      BY DEF DownloadTypeOK, Docs
    <3>2. stored' \in Docs
      BY <2>2, <3>1 DEF UploadSaves, DownloadTypeOK
    <3>3. /\ upload[f].pc = "read"
          /\ \E pc \in {"ok", "failed"} : upload' = [upload EXCEPT ![f].pc = pc]
      BY <2>2 DEF UploadSaves
    <3> QED
      BY <2>2, <3>2, <3>3 DEF UploadSaves, NotSaved, HandlersOnly, DownloadTypeOK
  <2> QED
    BY <1>5, <2>1, <2>2
<1>6. ASSUME NEW f \in Images, UploadAnswered(f) PROVE DownloadTypeOK'
  <2>1. cfg' \in Docs /\ draft' \in {draft} \cup Instructions
    BY <1>6, AnswerFills
  <2>2. /\ upload[f].pc = "ok" /\ upload' = [upload EXCEPT ![f].pc = "done"]
        /\ UNCHANGED <<stored, files, creating, deletion, put, saved>>
    BY <1>6 DEF UploadAnswered
  <2> QED
    BY <2>1, <2>2 DEF DownloadTypeOK
<1>7. CASE UNCHANGED downloadVars
  BY <1>7 DEF downloadVars, DownloadTypeOK
<1> QED
  BY <1>1, <1>2, <1>3, <1>4, <1>5, <1>6, <1>7, DownloadSteps

-----------------------------------------------------------------------------
(* The download page: its documents pass validation. *)

ListsInv ==
  /\ ValidDoc(stored)
  /\ ~misplaced => /\ Sound(cfg.list) /\ Sound(put.doc.list)
                   /\ creating => Joins(draft, cfg.list)

LEMMA EmptyIsSound == Sound(Empty.list)
BY DEF Empty, Sound

LEMMA ListsInit == DownloadInit => ListsInv
BY EmptyIsSound, PreparedIsSound DEF DownloadInit, Idling, ListsInv

LEMMA ListsNext == DownloadTypeOK /\ ListsInv /\ [DownloadNext]_downloadVars => ListsInv'
<1> SUFFICES ASSUME DownloadTypeOK, ListsInv, [DownloadNext]_downloadVars PROVE ListsInv'
    OBVIOUS
<1> DEFINE PageSound == Sound(cfg.list) /\ (creating => Joins(draft, cfg.list))
<1>0. ASSUME PageOnly, ~misplaced => PageSound' PROVE ListsInv'
  BY <1>0 DEF ListsInv, PageOnly, requests
<1>1. cfg.list \in Lists /\ (~misplaced => PageSound)
  BY DEF ListsInv, DownloadTypeOK, Docs
<1>2. ASSUME NEW i, Edits(i) PROVE ListsInv'
  <2>1. i \in Editable /\ At(i) # Hole /\ UNCHANGED creating /\ PageOnly
    BY <1>2, EditsOne
  <2>2. PICK x \in Instructions :
          /\ Change(i, x) /\ x.id = At(i).id
          /\ Len(At(i).images) <= PhotoLimit => Len(x.images) <= PhotoLimit
    BY <1>2, EditsOne
  <2>3. /\ i \in Nat
        /\ \/ i = 0 /\ creating /\ At(i) = draft
           \/ i # 0 /\ i \in 1..Len(cfg.list) /\ At(i) = cfg.list[i]
    BY <2>1, DrawnInstruction
  <2>4. ASSUME ~misplaced PROVE PageSound'
    <3>1. CASE i = 0
      <4>1. cfg' = cfg /\ draft' = x
        BY <2>2, <2>3, <3>1, ChangeTypes
      <4>2. Joins(draft, cfg.list) /\ x.id = draft.id
        BY <1>1, <2>2, <2>3, <2>4, <3>1
      <4>3. Joins(x, cfg.list)
        BY <2>2, <2>3, <3>1, <4>2 DEF Joins
      <4> QED
        BY <1>1, <2>4, <4>1, <4>3
    <3>2. CASE i # 0
      <4>1. cfg'.list = Put(cfg.list, i, x) /\ draft' = draft
        BY <2>2, <2>3, <3>2, ChangeTypes
      <4>2. i \in 1..Len(cfg.list) /\ x.id = cfg.list[i].id /\ Len(x.images) <= PhotoLimit
        BY <1>1, <2>2, <2>3, <2>4, <3>2 DEF Sound
      <4>3. /\ Sound(Put(cfg.list, i, x))
            /\ \A y : Joins(y, cfg.list) => Joins(y, Put(cfg.list, i, x))
        BY <1>1, <2>4, <4>2, PutIsSound
      <4> QED
        BY <1>1, <2>1, <2>4, <4>1, <4>3
    <3> QED
      BY <3>1, <3>2
  <2> QED
    BY <1>0, <2>1, <2>4
<1>3. CASE Rearranges
  <2>1. Drawn(cfg'.list, cfg.list) /\ UNCHANGED <<draft, creating>> /\ PageOnly
    BY <1>3, RearrangedDraws
  <2> QED
    BY <1>0, <1>1, <2>1, DrawnIsSound
<1>4. CASE EditPage \/ MovePlatform
  <2>1. cfg'.list = cfg.list /\ UNCHANGED <<draft, creating>> /\ PageOnly
    BY <1>4, PageEdited
  <2> QED
    BY <1>0, <1>1, <2>1
<1>5. ASSUME NEW id \in Ids, OpenCreateDialog(id) PROVE ListsInv'
  <2>1. PageOnly /\ cfg' = cfg /\ draft' = Instruction(id)
    BY <1>5, OpensDialog DEF PageStep
  <2>2. ASSUME ~misplaced PROVE Joins(Instruction(id), cfg.list)
    <3>1. Instruction(id).id = id /\ Len(Instruction(id).images) <= PhotoLimit
      BY DownloadAssumption DEF Instruction
    <3>2. ASSUME NEW k \in 1..Len(cfg.list) PROVE cfg.list[k].id # id
      <4>1. cfg.list[k] # Hole
        BY <1>1, <2>2 DEF Sound
      <4>2. cfg.list[k] \in Instructions
        BY <1>1, <4>1 DEF Lists
      <4>3. cfg.list[k].id \in Nat /\ id \in Nat
        BY <4>2, DownloadAssumption DEF Instructions
      <4> QED
        BY <1>5, <4>1, <4>3 DEF OpenCreateDialog
    <3> QED
      BY <3>1, <3>2 DEF Joins
  <2> QED
    BY <1>0, <1>1, <2>1, <2>2
<1>6. CASE CommitDraft
  <2>1. /\ PageOnly /\ cfg'.list = Append(cfg.list, draft) /\ draft \in Instructions
        /\ ~creating' /\ creating
    BY <1>6, CommitsPage DEF PageStep, CommitDraft
  <2>2. ~misplaced => Sound(Append(cfg.list, draft))
    BY <1>1, <2>1, AppendIsSound
  <2> QED
    BY <1>0, <2>1, <2>2
<1>7. CASE CancelCreate
  <2>1. PageOnly /\ cfg' = cfg /\ ~creating'
    BY <1>7 DEF CancelCreate
  <2> QED
    BY <1>0, <1>1, <2>1
<1>8. ASSUME UNCHANGED <<stored, draft, creating, misplaced>>, cfg'.list = cfg.list,
             put'.doc \in {put.doc, cfg, Empty}
      PROVE  ListsInv'
  BY <1>8, EmptyIsSound DEF ListsInv
<1>9. ASSUME NEW i, NEW new, StartUpload(i, new) PROVE ListsInv'
  BY <1>8, <1>9 DEF StartUpload
<1>10. CASE OnSave \/ SaveAnswered
  BY <1>8, <1>10 DEF OnSave, SaveAnswered, Idling, NotSaved, HandlersOnly
<1>11. ASSUME NEW f \in Images, OnDelete(f) PROVE ListsInv'
  <2>1. cfg'.list = cfg.list
    BY <1>11 DEF OnDelete, DownloadTypeOK, Docs
  <2> QED
    BY <1>8, <1>11, <2>1 DEF OnDelete
<1>12. ASSUME UNCHANGED <<cfg, draft, creating, misplaced>>, put'.doc = put.doc,
              stored' = stored \/ ValidDoc(stored')
       PROVE  ListsInv'
  BY <1>12 DEF ListsInv
<1>13. CASE PutHandled
  <2>1. put'.doc = put.doc
    BY <1>13 DEF PutHandled, DownloadTypeOK
  <2> QED
    BY <1>12, <1>13, <2>1 DEF PutHandled, HandlersOnly
<1>14. ASSUME NEW f \in Images,
              \/ FileRemoved(f) \/ DeletionReads(f) \/ DeletionFails(f) \/ DeletionSaves(f)
              \/ FileWritten(f) \/ UploadReads(f) \/ UploadSaves(f) \/ UploadFailed(f)
       PROVE  ListsInv'
  <2>1. put' = put /\ HandlersOnly /\ (stored' = stored \/ ValidDoc(stored'))
    BY <1>14 DEF FileRemoved, DeletionReads, DeletionFails, DeletionSaves, FileWritten,
                 UploadReads, UploadSaves, UploadFailed, NotSaved
  <2> QED
    BY <1>12, <2>1 DEF HandlersOnly
<1>15. ASSUME NEW f \in Images, UploadAnswered(f) PROVE ListsInv'
  <2>1. UNCHANGED <<stored, put, creating>>
    BY <1>15 DEF UploadAnswered
  <2>2. CASE cfg'.list = cfg.list /\ draft' = draft /\ misplaced' = misplaced
    BY <1>8, <2>1, <2>2
  <2>3. ASSUME NEW x \in Instructions, Len(x.images) <= PhotoLimit, draft' = x, cfg'.list = cfg.list,
               ~misplaced' => ~misplaced /\ creating /\ draft.id = x.id
        PROVE  ListsInv'
    <3>1. ~misplaced' => Joins(x, cfg.list)
      BY <1>1, <2>3 DEF Joins
    <3> QED
      BY <1>1, <2>1, <2>3, <3>1 DEF ListsInv
  <2>4. ASSUME NEW x \in Instructions, Len(x.images) <= PhotoLimit, NEW i \in Nat, draft' = draft,
               cfg'.list = Put(cfg.list, i, x),
               ~misplaced' => ~misplaced /\ i \in 1..Len(cfg.list) /\ cfg.list[i].id = x.id
        PROVE  ListsInv'
    <3>1. ASSUME ~misplaced' PROVE PageSound'
      <4>1. /\ Sound(Put(cfg.list, i, x))
            /\ \A y : Joins(y, cfg.list) => Joins(y, Put(cfg.list, i, x))
        BY <1>1, <2>4, <3>1, PutIsSound
      <4> QED
        BY <1>1, <2>1, <2>4, <3>1, <4>1
    <3>2. ~misplaced' => Sound(put.doc.list)
      BY <2>4 DEF ListsInv
    <3> QED
      BY <2>1, <3>1, <3>2 DEF ListsInv
  <2>5. upload[f].job.at \in Nat
    BY DEF DownloadTypeOK, Jobs
  <2> QED
    BY <1>15, <2>2, <2>3, <2>4, <2>5, AnswerFills
<1>16. CASE UNCHANGED downloadVars
  BY <1>16 DEF downloadVars, ListsInv
<1> QED
  BY <1>2, <1>3, <1>4, <1>5, <1>6, <1>7, <1>9, <1>10, <1>11, <1>13, <1>14, <1>15, <1>16
     DEF DownloadNext, Edits, Rearranges

-----------------------------------------------------------------------------
(* The download page: as long as no two requests cross, the library is what the       *)
(* requests made of it.                                                               *)

Posts(f) == upload[f].pc \notin {"idle", "done", "lost"}
Deletes(f) == deletion[f].pc # "idle"

\* One request at a time.
OneRequest ==
  /\ \A f, g \in Images : /\ Posts(f) /\ Posts(g) => f = g
                          /\ Deletes(f) /\ Deletes(g) => f = g
                          /\ ~(Posts(f) /\ Deletes(g))
  /\ put.pc # "idle" => \A f \in Images : ~Posts(f) /\ ~Deletes(f)

\* What a handler has read is what is stored, what is being saved is the page's.
ReadsCurrent ==
  /\ \A f \in Images : /\ upload[f].pc = "read" => upload[f].doc = stored
                       /\ deletion[f].pc = "read" => deletion[f].doc = stored
  /\ put.pc # "idle" => put.doc.library = cfg.library

\* The page knows of an image, or is about to be told.
Known(f) == f \in cfg.library \/ upload[f].pc = "ok"

KnownIsStored == \A f \in Images : Known(f) => f \in stored.library /\ ~Deletes(f)

\* What is stored is known and in the directory, but for the request under way.
StoredIsKnown ==
  \A f \in Images :
    /\ f \in stored.library /\ ~Deletes(f) => Known(f)
    /\ f \in files <=> /\ f \in stored.library \/ upload[f].pc \in {"filed", "read"}
                       /\ deletion[f].pc \notin {"removed", "read"}

SameTexts(a, b) == a.text = b.text /\ a.platforms = b.platforms /\ a.list = b.list

RequestsInv ==
  ~crossed => /\ OneRequest /\ ReadsCurrent /\ KnownIsStored /\ SameTexts(stored, saved)
              /\ ~broken => StoredIsKnown

DownloadInv == DownloadTypeOK /\ ListsInv /\ RequestsInv /\ SavesAccepted

LEMMA RequestsInit == DownloadInit => RequestsInv
<1> SUFFICES ASSUME DownloadInit PROVE RequestsInv
    OBVIOUS
<1>1. stored.library = {} /\ cfg = stored /\ saved = stored /\ files = {}
  BY PreparedIsSound DEF DownloadInit
<1> QED
  BY <1>1 DEF DownloadInit, Idling, RequestsInv, OneRequest, ReadsCurrent, KnownIsStored, Known,
              StoredIsKnown, SameTexts, Posts, Deletes

LEMMA QuietMeans ==
  Quiet <=> put.pc = "idle" /\ \A f \in Images : ~Posts(f) /\ ~Deletes(f)
BY DEF Quiet, Posting, Deleting, Posts, Deletes

\* A document with an image less passes validation if it did.
LEMMA SmallerIsValid ==
  ASSUME NEW doc \in Docs, NEW f, ValidDoc(doc)
  PROVE  ValidDoc([doc EXCEPT !.library = @ \ {f}])
<1> DEFINE less == [doc EXCEPT !.library = @ \ {f}]
<1>1. /\ less \in Docs /\ less.list = doc.list /\ less.library = doc.library \ {f}
      /\ less.text = doc.text /\ less.platforms = doc.platforms
  BY DEF Docs
<1>2. IsFiniteSet(doc.library) /\ Cardinality(doc.library) \in Nat
  BY FS_Subset, FS_CardinalityType, DownloadAssumption DEF Docs
<1>3. less.library \in SUBSET doc.library
  BY <1>1
<1>4. Cardinality(less.library) <= Cardinality(doc.library) /\ Cardinality(less.library) \in Nat
  BY <1>2, <1>3, FS_Subset, FS_CardinalityType
<1> HIDE DEF less
<1>5. Cardinality(less.library) <= LibraryLimit
  BY <1>2, <1>4, ValidMeans, DownloadAssumption
<1>6. ValidDoc(less)
  <2>1. ~Overdone(doc) /\ Sound(doc.list)
    BY ValidMeans
  <2>2. ~Overdone(less)
    BY <1>1, <2>1 DEF Overdone
  <2> QED
    BY <1>1, <1>5, <2>1, <2>2, ValidMeans
<1> QED
  BY <1>6 DEF less

LEMMA RequestsNext ==
  DownloadTypeOK /\ ListsInv /\ RequestsInv /\ [DownloadNext]_downloadVars => RequestsInv'
<1> DEFINE Goal == /\ OneRequest' /\ ReadsCurrent' /\ KnownIsStored' /\ SameTexts(stored, saved)'
                   /\ ~broken' => StoredIsKnown'
<1> SUFFICES ASSUME DownloadTypeOK, ListsInv, RequestsInv, [DownloadNext]_downloadVars, ~crossed'
             PROVE  Goal
    BY DEF RequestsInv
<1>0. /\ upload \in [Images -> [pc : {"idle", "sent", "filed", "read", "ok", "failed", "done", "lost"},
                                doc : Docs, job : Jobs]]
      /\ deletion \in [Images -> [pc : {"idle", "sent", "removed", "read"}, doc : Docs]]
      /\ put \in [pc : {"idle", "sent", "saved", "refused"}, doc : Docs]
  BY DEF DownloadTypeOK
<1> DEFINE Holds == /\ ~crossed /\ OneRequest /\ ReadsCurrent /\ KnownIsStored /\ SameTexts(stored, saved)
                    /\ ~broken => StoredIsKnown
<1>1. ~crossed => Holds
  BY DEF RequestsInv
<1>2. ASSUME PageStep PROVE Goal
  <2>1. Holds /\ UNCHANGED <<stored, files, upload, deletion, put, saved, broken>>
        /\ cfg'.library = cfg.library
    BY <1>1, <1>2 DEF PageStep, PageOnly, requests
  <2> QED
    BY <2>1 DEF OneRequest, ReadsCurrent, KnownIsStored, Known, StoredIsKnown, SameTexts, Posts, Deletes
<1>3. ASSUME NEW i, NEW new \in SUBSET Images, StartUpload(i, new) PROVE Goal
  <2>1. Holds /\ Quiet /\ ~(Cardinality(new) > 1)
    <3>1. crossed' <=> crossed \/ ~Quiet \/ Cardinality(new) > 1
      BY <1>3 DEF StartUpload
    <3> QED
      BY <1>1, <3>1
  <2>2. PICK f \in Images : new = {f}
    <3>1. IsFiniteSet(new) /\ Cardinality(new) \in Nat /\ new # {}
      BY <1>3, FS_Subset, FS_CardinalityType, DownloadAssumption DEF StartUpload
    <3>2. Cardinality(new) = 1
      BY <2>1, <3>1, FS_EmptySet
    <3> QED
      BY <3>1, <3>2, FS_Singleton
  <2>3. /\ upload[f].pc = "idle" /\ upload'[f].pc = "sent"
        /\ \A g \in Images \ {f} : upload'[g] = upload[g]
        /\ UNCHANGED <<stored, files, cfg, deletion, put, saved, broken>>
    BY <1>0, <1>3, <2>2 DEF StartUpload
  <2> QED
    BY <2>1, <2>3, QuietMeans
       DEF OneRequest, ReadsCurrent, KnownIsStored, Known, StoredIsKnown, SameTexts, Posts, Deletes
<1>4. ASSUME NEW f \in Images, OnDelete(f) PROVE Goal
  <2>1. Holds /\ Quiet
    <3>1. crossed' <=> crossed \/ ~Quiet
      BY <1>4 DEF OnDelete, Crosses
    <3> QED
      BY <1>1, <3>1
  <2>2. /\ deletion'[f].pc = "sent" /\ \A g \in Images \ {f} : deletion'[g] = deletion[g]
        /\ f \in cfg.library /\ cfg'.library = cfg.library \ {f}
        /\ UNCHANGED <<stored, files, upload, put, saved, broken>>
    BY <1>0, <1>4 DEF OnDelete, DownloadTypeOK, Docs
  <2> QED
    BY <2>1, <2>2, QuietMeans
       DEF OneRequest, ReadsCurrent, KnownIsStored, Known, StoredIsKnown, SameTexts, Posts, Deletes
<1>5. CASE OnSave
  <2>1. Holds /\ Quiet
    <3>1. crossed' <=> crossed \/ ~Quiet
      BY <1>5 DEF OnSave, Crosses
    <3> QED
      BY <1>1, <3>1
  <2>2. put'.pc = "sent" /\ put'.doc = cfg /\ UNCHANGED <<stored, files, cfg, upload, deletion, saved, broken>>
    BY <1>5 DEF OnSave
  <2> QED
    BY <2>1, <2>2, QuietMeans
       DEF OneRequest, ReadsCurrent, KnownIsStored, Known, StoredIsKnown, SameTexts, Posts, Deletes
<1>6. CASE PutHandled
  <2>1. Holds /\ put.pc = "sent" /\ UNCHANGED <<files, cfg, upload, deletion, broken>>
    BY <1>1, <1>6 DEF PutHandled, HandlersOnly
  <2>2. put'.doc = put.doc
    BY <1>0, <1>6 DEF PutHandled
  <2>3. CASE stored' = put.doc /\ saved' = put.doc
    BY <2>1, <2>2, <2>3
       DEF OneRequest, ReadsCurrent, KnownIsStored, Known, StoredIsKnown, SameTexts, Posts, Deletes
  <2>4. CASE UNCHANGED <<stored, saved>>
    BY <2>1, <2>2, <2>4
       DEF OneRequest, ReadsCurrent, KnownIsStored, Known, StoredIsKnown, SameTexts, Posts, Deletes
  <2> QED
    BY <1>6, <2>3, <2>4 DEF PutHandled
<1>7. CASE SaveAnswered
  <2>1. Holds /\ put'.pc = "idle" /\ UNCHANGED <<stored, files, cfg, upload, deletion, saved, broken>>
    BY <1>1, <1>7 DEF SaveAnswered, Idling, NotSaved, HandlersOnly
  <2> QED
    BY <2>1 DEF OneRequest, ReadsCurrent, KnownIsStored, Known, StoredIsKnown, SameTexts, Posts, Deletes
<1>8. ASSUME NEW f \in Images, FileRemoved(f) \/ DeletionReads(f) \/ DeletionFails(f) PROVE Goal
  <2>1. Holds /\ UNCHANGED <<stored, cfg, upload, put, saved>>
    BY <1>1, <1>8 DEF FileRemoved, DeletionReads, DeletionFails, NotSaved, HandlersOnly
  <2>2. Deletes(f) /\ \A g \in Images \ {f} : deletion'[g] = deletion[g]
    BY <1>0, <1>8 DEF FileRemoved, DeletionReads, DeletionFails, Deletes
  <2>3. \/ /\ deletion[f].pc = "sent" /\ deletion'[f].pc = "removed"
           /\ files' = files \ {f} /\ broken' = broken
        \/ /\ deletion[f].pc = "removed" /\ deletion'[f].pc = "read" /\ deletion'[f].doc = stored
           /\ files' = files /\ broken' = broken
        \/ deletion'[f].pc = "idle" /\ broken'
    BY <1>0, <1>8 DEF FileRemoved, DeletionReads, DeletionFails, Idling
  <2> QED
    BY <2>1, <2>2, <2>3
       DEF OneRequest, ReadsCurrent, KnownIsStored, Known, StoredIsKnown, SameTexts, Posts, Deletes
<1>9. ASSUME NEW f \in Images, DeletionSaves(f) PROVE Goal
  <2>1. Holds /\ UNCHANGED <<files, cfg, upload, put, saved, broken>>
    BY <1>1, <1>9 DEF DeletionSaves, NotSaved, HandlersOnly
  <2>2. /\ deletion[f].pc = "read" /\ deletion'[f].pc = "idle"
        /\ \A g \in Images \ {f} : deletion'[g] = deletion[g]
    BY <1>0, <1>9 DEF DeletionSaves, Idling
  <2>3. deletion[f].doc = stored /\ stored \in Docs /\ ValidDoc(stored)
    BY <2>1, <2>2 DEF ReadsCurrent, ListsInv, DownloadTypeOK
  <2>4. stored' = [stored EXCEPT !.library = @ \ {f}]
    BY <1>9, <2>3, SmallerIsValid DEF DeletionSaves
  <2>5. stored'.library = stored.library \ {f} /\ SameTexts(stored', stored)
    BY <2>3, <2>4 DEF Docs, SameTexts
  <2> QED
    BY <2>1, <2>2, <2>5
       DEF OneRequest, ReadsCurrent, KnownIsStored, Known, StoredIsKnown, SameTexts, Posts, Deletes
<1>10. ASSUME NEW f \in Images, FileWritten(f) \/ UploadReads(f) \/ UploadFailed(f) PROVE Goal
  <2>1. Holds /\ UNCHANGED <<stored, cfg, deletion, put, saved, broken>>
    BY <1>1, <1>10 DEF FileWritten, UploadReads, UploadFailed, NotSaved, HandlersOnly
  <2>2. \A g \in Images \ {f} : upload'[g] = upload[g]
    BY <1>0, <1>10 DEF FileWritten, UploadReads, UploadFailed
  <2>3. \/ /\ upload[f].pc = "sent" /\ upload'[f].pc = "filed" /\ files' = files \cup {f}
        \/ /\ upload[f].pc = "filed" /\ upload'[f].pc = "read" /\ upload'[f].doc = stored
           /\ files' = files
        \/ upload[f].pc = "failed" /\ upload'[f].pc = "lost" /\ files' = files
    BY <1>0, <1>10 DEF FileWritten, UploadReads, UploadFailed
  <2> QED
    BY <2>1, <2>2, <2>3
       DEF OneRequest, ReadsCurrent, KnownIsStored, Known, StoredIsKnown, SameTexts, Posts, Deletes
<1>11. ASSUME NEW f \in Images, UploadSaves(f) PROVE Goal
  <2>1. Holds /\ UNCHANGED <<files, cfg, deletion, put, saved>> /\ upload[f].pc = "read"
    BY <1>1, <1>11 DEF UploadSaves, NotSaved, HandlersOnly
  <2>2. upload[f].doc = stored /\ stored \in Docs
    BY <2>1 DEF ReadsCurrent, DownloadTypeOK
  <2>3. \A g \in Images \ {f} : upload'[g] = upload[g]
    BY <1>0, <1>11 DEF UploadSaves
  <2>4. \/ /\ stored' = [stored EXCEPT !.library = @ \cup {f}] /\ broken' = broken
           /\ upload'[f].pc = "ok"
        \/ stored' = stored /\ upload'[f].pc = "failed" /\ broken'
    BY <1>0, <1>11, <2>2 DEF UploadSaves
  <2>5. \/ /\ stored'.library = stored.library \cup {f} /\ SameTexts(stored', stored)
           /\ broken' = broken /\ upload'[f].pc = "ok"
        \/ stored' = stored /\ upload'[f].pc = "failed" /\ broken'
    BY <2>2, <2>4 DEF Docs, SameTexts
  <2> QED
    BY <2>1, <2>3, <2>5
       DEF OneRequest, ReadsCurrent, KnownIsStored, Known, StoredIsKnown, SameTexts, Posts, Deletes
<1>12. ASSUME NEW f \in Images, UploadAnswered(f) PROVE Goal
  <2>1. /\ Holds /\ upload[f].pc = "ok"
        /\ UNCHANGED <<stored, files, deletion, put, saved, broken>>
    BY <1>1, <1>12 DEF UploadAnswered
  <2>2. upload'[f].pc = "done" /\ \A g \in Images \ {f} : upload'[g] = upload[g]
    BY <1>0, <1>12 DEF UploadAnswered
  <2>3. cfg'.library = cfg.library \cup {f}
    BY <1>12, AnswerFills
  <2> QED
    BY <2>1, <2>2, <2>3
       DEF OneRequest, ReadsCurrent, KnownIsStored, Known, StoredIsKnown, SameTexts, Posts, Deletes
<1>13. CASE UNCHANGED downloadVars
  BY <1>1, <1>13
     DEF downloadVars, OneRequest, ReadsCurrent, KnownIsStored, Known, StoredIsKnown, SameTexts, Posts, Deletes
<1> HIDE DEF Goal, Holds
<1> QED
  BY <1>2, <1>3, <1>4, <1>5, <1>6, <1>7, <1>8, <1>9, <1>10, <1>11, <1>12, <1>13, DownloadSteps

LEMMA AcceptedInit == DownloadInit => SavesAccepted
BY DEF DownloadInit, Idling, SavesAccepted

LEMMA AcceptedNext ==
  DownloadTypeOK /\ ListsInv /\ RequestsInv /\ SavesAccepted /\ [DownloadNext]_downloadVars
    => SavesAccepted'
<1> DEFINE Goal == \/ Overdone(put'.doc)
                   \/ crossed' /\ Cardinality(put'.doc.library) > LibraryLimit
<1> SUFFICES ASSUME DownloadTypeOK, ListsInv, RequestsInv, SavesAccepted,
                    [DownloadNext]_downloadVars, put'.pc = "refused", ~misplaced'
             PROVE  Goal
    BY DEF SavesAccepted
<1>1. ASSUME put' = put, misplaced => misplaced', crossed => crossed' PROVE Goal
  BY <1>1 DEF SavesAccepted
<1>2. CASE PageStep
  BY <1>1, <1>2 DEF PageStep, PageOnly, requests
<1>3. ASSUME NEW i, NEW new, StartUpload(i, new) PROVE Goal
  <2>1. crossed' <=> crossed \/ ~Quiet \/ Cardinality(new) > 1
    BY <1>3 DEF StartUpload
  <2> QED
    BY <1>1, <1>3, <2>1 DEF StartUpload
<1>4. ASSUME NEW f \in Images, OnDelete(f) PROVE Goal
  <2>1. crossed' <=> crossed \/ ~Quiet
    BY <1>4 DEF OnDelete, Crosses
  <2> QED
    BY <1>1, <1>4, <2>1 DEF OnDelete
<1>5. CASE OnSave \/ SaveAnswered
  BY <1>5 DEF OnSave, SaveAnswered, Idling
<1>6. CASE PutHandled
  <2>1. put.pc = "sent" /\ put'.doc = put.doc /\ ~ValidDoc(put.doc) /\ put.doc \in Docs
    BY <1>6 DEF PutHandled, DownloadTypeOK
  <2>2. crossed' = crossed /\ misplaced' = misplaced
    BY <1>6 DEF PutHandled, HandlersOnly
  <2>3. Sound(put.doc.list)
    BY <2>2 DEF ListsInv
  <2>4. /\ IsFiniteSet(put.doc.library) /\ Cardinality(put.doc.library) \in Nat
        /\ IsFiniteSet(stored.library) /\ Cardinality(stored.library) \in Nat
        /\ stored \in Docs
    BY <2>1, FS_Subset, FS_CardinalityType, DownloadAssumption DEF DownloadTypeOK, Docs
  <2>0. CASE Overdone(put.doc)
    BY <2>0, <2>1
  <2>5. ASSUME ~Overdone(put.doc) PROVE Cardinality(put.doc.library) > LibraryLimit
    BY <2>1, <2>3, <2>4, <2>5, ValidMeans, DownloadAssumption
  <2>6. ASSUME ~crossed, ~Overdone(put.doc) PROVE FALSE
    <3>1. put.doc.library \in SUBSET stored.library
      BY <2>1, <2>6 DEF RequestsInv, ReadsCurrent, KnownIsStored, Known, DownloadTypeOK, Docs
    <3>2. Cardinality(put.doc.library) <= Cardinality(stored.library)
      BY <2>4, <3>1, FS_Subset
    <3>3. Cardinality(stored.library) <= LibraryLimit
      BY <2>4, ValidMeans DEF ListsInv
    <3> QED
      BY <2>4, <2>5, <2>6, <3>2, <3>3, DownloadAssumption
  <2> QED
    BY <2>0, <2>1, <2>2, <2>5, <2>6
<1>7. ASSUME NEW f \in Images,
             \/ FileRemoved(f) \/ DeletionReads(f) \/ DeletionFails(f) \/ DeletionSaves(f)
             \/ FileWritten(f) \/ UploadReads(f) \/ UploadSaves(f) \/ UploadFailed(f)
      PROVE  Goal
  <2>1. put' = put /\ HandlersOnly
    BY <1>7 DEF FileRemoved, DeletionReads, DeletionFails, DeletionSaves, FileWritten,
                UploadReads, UploadSaves, UploadFailed, NotSaved
  <2> QED
    BY <1>1, <2>1 DEF HandlersOnly
<1>8. ASSUME NEW f \in Images, UploadAnswered(f) PROVE Goal
  <2>1. put' = put /\ crossed' = crossed
    BY <1>8 DEF UploadAnswered
  <2>2. misplaced => misplaced'
    BY <1>8, AnswerFills
  <2> QED
    BY <1>1, <2>1, <2>2
<1>9. CASE UNCHANGED downloadVars
  BY <1>1, <1>9 DEF downloadVars
<1> HIDE DEF Goal
<1> QED
  BY <1>2, <1>3, <1>4, <1>5, <1>6, <1>7, <1>8, <1>9, DownloadSteps

LEMMA HoldsDocuments == DownloadInv => DocumentsHold
<1> SUFFICES ASSUME DownloadInv PROVE LibraryMatchesFiles /\ SavedStays
    BY DEF DownloadInv, DocumentsHold
<1>1. /\ stored \in Docs /\ saved \in Docs /\ files \subseteq Images
      /\ stored.library \subseteq Images
  BY DEF DownloadInv, DownloadTypeOK, Docs
<1>2. LibraryMatchesFiles
  <2> SUFFICES ASSUME Quiet, ~crossed, ~broken PROVE stored.library = files
      BY DEF LibraryMatchesFiles
  <2>1. StoredIsKnown /\ \A f \in Images : ~Posts(f) /\ ~Deletes(f)
    BY QuietMeans DEF DownloadInv, RequestsInv
  <2>2. \A f \in Images : f \in files <=> f \in stored.library
    BY <2>1 DEF StoredIsKnown, Posts, Deletes
  <2> QED
    BY <1>1, <2>2
<1>3. SavedStays
  <2> SUFFICES ASSUME ~crossed
               PROVE  [stored EXCEPT !.library = {}] = [saved EXCEPT !.library = {}]
      BY DEF SavedStays
  <2>1. SameTexts(stored, saved)
    BY DEF DownloadInv, RequestsInv
  <2> QED
    BY <1>1, <2>1 DEF Docs, SameTexts
<1> QED
  BY <1>2, <1>3

\* What the page builds the server accepts, but for what was typed into it, nothing uploaded is dropped and nothing
\* deleted comes back, what was saved stays: the document, the uploads and the
\* directory hold together but for requests that cross, whatever the limits.
THEOREM DocumentsStayWhole == DownloadSpec => []DocumentsHold
<1>1. DownloadInit => DownloadInv
  BY DownloadTypeInit, ListsInit, RequestsInit, AcceptedInit DEF DownloadInv
<1>2. DownloadInv /\ [DownloadNext]_downloadVars => DownloadInv'
  BY DownloadTypeNext, ListsNext, RequestsNext, AcceptedNext DEF DownloadInv
<1>3. DownloadInv => DocumentsHold
  BY HoldsDocuments
<1> QED
  BY <1>1, <1>2, <1>3, PTL DEF DownloadSpec

-----------------------------------------------------------------------------
(* The journal and the chat: markers tell of the session, the badge counts what
   nobody has seen, and the widget stays on the screen. *)

Entries == [level : Levels, category : Categories, marker : Markers \cup {"none"}]
Talk == {"greeting", "self", "host", "notice"}
Active == {"dialling", "asking", "live"}
Stati == {"idle", "connecting", "connected", "disconnected", "error"}

\* What is kept of a sequence: its end, and more than nothing of one that is not empty.
LEMMA SliceKeeps ==
  ASSUME NEW S, NEW s \in Seq(S), NEW n \in Nat \ {0}
  PROVE  /\ Slice(s, n) \in Seq(S)
         /\ \E k \in Nat : /\ Len(Slice(s, n)) = Len(s) - k
                           /\ \A i \in DOMAIN Slice(s, n) : Slice(s, n)[i] = s[i + k]
<1>0. Len(s) \in Nat
  OBVIOUS
<1>1. CASE Len(s) <= n
  <2>1. Slice(s, n) = s
    BY <1>1 DEF Slice
  <2>2. /\ Len(s) = Len(s) - 0
        /\ \A i \in DOMAIN s : s[i] = s[i + 0]
    BY <1>0
  <2> QED
    BY <2>1, <2>2
<1>2. CASE ~(Len(s) <= n)
  <2> DEFINE k == Len(s) - n
             t == SubSeq(s, k + 1, Len(s))
  <2>1. Slice(s, n) = t
    BY <1>0, <1>2 DEF Slice
  <2>2. k \in Nat /\ k + 1 \in 1..Len(s) + 1 /\ Len(s) - (k + 1) + 1 = n
    BY <1>0, <1>2
  <2>3. t \in Seq(S) /\ Len(t) = n /\ \A i \in 1..n : t[i] = s[i + k]
    <3>1. \A i \in k + 1..Len(s) : s[i] \in S
      BY <1>0, <2>2
    <3>2. t \in Seq(S) /\ Len(t) = n
      BY <1>0, <2>2, SubSeqProperties
    <3>3. \A i \in 1..n : t[i] = s[k + 1 + i - 1]
      BY <1>0, <2>2, <3>2, SubSeqProperties
    <3>4. \A i \in 1..n : k + 1 + i - 1 = i + k
      BY <1>0, <2>2
    <3> QED
      BY <3>2, <3>3, <3>4
  <2>4. DOMAIN t = 1..n
    BY <2>3
  <2>5. Len(t) = Len(s) - k
    BY <1>0, <2>3
  <2> HIDE DEF k, t
  <2> QED
    BY <2>1, <2>2, <2>3, <2>4, <2>5
<1> QED
  BY <1>1, <1>2

\* Marker i of a journal is the last one; marker j is the next one after it.
LastMark(l, i) ==
  /\ i \in DOMAIN l /\ l[i].marker \in Markers
  /\ \A j \in DOMAIN l : l[j].marker \in Markers => j <= i
NextMark(l, i, j) ==
  /\ i \in DOMAIN l /\ j \in DOMAIN l
  /\ l[i].marker \in Markers /\ l[j].marker \in Markers /\ i < j
  /\ \A k \in DOMAIN l : l[k].marker \in Markers => k <= i \/ j <= k

\* A journal whose markers fit a session in phase p.
EndFits(l, p) ==
  \A i \in DOMAIN l : LastMark(l, i) =>
    /\ l[i].marker = "connect" <=> p \in Active
    /\ l[i].marker = "lost" => p = "over"
PairsFit(l) ==
  \A i, j \in DOMAIN l : NextMark(l, i, j) => ~(l[i].marker = "lost" /\ l[j].marker = "disconnected")
MarksFit(l, p) == EndFits(l, p) /\ PairsFit(l)

LEMMA FitsTail ==
  ASSUME NEW l \in Seq(Entries), NEW p, MarksFit(l, p),
         NEW t \in Seq(Entries), NEW k \in Nat, Len(t) = Len(l) - k,
         \A i \in DOMAIN t : t[i] = l[i + k]
  PROVE  MarksFit(t, p)
<1>0. Len(l) \in Nat /\ Len(t) \in Nat /\ DOMAIN l = 1..Len(l) /\ DOMAIN t = 1..Len(t)
  OBVIOUS
<1>1. \A i \in DOMAIN t : i \in Nat /\ i + k \in DOMAIN l
  BY <1>0
<1>2. \A i \in DOMAIN l : i > k => i - k \in DOMAIN t /\ l[i] = t[i - k]
  BY <1>0
<1>3. ASSUME NEW i \in DOMAIN t, LastMark(t, i) PROVE LastMark(l, i + k)
  <2>1. i + k \in DOMAIN l /\ l[i + k].marker \in Markers
    BY <1>1, <1>3 DEF LastMark
  <2>2. ASSUME NEW j \in DOMAIN l, l[j].marker \in Markers PROVE j <= i + k
    <3>1. CASE j > k
      <4>1. j - k \in DOMAIN t /\ t[j - k].marker \in Markers
        BY <1>2, <2>2, <3>1
      <4>2. j - k <= i
        BY <1>3, <4>1 DEF LastMark
      <4> QED
        BY <1>0, <1>1, <4>2
    <3>2. CASE ~(j > k)
      BY <1>0, <1>1, <3>2
    <3> QED
      BY <3>1, <3>2
  <2> QED
    BY <2>1, <2>2 DEF LastMark
<1>4. ASSUME NEW i \in DOMAIN t, NEW j \in DOMAIN t, NextMark(t, i, j)
      PROVE  NextMark(l, i + k, j + k)
  <2>1. /\ i + k \in DOMAIN l /\ j + k \in DOMAIN l /\ i + k < j + k
        /\ l[i + k].marker \in Markers /\ l[j + k].marker \in Markers
    BY <1>0, <1>1, <1>4 DEF NextMark
  <2>2. ASSUME NEW m \in DOMAIN l, l[m].marker \in Markers
        PROVE  m <= i + k \/ j + k <= m
    <3>1. CASE m > k
      <4>1. m - k \in DOMAIN t /\ t[m - k].marker \in Markers
        BY <1>2, <2>2, <3>1
      <4>2. m - k <= i \/ j <= m - k
        BY <1>4, <4>1 DEF NextMark
      <4> QED
        BY <1>0, <1>1, <4>2
    <3>2. CASE ~(m > k)
      BY <1>0, <1>1, <3>2
    <3> QED
      BY <3>1, <3>2
  <2> QED
    BY <2>1, <2>2 DEF NextMark
<1>5. EndFits(t, p)
  BY <1>1, <1>3 DEF MarksFit, EndFits
<1>6. PairsFit(t)
  BY <1>1, <1>4 DEF MarksFit, PairsFit
<1> QED
  BY <1>5, <1>6 DEF MarksFit

\* What an entry more makes of it: a marker tells of the phase the session is in by then,
\* and "disconnected" comes of one that was not over.
Tells(e, p, q) ==
  IF e.marker \in Markers
  THEN /\ e.marker = "connect" <=> q \in Active
       /\ e.marker = "lost" => q = "over"
       /\ e.marker = "disconnected" => p # "over"
  ELSE p = q

LEMMA FitsAppend ==
  ASSUME NEW l \in Seq(Entries), NEW p, NEW q, MarksFit(l, p), NEW e \in Entries, Tells(e, p, q)
  PROVE  Append(l, e) \in Seq(Entries) /\ MarksFit(Append(l, e), q)
<1> DEFINE t == Append(l, e)
           n == Len(l)
<1>0. /\ n \in Nat /\ DOMAIN l = 1..n /\ DOMAIN t = 1..(n + 1)
      /\ t \in Seq(Entries) /\ t[n + 1] = e /\ \A i \in 1..n : t[i] = l[i]
  OBVIOUS
<1> HIDE DEF t, n
<1>1. ASSUME NEW i \in DOMAIN t, LastMark(t, i)
      PROVE  /\ t[i].marker = "connect" <=> q \in Active
             /\ t[i].marker = "lost" => q = "over"
  <2>1. CASE i = n + 1
    BY <1>0, <1>1, <2>1 DEF LastMark, Tells
  <2>2. CASE i # n + 1
    <3>1. i \in DOMAIN l /\ t[i] = l[i] /\ ~(n + 1 <= i)
      BY <1>0, <2>2
    <3>2. e.marker \notin Markers
      BY <1>0, <1>1, <3>1 DEF LastMark
    <3>3. LastMark(l, i)
      BY <1>0, <1>1, <3>1 DEF LastMark
    <3> QED
      BY <3>1, <3>2, <3>3 DEF MarksFit, EndFits, Tells
  <2> QED
    BY <2>1, <2>2
<1>2. ASSUME NEW i \in DOMAIN t, NEW j \in DOMAIN t, NextMark(t, i, j),
             t[i].marker = "lost", t[j].marker = "disconnected"
      PROVE  FALSE
  <2>1. i \in DOMAIN l /\ t[i] = l[i]
    BY <1>0, <1>2 DEF NextMark
  <2>2. CASE j = n + 1
    <3>1. LastMark(l, i)
      <4>1. ASSUME NEW k \in DOMAIN l, l[k].marker \in Markers PROVE k <= i
        <5>1. k \in DOMAIN t /\ t[k] = l[k] /\ k < n + 1
          BY <1>0
        <5> QED
          BY <1>0, <1>2, <2>2, <4>1, <5>1 DEF NextMark
      <4> QED
        BY <1>2, <2>1, <4>1 DEF LastMark, NextMark
    <3>2. p = "over"
      BY <1>2, <2>1, <3>1 DEF MarksFit, EndFits
    <3> QED
      BY <1>0, <1>2, <2>2, <3>2 DEF Tells, Markers
  <2>3. CASE j # n + 1
    <3>1. j \in DOMAIN l /\ t[j] = l[j]
      BY <1>0, <2>3
    <3>2. NextMark(l, i, j)
      BY <1>0, <1>2, <2>1, <3>1 DEF NextMark
    <3> QED
      BY <1>2, <2>1, <3>1, <3>2 DEF MarksFit, PairsFit
  <2> QED
    BY <2>2, <2>3
<1> QED
  BY <1>0, <1>1, <1>2 DEF MarksFit, EndFits, PairsFit, t

LEMMA ClampIn ==
  ASSUME NEW x \in Int, NEW size \in Nat
  PROVE  /\ Clamp(x, size) \in Int /\ 0 <= Clamp(x, size)
         /\ size <= Viewport => Clamp(x, size) + size <= Viewport
BY JournalAssumption DEF Clamp

\* A line, a marker or nothing is pushed.
LEMMA PushFits ==
  ASSUME NEW l \in Seq(Entries), NEW p, MarksFit(l, p)
  PROVE  /\ \A q : (p \in Active <=> q \in Active) /\ (p = "over" => q = "over")
                     => Slice(l \o <<>>, MAX_LOGS) \in Seq(Entries) /\ MarksFit(Slice(l \o <<>>, MAX_LOGS), q)
         /\ \A q, e : e \in Entries /\ Tells(e, p, q)
                     => /\ Slice(l \o <<e>>, MAX_LOGS) \in Seq(Entries)
                        /\ MarksFit(Slice(l \o <<e>>, MAX_LOGS), q)
<1>1. ASSUME NEW t \in Seq(Entries), NEW q, MarksFit(t, q)
      PROVE  Slice(t, MAX_LOGS) \in Seq(Entries) /\ MarksFit(Slice(t, MAX_LOGS), q)
  <2>1. /\ Slice(t, MAX_LOGS) \in Seq(Entries)
        /\ \E k \in Nat : /\ Len(Slice(t, MAX_LOGS)) = Len(t) - k
                          /\ \A i \in DOMAIN Slice(t, MAX_LOGS) : Slice(t, MAX_LOGS)[i] = t[i + k]
    BY SliceKeeps, JournalAssumption
  <2> QED
    BY <1>1, <2>1, FitsTail
<1>2. l \o <<>> = l
  OBVIOUS
<1>3. ASSUME NEW q, (p \in Active <=> q \in Active), p = "over" => q = "over"
      PROVE  MarksFit(l, q)
  BY <1>3 DEF MarksFit, EndFits
<1>4. ASSUME NEW q, NEW e, e \in Entries, Tells(e, p, q)
      PROVE  l \o <<e>> \in Seq(Entries) /\ MarksFit(l \o <<e>>, q)
  <2>1. Append(l, e) \in Seq(Entries) /\ MarksFit(Append(l, e), q)
    BY <1>4, FitsAppend
  <2>2. Append(l, e) = l \o <<e>>
    BY <1>4, AppendIsConcat
  <2> QED
    BY <2>1, <2>2
<1> QED
  BY <1>1, <1>2, <1>3, <1>4

\* One greeting at most.
Once(c) == \A i, j \in DOMAIN c : c[i] = "greeting" /\ c[j] = "greeting" => i = j
Ungreeted(c) == \A i \in DOMAIN c : c[i] # "greeting"

LEMMA SayOnce ==
  ASSUME NEW c \in Seq(Talk), NEW m \in Seq(Talk), Len(m) <= 1,
         Once(c), Ungreeted(c) \/ Ungreeted(m)
  PROVE  /\ Slice(c \o m, MAX_CHAT) \in Seq(Talk) /\ Once(Slice(c \o m, MAX_CHAT))
         /\ Ungreeted(c) /\ Ungreeted(m) => Ungreeted(Slice(c \o m, MAX_CHAT))
<1> DEFINE t == c \o m
           r == Slice(t, MAX_CHAT)
<1>1. /\ t \in Seq(Talk) /\ Len(t) = Len(c) + Len(m) /\ Len(c) \in Nat /\ Len(m) \in Nat
      /\ \A i \in 1..Len(t) : t[i] = IF i <= Len(c) THEN c[i] ELSE m[i - Len(c)]
  BY ConcatProperties
<1>2. r \in Seq(Talk) /\ \E k \in Nat : /\ Len(r) = Len(t) - k
                                        /\ \A i \in DOMAIN r : r[i] = t[i + k]
  BY <1>1, SliceKeeps, JournalAssumption
<1> HIDE DEF t, r
<1>3. PICK k \in Nat : Len(r) = Len(t) - k /\ \A i \in DOMAIN r : r[i] = t[i + k]
  BY <1>2
<1>4. Len(r) \in Nat /\ \A i \in DOMAIN r : i \in Nat /\ i + k \in 1..Len(t)
  BY <1>1, <1>2, <1>3
<1>5. Once(t)
  <2>1. ASSUME NEW i \in 1..Len(t), NEW j \in 1..Len(t), t[i] = "greeting", t[j] = "greeting"
        PROVE  i = j
    <3>1. CASE i <= Len(c) /\ j <= Len(c)
      BY <1>1, <2>1, <3>1 DEF Once
    <3>2. CASE ~(i <= Len(c)) /\ ~(j <= Len(c))
      BY <1>1, <3>2
    <3>3. CASE i <= Len(c) /\ ~(j <= Len(c))
      BY <1>1, <2>1, <3>3 DEF Ungreeted
    <3>4. CASE ~(i <= Len(c)) /\ j <= Len(c)
      BY <1>1, <2>1, <3>4 DEF Ungreeted
    <3> QED
      BY <3>1, <3>2, <3>3, <3>4
  <2> QED
    BY <1>1, <2>1 DEF Once
<1>6. Ungreeted(c) /\ Ungreeted(m) => Ungreeted(t)
  BY <1>1 DEF Ungreeted
<1>7. DOMAIN t = 1..Len(t)
  BY <1>1
<1>8. Once(r)
  <2>1. ASSUME NEW i \in DOMAIN r, NEW j \in DOMAIN r, r[i] = "greeting", r[j] = "greeting"
        PROVE  i = j
    <3>1. i + k = j + k
      BY <1>3, <1>4, <1>5, <1>7, <2>1 DEF Once
    <3> QED
      BY <1>4, <3>1
  <2> QED
    BY <2>1 DEF Once
<1>9. Ungreeted(t) => Ungreeted(r)
  BY <1>3, <1>4, <1>7 DEF Ungreeted
<1> QED
  BY <1>2, <1>6, <1>8, <1>9 DEF r, t

Prefs == [levels : SUBSET Levels, categories : SUBSET Categories]
Presses == [target : {"none", "bubble", "open"}, moved : BOOLEAN]

ChatTypeOK ==
  /\ status \in Stati /\ logs \in Seq(Entries) /\ chat \in Seq(Talk)
  /\ unreadChat \in Nat /\ unseen \in Nat
  /\ logPrefs \in Prefs /\ storedPrefs \in Prefs \cup {Unset}
  /\ mode \in {"closed", "bubble", "open"} /\ drawn \in BOOLEAN
  /\ greeted \in BOOLEAN /\ request \in BOOLEAN /\ chatOpenReq \in BOOLEAN
  /\ bubblePos \in Int /\ winPos \in Int /\ storedPos \in Int /\ press \in Presses

\* Without a page there is neither session nor chat.
IdleInv == status = "idle" => phase = "over" /\ chat = <<>> /\ drawn /\ mode = "closed" /\ press = NoDrag

JournalInv ==
  /\ MarksFit(logs, phase)
  /\ status # "idle" => (debug <=> "debug" \in logPrefs.levels)

TalkInv ==
  /\ unreadChat = unseen
  /\ drawn /\ unseen > 0 => mode = "bubble"
  /\ Once(chat) /\ (~greeted => Ungreeted(chat))

\* What is not dragged is on the screen.
InView(p, size) == 0 <= p /\ (size <= Viewport => p + size <= Viewport)
PosInv ==
  /\ press.moved => press.target # "none"
  /\ (press.moved /\ press.target = "bubble") \/ InView(bubblePos, 1)
  /\ (press.moved /\ press.target = "open") \/ InView(winPos, WindowSize)

ChatInv == ChatTypeOK /\ IdleInv /\ JournalInv /\ TalkInv /\ PosInv

LEMMA HeardFacts ==
  ASSUME status \in Stati
  PROVE  /\ Heard(<<>>).entries = <<>>
         /\ Heard(<<"connected">>) = [status |-> "connected", notified |-> FALSE, entries |-> <<>>]
         /\ \A x \in {"two-fa", "approval-pending"} :
              Heard(<<x>>) = [status |-> status, notified |-> FALSE, entries |-> <<>>]
         /\ Heard(<<"disconnected">>) =
              [status |-> "disconnected", notified |-> FALSE, entries |-> <<Marker("disconnected")>>]
         /\ \A x \in {"error", "authError"} :
              Heard(<<x, "disconnected">>) =
                [status |-> "disconnected", notified |-> FALSE, entries |-> <<Marker("lost")>>]
<1> DEFINE none == [status |-> status, notified |-> FALSE, entries |-> <<>>]
<1>1. HearEvent(none, "connected") = [status |-> "connected", notified |-> FALSE, entries |-> <<>>]
  BY DEF HearEvent
<1>2. \A x \in {"two-fa", "approval-pending"} : HearEvent(none, x) = none
  BY DEF HearEvent
<1>3. HearEvent(none, "disconnected") =
        [status |-> "disconnected", notified |-> FALSE, entries |-> <<Marker("disconnected")>>]
  <2>1. Append(<<>>, Marker("disconnected")) = <<Marker("disconnected")>>
    OBVIOUS
  <2> QED
    BY <2>1 DEF HearEvent
<1>4. ASSUME NEW x \in {"error", "authError"}
      PROVE  HearEvent(HearEvent(none, x), "disconnected") =
               [status |-> "disconnected", notified |-> FALSE, entries |-> <<Marker("lost")>>]
  <2> DEFINE lost == [status |-> "error", notified |-> TRUE, entries |-> <<Marker("lost")>>]
  <2>1. Append(<<>>, Marker("lost")) = <<Marker("lost")>>
    OBVIOUS
  <2>2. HearEvent(none, x) = lost
    BY <2>1 DEF HearEvent
  <2>3. HearEvent(lost, "disconnected") =
          [status |-> "disconnected", notified |-> FALSE, entries |-> <<Marker("lost")>>]
    BY DEF HearEvent
  <2> QED
    BY <2>2, <2>3
<1>5. Heard(<<>>) = none
  BY DEF Heard
<1>6. \A x : Heard(<<x>>) = HearEvent(none, x)
  BY DEF Heard
<1>7. \A x, y : Heard(<<x, y>>) = HearEvent(HearEvent(none, x), y)
  BY DEF Heard
<1> HIDE DEF none
<1>8. none.entries = <<>>
  BY DEF none
<1> QED
  BY <1>1, <1>2, <1>3, <1>4, <1>5, <1>6, <1>7, <1>8 DEF none

LEMMA MarkerTyped == \A x \in Markers : Marker(x) \in Entries /\ Marker(x).marker = x
BY DEF Marker, Markers, Entries, Levels, Categories

LEMMA SessionTellsKeeps == ASSUME ChatInv, SessionTells PROVE ChatInv'
<1> USE DEF ChatInv
<1> DEFINE q == phase'
           entries == Heard(told').entries
<1>0. /\ status \in Stati /\ logs \in Seq(Entries) /\ MarksFit(logs, phase)
      /\ logs' = Slice(logs \o entries, MAX_LOGS) /\ status' = Heard(told').status
  BY DEF SessionTells, PushLogs, ChatTypeOK, JournalInv
<1>1. phase # "over" /\ status # "idle"
  BY DEF SessionTells, IdleInv, Life!Accept, Life!Ask, Life!Wait, Life!Drop, Life!End
<1>2. /\ logs' \in Seq(Entries) /\ MarksFit(logs', q)
      /\ status' \in Stati \ {"idle"}
  <2>1. CASE Life!Accept
    <3>1. told' = <<"connected">> /\ phase \in Active /\ q \in Active /\ phase # "over"
      BY <2>1 DEF Life!Accept, Active
    <3>2. status' = "connected" /\ logs' = Slice(logs \o <<>>, MAX_LOGS)
      <4>1. Heard(told') = [status |-> "connected", notified |-> FALSE, entries |-> <<>>]
        BY <1>0, <3>1, HeardFacts
      <4> QED
        BY <1>0, <4>1
    <3> QED
      BY <1>0, <3>1, <3>2, PushFits DEF Stati
  <2>2. CASE Life!Ask
    <3>1. told' = <<"two-fa">> /\ phase \in Active /\ q \in Active /\ phase # "over"
      BY <2>2 DEF Life!Ask, Active
    <3>2. status' = status /\ logs' = Slice(logs \o <<>>, MAX_LOGS)
      <4>1. Heard(told') = [status |-> status, notified |-> FALSE, entries |-> <<>>]
        BY <1>0, <3>1, HeardFacts
      <4> QED
        BY <1>0, <4>1
    <3> QED
      BY <1>0, <1>1, <3>1, <3>2, PushFits
  <2>3. CASE Life!Wait
    <3>1. told' = <<"approval-pending">> /\ q = phase
      BY <2>3 DEF Life!Wait
    <3>2. status' = status /\ logs' = Slice(logs \o <<>>, MAX_LOGS)
      <4>1. Heard(told') = [status |-> status, notified |-> FALSE, entries |-> <<>>]
        BY <1>0, <3>1, HeardFacts
      <4> QED
        BY <1>0, <4>1
    <3> QED
      BY <1>0, <1>1, <3>1, <3>2, PushFits
  <2>4. CASE Life!Drop
    <3>1. told' = <<"disconnected">> /\ q \notin Active
      BY <2>4 DEF Life!Drop, Active
    <3>2. /\ status' = "disconnected"
          /\ logs' = Slice(logs \o <<Marker("disconnected")>>, MAX_LOGS)
      BY <1>0, <3>1, HeardFacts
    <3>3. Marker("disconnected") \in Entries /\ Tells(Marker("disconnected"), phase, q)
      BY <1>1, <3>1, MarkerTyped DEF Tells, Markers
    <3> QED
      BY <1>0, <3>2, <3>3, PushFits DEF Stati
  <2>5. CASE Life!End /\ told' # <<"disconnected">>
    <3>1. told' \in {<<"authError", "disconnected">>, <<"error", "disconnected">>} /\ q = "over"
      BY <2>5 DEF Life!End
    <3>2. /\ status' = "disconnected"
          /\ logs' = Slice(logs \o <<Marker("lost")>>, MAX_LOGS)
      BY <1>0, <3>1, HeardFacts
    <3>3. Marker("lost") \in Entries /\ Tells(Marker("lost"), phase, q)
      BY <1>1, <3>1, MarkerTyped DEF Tells, Markers, Active
    <3> QED
      BY <1>0, <3>2, <3>3, PushFits DEF Stati
  <2> QED
    BY <2>1, <2>2, <2>3, <2>4, <2>5 DEF SessionTells
<1>3. ChatTypeOK' /\ IdleInv'
  BY <1>2 DEF SessionTells, ChatTypeOK, IdleInv, prefVars, posVars, talk, widget
<1>4. JournalInv'
  BY <1>1, <1>2 DEF SessionTells, JournalInv, prefVars
<1>5. TalkInv' /\ PosInv'
  BY DEF SessionTells, TalkInv, PosInv, talk, widget, posVars
<1> QED
  BY <1>3, <1>4, <1>5

\* The widget is mounted anew, and what is dragged is let go.
LEMMA MountedIn ==
  ASSUME ChatTypeOK,
         bubblePos' = Clamp(storedPos, 1), winPos' = Clamp(0, WindowSize), press' = NoDrag
  PROVE  PosInv' /\ bubblePos' \in Int /\ winPos' \in Int /\ press' \in Presses
<1>1. InView(Clamp(storedPos, 1), 1) /\ Clamp(storedPos, 1) \in Int
  BY ClampIn DEF ChatTypeOK, InView
<1>2. InView(Clamp(0, WindowSize), WindowSize) /\ Clamp(0, WindowSize) \in Int
  BY ClampIn, JournalAssumption DEF InView
<1> QED
  BY <1>1, <1>2 DEF PosInv, NoDrag, Presses

LEMMA BeginKeeps == ASSUME ChatInv, ConnectPage PROVE ChatInv'
<1> USE DEF ChatInv
<1>0. /\ status \in Stati /\ logs \in Seq(Entries) /\ MarksFit(logs, phase)
      /\ phase' = "dialling" /\ status' = "connecting" /\ debug' = ("debug" \in logPrefs.levels)
      /\ drawn' = FALSE
      /\ UNCHANGED <<prefVars, storedPos, chatOpenReq>> /\ UNCHANGED talk
      /\ KeptMounted
  BY DEF ConnectPage, Begin, ChatTypeOK, JournalInv
<1> DEFINE marker == Marker("connect")
<1>1. marker \in Entries /\ \A p : Tells(marker, p, "dialling")
  BY MarkerTyped DEF Tells, Markers, Active
<1>2. logs' \in Seq(Entries) /\ MarksFit(logs', "dialling")
  <2>1. CASE phase = "over"
    <3>1. <<>> \o <<marker>> = <<marker>>
      BY <1>1
    <3>2. logs' = Slice(logs \o <<marker>>, MAX_LOGS)
      BY <1>0, <2>1, <3>1, HeardFacts DEF ConnectPage, Begin, PushLogs
    <3> QED
      BY <1>0, <1>1, <3>2, PushFits
  <2>2. CASE phase # "over"
    <3> DEFINE end == Marker("disconnected")
               dropped == Append(logs, end)
    <3>1. end \in Entries /\ Tells(end, phase, "dropped")
      BY <2>2, MarkerTyped DEF Tells, Markers, Active
    <3>2. dropped \in Seq(Entries) /\ MarksFit(dropped, "dropped")
      BY <1>0, <2>2, <3>1, FitsAppend
    <3>3. logs \o (<<end>> \o <<marker>>) = dropped \o <<marker>>
      <4>1. dropped = logs \o <<end>>
        BY <1>0, <3>1, AppendIsConcat
      <4>2. <<end>> \in Seq(Entries) /\ <<marker>> \in Seq(Entries)
        BY <1>1, <3>1
      <4> QED
        BY <1>0, <4>1, <4>2, ConcatAssociative
    <3>4. logs' = Slice(dropped \o <<marker>>, MAX_LOGS)
      <4>1. Heard(<<"disconnected">>).entries = <<end>>
        BY <1>0, HeardFacts
      <4>2. logs' = Slice(logs \o (Heard(<<"disconnected">>).entries \o <<marker>>), MAX_LOGS)
        BY <1>0, <2>2 DEF ConnectPage, Begin, PushLogs
      <4> QED
        BY <3>3, <4>1, <4>2
    <3> HIDE DEF dropped
    <3> QED
      BY <1>1, <3>2, <3>4, PushFits
  <2> QED
    BY <1>0, <2>1, <2>2
<1>3. /\ mode' \in {"closed", "bubble", "open"} /\ greeted' \in BOOLEAN /\ request' \in BOOLEAN
      /\ bubblePos' \in Int /\ winPos' \in Int /\ press' \in Presses /\ PosInv'
  <2>1. CASE status = "idle"
    <3>1. Mounted
      BY <1>0, <2>1 DEF KeptMounted
    <3> QED
      BY <3>1, MountedIn DEF Mounted, ChatTypeOK
  <2>2. CASE status # "idle"
    BY <1>0, <2>2 DEF KeptMounted, ChatTypeOK, PosInv
  <2> QED
    BY <2>1, <2>2
<1>4. ChatTypeOK' /\ IdleInv'
  BY <1>0, <1>2, <1>3 DEF ChatTypeOK, IdleInv, talk, prefVars, Stati
<1>5. JournalInv'
  BY <1>0, <1>2 DEF JournalInv, prefVars
<1>6. TalkInv'
  <2>1. CASE status = "idle"
    BY <1>0, <2>1 DEF TalkInv, IdleInv, talk, Ungreeted
  <2>2. CASE status # "idle"
    BY <1>0, <2>2 DEF TalkInv, talk, KeptMounted
  <2> QED
    BY <2>1, <2>2
<1> QED
  BY <1>3, <1>4, <1>5, <1>6

LEMMA NothingFits ==
  <<>> \in Seq(Entries) /\ <<>> \in Seq(Talk) /\ \A p : MarksFit(<<>>, p)
BY DEF MarksFit, EndFits, PairsFit

LEMMA PageEndsKeeps == ASSUME ChatInv, DisconnectPage \/ ReloadPage PROVE ChatInv'
<1> USE DEF ChatInv
<1>1. /\ phase' = "over" /\ status' = "idle" /\ logs' = <<>> /\ chat' = <<>>
      /\ unreadChat' = 0 /\ unseen' = 0 /\ drawn' = TRUE /\ mode' = "closed" /\ greeted' = FALSE
      /\ storedPos' = storedPos /\ storedPrefs' = storedPrefs
      /\ bubblePos' = Clamp(storedPos, 1) /\ winPos' = Clamp(0, WindowSize) /\ press' = NoDrag
  BY DEF DisconnectPage, ReloadPage, Mounted, prefVars
<1>2. logPrefs' \in Prefs /\ request' \in BOOLEAN /\ chatOpenReq' \in BOOLEAN
  <2>1. LoadLogPrefs \in Prefs
    <3>1. DefaultPrefs \in Prefs
      BY DEF DefaultPrefs, Prefs, Levels
    <3>2. ASSUME storedPrefs # Unset PROVE LoadLogPrefs \in Prefs
      <4>1. storedPrefs \in Prefs
        BY <3>2 DEF ChatTypeOK
      <4> QED
        BY <3>1, <3>2, <4>1 DEF LoadLogPrefs, Prefs, Categories
    <3> QED
      BY <3>1, <3>2 DEF LoadLogPrefs
  <2> QED
    BY <2>1 DEF DisconnectPage, ReloadPage, Mounted, prefVars, ChatTypeOK
<1>3. PosInv' /\ bubblePos' \in Int /\ winPos' \in Int /\ press' \in Presses
  BY <1>1, MountedIn
<1>4. ChatTypeOK' /\ IdleInv'
  BY <1>1, <1>2, <1>3, NothingFits DEF ChatTypeOK, IdleInv, Stati
<1>5. JournalInv'
  BY <1>1, NothingFits DEF JournalInv
<1>6. TalkInv'
  BY <1>1 DEF TalkInv, Once, Ungreeted
<1> QED
  BY <1>3, <1>4, <1>5, <1>6

LEMMA JournalOnlyKeeps ==
  ASSUME ChatInv,
         \/ ClearLogs \/ ToggleChip
         \/ \E l \in Levels, c \in Categories : Line(l, c)
  PROVE  ChatInv'
<1> USE DEF ChatInv
<1>1. /\ status # "idle" /\ status' = status /\ phase' = phase
      /\ UNCHANGED <<posVars, talk, widget, drawn>>
  BY DEF ClearLogs, ToggleChip, ToggleLogLevel, ToggleLogCategory, Line, hookVars
<1>2. logs' \in Seq(Entries) /\ MarksFit(logs', phase)
  <2>1. CASE ClearLogs
    BY <2>1, NothingFits DEF ClearLogs
  <2>2. CASE ToggleChip
    BY <2>2 DEF ToggleChip, ToggleLogLevel, ToggleLogCategory, hookVars, ChatTypeOK, JournalInv
  <2>3. ASSUME NEW l \in Levels, NEW c \in Categories, Line(l, c)
        PROVE  logs' \in Seq(Entries) /\ MarksFit(logs', phase)
    <3> DEFINE e == [level |-> l, category |-> c, marker |-> "none"]
    <3>1. e \in Entries /\ Tells(e, phase, phase)
      BY DEF Entries, Tells, Markers
    <3>2. logs' = Slice(logs \o <<e>>, MAX_LOGS)
      BY <2>3 DEF Line, PushLogs
    <3> HIDE DEF e
    <3> QED
      BY <3>1, <3>2, PushFits DEF ChatTypeOK, JournalInv
  <2> QED
    BY <2>1, <2>2, <2>3
<1>3. /\ logPrefs' \in Prefs /\ storedPrefs' \in Prefs \cup {Unset}
      /\ debug' <=> "debug" \in logPrefs'.levels
  <2>0. logPrefs \in Prefs /\ (debug <=> "debug" \in logPrefs.levels)
    BY <1>1 DEF ChatTypeOK, JournalInv
  <2>1. ASSUME NEW level \in Levels, ToggleLogLevel(level)
        PROVE  /\ logPrefs' \in Prefs /\ storedPrefs' \in Prefs \cup {Unset}
               /\ debug' <=> "debug" \in logPrefs'.levels
    <3> DEFINE levels == ToggleInList(logPrefs.levels, level)
    <3>1. levels \in SUBSET Levels
      BY <2>0 DEF ToggleInList, Prefs
    <3>2. level # "debug" => ("debug" \in levels <=> "debug" \in logPrefs.levels)
      BY DEF ToggleInList
    <3>3. logPrefs' = [logPrefs EXCEPT !.levels = levels] /\ storedPrefs' = logPrefs'
      BY <2>1 DEF ToggleLogLevel, SavePrefs
    <3> HIDE DEF levels
    <3>4. logPrefs' \in Prefs /\ logPrefs'.levels = levels
      BY <2>0, <3>1, <3>3 DEF Prefs
    <3>5. debug' <=> "debug" \in logPrefs'.levels
      <4>1. CASE level = "debug"
        <5>1. debug' = ("debug" \in logPrefs'.levels)
          BY <2>1, <4>1 DEF ToggleLogLevel
        <5> QED
          BY <5>1
      <4>2. CASE level # "debug"
        <5>1. debug' = debug
          BY <2>1, <4>2 DEF ToggleLogLevel
        <5> QED
          BY <2>0, <3>2, <3>4, <4>2, <5>1
      <4> QED
        BY <4>1, <4>2
    <3> QED
      BY <3>3, <3>4, <3>5
  <2>2. ASSUME NEW c \in Categories, ToggleLogCategory(c)
        PROVE  /\ logPrefs' \in Prefs /\ storedPrefs' \in Prefs \cup {Unset}
               /\ debug' <=> "debug" \in logPrefs'.levels
    <3> DEFINE categories == ToggleInList(logPrefs.categories, c)
    <3>1. categories \in SUBSET Categories
      BY <2>0 DEF ToggleInList, Prefs
    <3>2. /\ logPrefs' = [logPrefs EXCEPT !.categories = categories] /\ storedPrefs' = logPrefs'
          /\ debug' = debug
      BY <2>2 DEF ToggleLogCategory, SavePrefs, hookVars
    <3> HIDE DEF categories
    <3>3. logPrefs' \in Prefs /\ logPrefs'.levels = logPrefs.levels
      BY <2>0, <3>1, <3>2 DEF Prefs
    <3> QED
      BY <2>0, <3>2, <3>3
  <2>3. CASE ClearLogs \/ \E l \in Levels, c \in Categories : Line(l, c)
    <3>1. logPrefs' = logPrefs /\ storedPrefs' = storedPrefs /\ debug' = debug
      BY <2>3 DEF ClearLogs, Line, prefVars
    <3> QED
      BY <2>0, <3>1 DEF ChatTypeOK
  <2> QED
    BY <2>1, <2>2, <2>3 DEF ToggleChip
<1>4. ChatTypeOK' /\ IdleInv'
  BY <1>1, <1>2, <1>3 DEF ChatTypeOK, IdleInv, talk, widget, posVars
<1>5. JournalInv'
  BY <1>1, <1>2, <1>3 DEF JournalInv
<1>6. TalkInv' /\ PosInv'
  BY <1>1 DEF TalkInv, PosInv, talk, widget, posVars
<1> QED
  BY <1>4, <1>5, <1>6

\* The chat and its widget go on while the journal stays as it is.
LEMMA WidgetKeeps ==
  ASSUME ChatInv,
         \/ Effects \/ Receive \/ AskForChat \/ Send \/ Minimize \/ CloseWindow
         \/ \E target \in {"bubble", "open"} : BeginDrag(target)
         \/ \E p \in Landings : OnDragMove(p)
         \/ EndDrag \/ ClickWidget
  PROVE  ChatInv'
<1> USE DEF ChatInv
<1>0. /\ UNCHANGED <<phase, status, logs, debug, prefVars>>
      /\ JournalInv
  BY DEF Effects, Receive, AskForChat, Send, Minimize, CloseWindow, BeginDrag, OnDragMove,
         EndDrag, ClickWidget, hookVars
<1>1. JournalInv'
  BY <1>0 DEF JournalInv, prefVars
<1>2. status # "idle"
  BY DEF Effects, Receive, AskForChat, Send, Minimize, CloseWindow, BeginDrag, OnDragMove,
         EndDrag, ClickWidget, IdleInv, NoDrag
<1>3. IdleInv'
  BY <1>0, <1>2 DEF IdleInv
<1> DEFINE Rest ==
             /\ chat' \in Seq(Talk) /\ unreadChat' \in Nat /\ unseen' \in Nat
             /\ mode' \in {"closed", "bubble", "open"} /\ drawn' \in BOOLEAN
             /\ greeted' \in BOOLEAN /\ request' \in BOOLEAN /\ chatOpenReq' \in BOOLEAN
             /\ bubblePos' \in Int /\ winPos' \in Int /\ storedPos' \in Int /\ press' \in Presses
             /\ TalkInv' /\ PosInv'
<1> SUFFICES Rest
  <2>1. Rest => ChatTypeOK'
    BY <1>0 DEF ChatTypeOK, prefVars
  <2> QED
    BY <1>1, <1>3, <2>1
<1>a. /\ chat \in Seq(Talk) /\ unreadChat \in Nat /\ unseen \in Nat /\ unreadChat = unseen
      /\ mode \in {"closed", "bubble", "open"} /\ drawn \in BOOLEAN
      /\ greeted \in BOOLEAN /\ request \in BOOLEAN /\ chatOpenReq \in BOOLEAN
      /\ bubblePos \in Int /\ winPos \in Int /\ storedPos \in Int /\ press \in Presses
      /\ Once(chat) /\ (~greeted => Ungreeted(chat)) /\ TalkInv /\ PosInv
  BY DEF ChatTypeOK, TalkInv
\* What is said, of whom.
<1>b. ASSUME NEW m, m \in {<<>>, <<"self">>, <<"host">>, <<"notice">>}, Say(m)
      PROVE  /\ chat' \in Seq(Talk) /\ Once(chat')
             /\ Ungreeted(chat) => Ungreeted(chat')
  <2>1. m \in Seq(Talk) /\ Len(m) <= 1 /\ Ungreeted(m)
    <3>1. CASE m = <<>>
      BY <3>1, NothingFits DEF Ungreeted
    <3>2. ASSUME NEW x \in Talk \ {"greeting"}, m = <<x>>
          PROVE  m \in Seq(Talk) /\ Len(m) <= 1 /\ Ungreeted(m)
      BY <3>2 DEF Ungreeted
    <3> QED
      BY <1>b, <3>1, <3>2 DEF Talk
  <2> QED
    BY <1>a, <1>b, <2>1, SayOnce DEF Say
<1>c. ASSUME Say(Hello) PROVE chat' \in Seq(Talk) /\ Once(chat')
  <2>1. Hello \in Seq(Talk) /\ Len(Hello) <= 1 /\ (greeted => Ungreeted(Hello))
    BY DEF Hello, Talk, Ungreeted
  <2> HIDE DEF Hello
  <2> QED
    BY <1>a, <1>c, <2>1, SayOnce DEF Say
\* Where the window opens.
<1>d. InView(Clamp(bubblePos, WindowSize), WindowSize) /\ Clamp(bubblePos, WindowSize) \in Int
  BY <1>a, ClampIn, JournalAssumption DEF InView
<1>4. CASE Effects
  <2> DEFINE raised == mode = "closed" /\ unreadChat > 0
  <2>1. /\ mode' = (IF raised THEN "bubble" ELSE IF request THEN "open" ELSE mode)
        /\ winPos' = IF request THEN Clamp(bubblePos, WindowSize) ELSE winPos
        /\ IF request THEN Say(Hello) ELSE chat' = chat
        /\ greeted' = (greeted \/ request) /\ request' = FALSE
        /\ unreadChat' = IF mode = "open" THEN 0 ELSE unreadChat
        /\ unseen' = IF mode = "open" THEN 0 ELSE unseen
        /\ drawn' = (mode' = mode /\ chat' = chat /\ unreadChat' = unreadChat)
        /\ bubblePos' = bubblePos /\ storedPos' = storedPos /\ press' = press
        /\ chatOpenReq' = chatOpenReq
    BY <1>4 DEF Effects
  <2>2. greeted' <=> greeted \/ request
    BY <1>a, <2>1
  <2>3. drawn' <=> mode' = mode /\ chat' = chat /\ unreadChat' = unreadChat
    BY <2>1
  <2>4. greeted' \in BOOLEAN /\ drawn' \in BOOLEAN
    BY <2>1
  <2>5. chat' \in Seq(Talk) /\ Once(chat') /\ (~greeted' => Ungreeted(chat'))
    BY <1>a, <1>c, <2>1, <2>2
  <2>6. unreadChat' = unseen' /\ unseen' \in Nat /\ (drawn' /\ unseen' > 0 => mode' = "bubble")
    BY <1>a, <2>1, <2>3
  <2>7. TalkInv'
    BY <2>5, <2>6 DEF TalkInv
  <2>8. winPos' \in Int /\ PosInv'
    BY <1>a, <1>d, <2>1 DEF PosInv
  <2> QED
    BY <1>a, <2>1, <2>4, <2>5, <2>6, <2>7, <2>8
<1>5. CASE Receive
  <2>1. /\ Say(<<"host">>) /\ unreadChat' = unreadChat + 1 /\ unseen' = unseen + 1
        /\ drawn' = FALSE /\ UNCHANGED <<posVars, widget>>
    BY <1>5 DEF Receive
  <2>2. chat' \in Seq(Talk) /\ Once(chat') /\ (Ungreeted(chat) => Ungreeted(chat'))
    BY <1>b, <2>1
  <2>3. TalkInv' /\ PosInv'
    BY <1>a, <2>1, <2>2 DEF TalkInv, PosInv, posVars, widget
  <2>4. unreadChat' \in Nat /\ unseen' \in Nat
    BY <1>a, <2>1
  <2> QED
    BY <1>a, <2>1, <2>2, <2>3, <2>4 DEF posVars, widget
<1>6. CASE AskForChat \/ Minimize
  <2>1. /\ drawn' = FALSE /\ request' \in BOOLEAN /\ chatOpenReq' \in BOOLEAN
        /\ mode' \in {"closed", "bubble", "open"} /\ UNCHANGED <<posVars, talk, greeted>>
    BY <1>6, <1>a DEF AskForChat, Minimize
  <2>2. TalkInv' /\ PosInv'
    BY <1>a, <2>1 DEF TalkInv, PosInv, posVars, talk
  <2> QED
    BY <1>a, <2>1, <2>2 DEF posVars, talk
<1>7. CASE Send
  <2>1. Say(<<"self">>) /\ drawn' = FALSE /\ UNCHANGED <<posVars, unreadChat, unseen, widget>>
    BY <1>7 DEF Send
  <2>2. chat' \in Seq(Talk) /\ Once(chat') /\ (Ungreeted(chat) => Ungreeted(chat'))
    BY <1>b, <2>1
  <2>3. TalkInv' /\ PosInv'
    BY <1>a, <2>1, <2>2 DEF TalkInv, PosInv, posVars, widget
  <2> QED
    BY <1>a, <2>1, <2>2, <2>3 DEF posVars, widget
<1>8. CASE CloseWindow
  <2> DEFINE m == IF CloseNotice /\ chat # <<>> THEN <<"notice">> ELSE <<>>
  <2>1. /\ Say(m) /\ drawn' = FALSE /\ mode' = "closed" /\ unreadChat' = 0 /\ unseen' = 0
        /\ UNCHANGED <<posVars, greeted, chatOpenReq, request>>
    BY <1>8 DEF CloseWindow
  <2>2. m \in {<<>>, <<"notice">>}
    OBVIOUS
  <2> HIDE DEF m
  <2>3. chat' \in Seq(Talk) /\ Once(chat') /\ (Ungreeted(chat) => Ungreeted(chat'))
    BY <1>b, <2>1, <2>2
  <2>4. TalkInv' /\ PosInv'
    BY <1>a, <2>1, <2>3 DEF TalkInv, PosInv, posVars
  <2> QED
    BY <1>a, <2>1, <2>3, <2>4 DEF posVars
<1>9. ASSUME NEW target \in {"bubble", "open"}, BeginDrag(target)
      PROVE  Rest
  <2>1. /\ press = NoDrag /\ press' = [target |-> target, moved |-> FALSE]
        /\ UNCHANGED <<bubblePos, winPos, storedPos, talk, widget, drawn>>
    BY <1>9 DEF BeginDrag
  <2>2. press' \in Presses /\ ~press'.moved /\ ~press.moved
    BY <2>1 DEF Presses, NoDrag
  <2>3. TalkInv' /\ PosInv'
    BY <1>a, <2>1, <2>2 DEF TalkInv, PosInv, talk, widget
  <2> QED
    BY <1>a, <2>1, <2>2, <2>3 DEF talk, widget
<1>10. ASSUME NEW p \in Landings, OnDragMove(p)
       PROVE  Rest
  <2>0. p \in Int
    BY JournalAssumption
  <2>1. /\ press # NoDrag /\ press' = [press EXCEPT !.moved = TRUE]
        /\ IF press.target = "bubble" THEN bubblePos' = p /\ winPos' = winPos
           ELSE winPos' = p /\ bubblePos' = bubblePos
        /\ UNCHANGED <<storedPos, talk, widget, drawn>>
    BY <1>10 DEF OnDragMove
  <2>2. press' \in Presses /\ press'.moved /\ press'.target = press.target
    BY <1>a, <2>1 DEF Presses
  <2>3. press.target # "none"
    <3>1. press.moved \/ press.target # "none"
      BY <1>a, <2>1 DEF Presses, NoDrag
    <3> QED
      BY <1>a, <3>1 DEF PosInv
  <2>4. bubblePos' \in Int /\ winPos' \in Int
    BY <1>a, <2>0, <2>1
  <2>5. PosInv'
    BY <1>a, <2>1, <2>2, <2>3 DEF PosInv, Presses
  <2>6. TalkInv'
    BY <1>a, <2>1 DEF TalkInv, talk, widget
  <2> QED
    BY <1>a, <2>1, <2>2, <2>4, <2>5, <2>6 DEF talk, widget
<1>11. CASE EndDrag
  <2>1. /\ press.moved /\ press' = NoDrag
        /\ IF press.target = "bubble"
             THEN bubblePos' = Clamp(bubblePos, 1) /\ storedPos' = bubblePos' /\ winPos' = winPos
             ELSE winPos' = Clamp(winPos, WindowSize) /\ UNCHANGED <<bubblePos, storedPos>>
        /\ UNCHANGED <<talk, widget, drawn>>
    BY <1>11 DEF EndDrag
  <2>2. InView(Clamp(bubblePos, 1), 1) /\ Clamp(bubblePos, 1) \in Int
    BY <1>a, ClampIn DEF InView
  <2>3. InView(Clamp(winPos, WindowSize), WindowSize) /\ Clamp(winPos, WindowSize) \in Int
    BY <1>a, ClampIn, JournalAssumption DEF InView
  <2>4. press' \in Presses /\ ~press'.moved
    BY <2>1 DEF Presses, NoDrag
  <2>5. PosInv' /\ bubblePos' \in Int /\ winPos' \in Int /\ storedPos' \in Int
    BY <1>a, <2>1, <2>2, <2>3, <2>4 DEF PosInv
  <2>6. TalkInv'
    BY <1>a, <2>1 DEF TalkInv, talk, widget
  <2> QED
    BY <1>a, <2>1, <2>4, <2>5, <2>6 DEF talk, widget
<1>12. CASE ClickWidget
  <2>1. /\ ~press.moved /\ press' = NoDrag
        /\ IF press.target = "bubble"
             THEN OpenWindow /\ Say(Hello) /\ greeted' = TRUE /\ drawn' = FALSE
             ELSE UNCHANGED <<mode, winPos, greeted, chat, drawn>>
        /\ UNCHANGED <<bubblePos, storedPos, unreadChat, unseen, chatOpenReq, request>>
    BY <1>12 DEF ClickWidget
  <2>2. press' \in Presses /\ ~press'.moved
    BY <2>1 DEF Presses, NoDrag
  <2>3. CASE press.target = "bubble"
    <3>1. /\ mode' = "open" /\ winPos' = Clamp(bubblePos, WindowSize) /\ Say(Hello)
          /\ greeted' = TRUE /\ drawn' = FALSE
      BY <2>1, <2>3 DEF OpenWindow
    <3>2. TalkInv' /\ PosInv'
      BY <1>a, <1>c, <1>d, <2>1, <2>2, <3>1 DEF TalkInv, PosInv
    <3> QED
      BY <1>a, <1>c, <1>d, <2>1, <2>2, <3>1, <3>2
  <2>4. CASE press.target # "bubble"
    <3>1. TalkInv' /\ PosInv'
      BY <1>a, <2>1, <2>2, <2>4 DEF TalkInv, PosInv
    <3> QED
      BY <1>a, <2>1, <2>2, <2>4, <3>1
  <2> QED
    BY <2>3, <2>4
<1> QED
  BY <1>4, <1>5, <1>6, <1>7, <1>8, <1>9, <1>10, <1>11, <1>12

\* However the session drops and comes back under them, what the page keeps of it is
\* true: the last marker of the journal, the badge and the greeting of the chat, and the
\* widget on the screen (useRustdeskControl.ts, logprefs.ts, ChatWidget.tsx, chatpos.ts).
THEOREM JournalAndChatHold == ChatSpec => []SessionHeld
<1>1. ChatInit => ChatInv
  <2> SUFFICES ASSUME ChatInit PROVE ChatInv
      OBVIOUS
  <2>0. DefaultPrefs \in Prefs /\ NoDrag \in Presses
    BY DEF DefaultPrefs, Prefs, Levels, NoDrag, Presses
  <2>1. ChatTypeOK /\ IdleInv
    <3>1. ChatTypeOK
      <4>1. /\ status \in Stati /\ unreadChat \in Nat /\ unseen \in Nat
            /\ mode \in {"closed", "bubble", "open"}
            /\ bubblePos \in Int /\ winPos \in Int /\ storedPos \in Int
        BY DEF ChatInit, Stati
      <4>4. drawn \in BOOLEAN /\ greeted \in BOOLEAN /\ request \in BOOLEAN /\ chatOpenReq \in BOOLEAN
        BY Zenon DEF ChatInit
      <4>2. logs \in Seq(Entries) /\ chat \in Seq(Talk)
        BY NothingFits DEF ChatInit
      <4>3. logPrefs \in Prefs /\ storedPrefs \in Prefs \cup {Unset} /\ press \in Presses
        BY <2>0 DEF ChatInit
      <4> QED
        BY <4>1, <4>2, <4>3, <4>4 DEF ChatTypeOK
    <3>2. phase = "over"
      BY DEF ChatInit, Life!LifeInit
    <3> QED
      BY <3>1, <3>2 DEF ChatInit, IdleInv
  <2>2. JournalInv /\ TalkInv
    BY NothingFits DEF ChatInit, JournalInv, TalkInv, Once, Ungreeted
  <2>3. PosInv
    BY JournalAssumption DEF ChatInit, PosInv, InView, NoDrag
  <2> QED
    BY <2>1, <2>2, <2>3 DEF ChatInv
<1>2. ChatInv /\ [ChatNext]_chatVars => ChatInv'
  <2> SUFFICES ASSUME ChatInv, [ChatNext]_chatVars PROVE ChatInv'
      OBVIOUS
  <2>1. CASE UNCHANGED chatVars
    BY <2>1 DEF ChatInv, ChatTypeOK, IdleInv, JournalInv, TalkInv, PosInv, chatVars, hookVars,
                prefVars, posVars, talk, widget
  <2>2. CASE JournalNext
    BY <2>2, SessionTellsKeeps, BeginKeeps, PageEndsKeeps, JournalOnlyKeeps DEF JournalNext
  <2> QED
    BY <2>1, <2>2, WidgetKeeps DEF ChatNext
<1>3. ChatInv => SessionHeld
  <2> SUFFICES ASSUME ChatInv PROVE SessionHeld
      OBVIOUS
  <2>1. Marks = {i \in DOMAIN logs : logs[i].marker \in Markers}
    BY DEF Marks, VisibleLogs, FilterLogEntries
  <2>2. ASSUME NEW i \in Marks, \A j \in Marks : j <= i PROVE LastMark(logs, i)
    BY <2>1, <2>2 DEF LastMark
  <2>3. ASSUME NEW i \in Marks, NEW j \in Marks, Follows(i, j) PROVE NextMark(logs, i, j)
    BY <2>1, <2>3 DEF NextMark, Follows
  <2>4. JournalTells
    BY <2>1, <2>2, <2>3 DEF JournalTells, ChatInv, JournalInv, MarksFit, EndFits, PairsFit, Active
  <2>5. ChatSeen
    BY DEF ChatSeen, ChatInv, TalkInv, Once
  <2>6. OnScreen
    BY JournalAssumption DEF OnScreen, ChatInv, PosInv, InView, NoDrag
  <2> QED
    BY <2>4, <2>5, <2>6 DEF SessionHeld
<1> QED
  BY <1>1, <1>2, <1>3, PTL DEF ChatSpec
=============================================================================
