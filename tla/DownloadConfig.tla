--------------------------- MODULE DownloadConfig --------------------------
(***************************************************************************)
(* The editor of the public download page                                  *)
(* (frontend/src/pages/DownloadConfigPage.tsx, api/downloadPage.ts) and    *)
(* the handlers behind it (backend/cmd/server/main.go,                     *)
(* internal/settings/download.go): one document that the page keeps and    *)
(* stores as a whole, and that the server also changes by itself for every *)
(* image that is uploaded or deleted.                                      *)
(*                                                                         *)
(* The document is reduced to the library of images, one text, the         *)
(* platforms in their order with one button, and the instructions of one   *)
(* language; an instruction to its id, one text and the images of one step *)
(* and theme.  A text stands for all that the admin types into that part,  *)
(* its names, addresses, buttons and steps: other ones are edited in the   *)
(* same way.                                                               *)
(***************************************************************************)
EXTENDS Naturals, Sequences, FiniteSets, SequencesExt

CONSTANTS
  Images,        \* files the admin may upload, each at most once
  Ids,           \* bound: instructions ever created
  PhotoLimit,    \* images of a step and theme (3)
  LibraryLimit,  \* images in the library (20)
  InstructionLimit, \* instructions of a language (100)
  Hole,          \* an element of a list that was never set
  None,
  MaxTouches     \* bound: edits by the admin

\* What is typed: two texts that the server takes, and one that it does not, since
\* it is too long, is no address, or has too many buttons or steps.
Words == 0 .. 2
Improper == 2

\* The instructions of a document.
Instructions == [id : Ids, text : Words, images : Seq(Images)]

ASSUME DownloadAssumption ==
  /\ IsFiniteSet(Images) /\ Ids \subseteq Nat
  /\ {PhotoLimit, LibraryLimit, InstructionLimit} \subseteq Nat
  /\ 1..InstructionLimit \subseteq Ids
  /\ Hole \notin Instructions

VARIABLES
  stored,   \* [library, text, platforms, list]: the document in the settings table
  files,    \* the screenshots directory
  cfg,      \* [library, text, platforms, list]: the document in the page
  draft,    \* the instruction of the dialog, or None
  creating,   \* dialogOpen
  upload,   \* [Images -> [pc, doc, job]]: POSTs
  deletion, \* [Images -> [pc, doc]]: DELETEs
  put,      \* [pc, doc]: the save
  misplaced,  \* history: images were added to a list that had changed meanwhile
  saved,    \* history: the document that was saved last
  crossed,  \* history: two requests were under way at once
  broken,   \* history: a request failed
  touches

downloadVars == <<stored, files, cfg, draft, creating, upload, deletion, put,
                  misplaced, saved, crossed, broken, touches>>

Instruction(i) == [id |-> i, text |-> 0, images |-> <<>>]
Empty == [library |-> {}, text |-> 0, platforms |-> <<[key |-> 1, button |-> 0], [key |-> 2, button |-> 0]>>,
          list |-> <<>>]
NoJob == [at |-> 0, base |-> None, images |-> {}]
Idling == [pc |-> "idle", doc |-> Empty]

\* A document with some instructions, as earlier visits left it.
Prepared(n) == [Empty EXCEPT !.list = [k \in 1..n |-> Instruction(k)]]

DownloadInit ==
  /\ \E n \in 0..InstructionLimit : stored = Prepared(n)
  /\ files = {}
  /\ cfg = stored /\ draft = None /\ creating = FALSE
  /\ upload = [f \in Images |-> [pc |-> "idle", doc |-> Empty, job |-> NoJob]]
  /\ deletion = [f \in Images |-> Idling] /\ put = Idling
  /\ misplaced = FALSE /\ saved = stored /\ crossed = FALSE /\ broken = FALSE /\ touches = 0

requests == <<upload, deletion, put>>
Posting == {f \in Images : upload[f].pc \notin {"idle", "done", "lost"}}
Deleting == {f \in Images : deletion[f].pc # "idle"}
Quiet == Posting = {} /\ Deleting = {} /\ put.pc = "idle"

Touch == touches < MaxTouches /\ touches' = touches + 1
PageOnly == UNCHANGED <<stored, files, requests, misplaced, saved, crossed, broken>>

-----------------------------------------------------------------------------
(* Editing: position 0 is the draft of the dialog. *)

Editable == (IF creating THEN {0} ELSE {}) \cup (1..Len(cfg.list))
At(i) == IF i = 0 THEN draft ELSE cfg.list[i]

\* setInstruction puts an instruction at an index, whatever is there by now.
Put(list, i, x) ==
  [k \in 1..(IF i > Len(list) THEN i ELSE Len(list)) |->
     IF k = i THEN x ELSE IF k <= Len(list) THEN list[k] ELSE Hole]

\* onChange of the editor in position i.
Change(i, x) ==
  IF i = 0 THEN draft' = x /\ UNCHANGED cfg
           ELSE cfg' = [cfg EXCEPT !.list = Put(@, i, x)] /\ UNCHANGED draft

EditText(i) ==
  /\ Touch /\ i \in Editable /\ At(i) # Hole
  /\ \E t \in Words \ {At(i).text} : Change(i, [At(i) EXCEPT !.text = t])
  /\ UNCHANGED creating /\ PageOnly

PickFromLibrary(i, f) ==
  /\ Touch /\ i \in Editable /\ At(i) # Hole
  /\ f \in cfg.library /\ Len(At(i).images) < PhotoLimit
  /\ Change(i, [At(i) EXCEPT !.images = Append(@, f)])
  /\ UNCHANGED creating /\ PageOnly

RemovePhoto(i) ==
  /\ Touch /\ i \in Editable /\ At(i) # Hole
  /\ \E k \in 1..Len(At(i).images) : Change(i, [At(i) EXCEPT !.images = RemoveAt(@, k)])
  /\ UNCHANGED creating /\ PageOnly

\* A sequence whose element i has changed places with the next.
SwapAt(seq, i) == [seq EXCEPT ![i] = seq[i + 1], ![i + 1] = seq[i]]

MoveInstruction(i) ==
  /\ Touch /\ i \in 1..(Len(cfg.list) - 1)
  /\ cfg' = [cfg EXCEPT !.list = SwapAt(@, i)]
  /\ UNCHANGED <<draft, creating>> /\ PageOnly

RemoveInstruction(i) ==
  /\ Touch /\ i \in 1..Len(cfg.list)
  /\ cfg' = [cfg EXCEPT !.list = RemoveAt(@, i)]
  /\ UNCHANGED <<draft, creating>> /\ PageOnly

EditPage ==
  /\ Touch
  /\ \E t \in Words :
       \/ t # cfg.text /\ cfg' = [cfg EXCEPT !.text = t]
       \/ \E i \in DOMAIN cfg.platforms :
            t # cfg.platforms[i].button /\ cfg' = [cfg EXCEPT !.platforms[i].button = t]
  /\ UNCHANGED <<draft, creating>> /\ PageOnly

MovePlatform ==
  /\ Touch
  /\ \E i \in 1..(Len(cfg.platforms) - 1) :
       cfg' = [cfg EXCEPT !.platforms = SwapAt(@, i)]
  /\ UNCHANGED <<draft, creating>> /\ PageOnly

\* Ids come in order: which of them is taken makes no difference.
OpenCreateDialog(id) ==
  /\ Touch /\ ~creating
  /\ draft # None => draft.id < id
  /\ \A k \in 1..Len(cfg.list) : cfg.list[k] # Hole => cfg.list[k].id < id
  /\ draft' = Instruction(id) /\ creating' = TRUE
  /\ UNCHANGED cfg /\ PageOnly

\* Fault: the dialog stays open.
CommitDraftFault ==
  /\ Touch /\ creating
  /\ cfg' = [cfg EXCEPT !.list = Append(@, draft)]
  /\ UNCHANGED <<draft, creating>> /\ PageOnly

\* The draft stays what it was when the dialog closes.
CommitDraft ==
  /\ Touch /\ creating
  /\ cfg' = [cfg EXCEPT !.list = Append(@, draft)]
  /\ creating' = FALSE
  /\ UNCHANGED draft /\ PageOnly

CancelCreate ==
  /\ creating /\ creating' = FALSE
  /\ UNCHANGED <<cfg, draft, touches>> /\ PageOnly

-----------------------------------------------------------------------------
(* Requests of the page. *)

Crosses == crossed' = (crossed \/ ~Quiet)

\* uploadFiles: as many as there is room for in the step as it is drawn; the editor
\* goes on with that instruction when all are answered.
StartUpload(i, new) ==
  /\ Touch /\ i \in Editable /\ At(i) # Hole
  /\ new # {} /\ \A f \in new : upload[f].pc = "idle"
  /\ Cardinality(new) <= PhotoLimit - Len(At(i).images)
  /\ upload' = [f \in Images |->
       IF f \in new THEN [pc |-> "sent", doc |-> Empty,
                          job |-> [at |-> i, base |-> At(i), images |-> new]]
       ELSE upload[f]]
  /\ crossed' = (crossed \/ ~Quiet \/ Cardinality(new) > 1)
  /\ UNCHANGED <<stored, files, cfg, draft, creating, deletion, put, misplaced, saved, broken>>

\* The entry goes at once, and does not come back if the request fails.
OnDelete(f) ==
  /\ Touch /\ f \in cfg.library /\ deletion[f].pc = "idle"
  /\ cfg' = [cfg EXCEPT !.library = @ \ {f}]
  /\ deletion' = [deletion EXCEPT ![f].pc = "sent"]
  /\ Crosses
  /\ UNCHANGED <<stored, files, draft, creating, upload, put, misplaced, saved, broken>>

OnSave ==
  /\ Touch /\ put.pc = "idle"
  /\ put' = [pc |-> "sent", doc |-> cfg]
  /\ Crosses
  /\ UNCHANGED <<stored, files, cfg, draft, creating, upload, deletion, misplaced, saved, broken>>

-----------------------------------------------------------------------------
(* The handlers: every upload and deletion reads the document and writes it back. *)

HandlersOnly == UNCHANGED <<cfg, draft, creating, misplaced, crossed, touches>>
NotSaved == UNCHANGED saved /\ HandlersOnly

\* What the admin may type, and the page does not prevent.
Overdone(doc) ==
  \/ doc.text = Improper \/ \E i \in DOMAIN doc.platforms : doc.platforms[i].button = Improper
  \/ Len(doc.list) > InstructionLimit
  \/ \E k \in DOMAIN doc.list : doc.list[k] # Hole /\ doc.list[k].text = Improper

\* ValidateDownloadPageConfig.
ValidDoc(doc) ==
  /\ ~Overdone(doc)
  /\ Cardinality(doc.library) <= LibraryLimit
  /\ \A k, l \in DOMAIN doc.list :
       /\ doc.list[k] # Hole /\ Len(doc.list[k].images) <= PhotoLimit
       /\ k # l => doc.list[l] # Hole /\ doc.list[k].id # doc.list[l].id

FileWritten(f) ==
  /\ upload[f].pc = "sent"
  /\ files' = files \cup {f}
  /\ upload' = [upload EXCEPT ![f].pc = "filed"]
  /\ UNCHANGED <<stored, deletion, put, broken>> /\ NotSaved

UploadReads(f) ==
  /\ upload[f].pc = "filed"
  /\ upload' = [upload EXCEPT ![f].pc = "read", ![f].doc = stored]
  /\ UNCHANGED <<stored, files, deletion, put, broken>> /\ NotSaved

\* A document that is full makes the answer an error; the file stays.
UploadSaves(f) ==
  /\ upload[f].pc = "read"
  /\ LET doc == [upload[f].doc EXCEPT !.library = @ \cup {f}] IN
       \/ /\ ValidDoc(doc)
          /\ stored' = doc
          /\ upload' = [upload EXCEPT ![f].pc = "ok"]
          /\ UNCHANGED broken
       \/ /\ ~ValidDoc(doc)
          /\ upload' = [upload EXCEPT ![f].pc = "failed"]
          /\ broken' = TRUE
          /\ UNCHANGED stored
  /\ UNCHANGED <<files, deletion, put>> /\ NotSaved

FileRemoved(f) ==
  /\ deletion[f].pc = "sent"
  /\ f \in files /\ files' = files \ {f}
  /\ deletion' = [deletion EXCEPT ![f].pc = "removed"]
  /\ UNCHANGED <<stored, upload, put, broken>> /\ NotSaved

DeletionReads(f) ==
  /\ deletion[f].pc = "removed"
  /\ deletion' = [deletion EXCEPT ![f] = [pc |-> "read", doc |-> stored]]
  /\ UNCHANGED <<stored, files, upload, put, broken>> /\ NotSaved

\* The error of the save is dropped.
DeletionSaves(f) ==
  /\ deletion[f].pc = "read"
  /\ LET doc == [deletion[f].doc EXCEPT !.library = @ \ {f}] IN
       stored' = IF ValidDoc(doc) THEN doc ELSE stored
  /\ deletion' = [deletion EXCEPT ![f] = Idling]
  /\ UNCHANGED <<files, upload, put, broken>> /\ NotSaved

\* The file is gone already, or cannot be removed.
DeletionFails(f) ==
  /\ deletion[f].pc = "sent"
  /\ deletion' = [deletion EXCEPT ![f] = Idling]
  /\ broken' = TRUE
  /\ UNCHANGED <<stored, files, upload, put>> /\ NotSaved

PutHandled ==
  /\ put.pc = "sent"
  /\ \/ /\ ValidDoc(put.doc)
        /\ stored' = put.doc /\ saved' = put.doc
        /\ put' = [put EXCEPT !.pc = "saved"]
     \/ /\ ~ValidDoc(put.doc)
        /\ put' = [put EXCEPT !.pc = "refused"]
        /\ UNCHANGED <<stored, saved>>
  /\ UNCHANGED <<files, upload, deletion, broken>> /\ HandlersOnly

-----------------------------------------------------------------------------
(* Answers. *)

\* The refetches that follow leave the page alone: it is filled in once.
SaveAnswered ==
  /\ put.pc \in {"saved", "refused"} /\ put' = Idling
  /\ UNCHANGED <<stored, files, upload, deletion, broken>> /\ NotSaved

\* uploadScreenshotUrl adds the new entry to the page's library.
Entered(f) == [cfg EXCEPT !.library = @ \cup {f}]

\* The instruction that onAdd starts from is the one that was drawn.
Base(job) == job.base

Finishes(f) == \A g \in upload[f].job.images \ {f} : upload[g].pc = "done"

UploadAnswered(f) ==
  /\ upload[f].pc = "ok"
  /\ upload' = [upload EXCEPT ![f].pc = "done"]
  /\ LET job == upload[f].job
         base == Base(job)
         full == [base EXCEPT !.images = @ \o SetToSeq(job.images)]
     IN IF ~Finishes(f) THEN cfg' = Entered(f) /\ UNCHANGED <<draft, misplaced>>
        ELSE /\ cfg' = IF job.at = 0 THEN Entered(f)
                       ELSE [Entered(f) EXCEPT !.list = Put(@, job.at, full)]
             /\ draft' = IF job.at = 0 THEN full ELSE draft
             /\ misplaced' = (misplaced \/ (IF job.at = 0 THEN ~creating \/ draft.id # base.id
                                        ELSE job.at > Len(cfg.list) \/ cfg.list[job.at] = Hole
                                             \/ cfg.list[job.at].id # base.id))
  /\ UNCHANGED <<stored, files, creating, deletion, put, saved, crossed, broken, touches>>

\* One that failed drops the images of all: they stay in the library only.
UploadFailed(f) ==
  /\ upload[f].pc = "failed"
  /\ upload' = [upload EXCEPT ![f].pc = "lost"]
  /\ UNCHANGED <<stored, files, deletion, put, broken>> /\ NotSaved

DownloadNext ==
  \/ \E i \in 0..Cardinality(Ids) :
       \/ EditText(i) \/ RemovePhoto(i) \/ MoveInstruction(i) \/ RemoveInstruction(i)
       \/ \E f \in Images : PickFromLibrary(i, f)
       \/ \E new \in SUBSET Images : StartUpload(i, new)
  \/ \E id \in Ids : OpenCreateDialog(id)
  \/ EditPage \/ MovePlatform \/ CommitDraft \/ CancelCreate \/ OnSave \/ PutHandled \/ SaveAnswered
  \/ \E f \in Images :
       \/ OnDelete(f) \/ FileRemoved(f) \/ DeletionReads(f) \/ DeletionSaves(f) \/ DeletionFails(f)
       \/ FileWritten(f) \/ UploadReads(f) \/ UploadSaves(f) \/ UploadAnswered(f) \/ UploadFailed(f)

DownloadSpec == DownloadInit /\ [][DownloadNext]_downloadVars

-----------------------------------------------------------------------------
\* The page builds no document that the server refuses but for what was typed into it,
\* which it does not look at: uploads that end while the step is edited leave it within
\* its limit and no id comes twice, unless images came back to a list that had changed
\* under them, or the page knows of more images than the document has room for because
\* one of two uploads was overwritten.
SavesAccepted ==
  put.pc = "refused" =>
    \/ Overdone(put.doc) \/ misplaced
    \/ crossed /\ Cardinality(put.doc.library) > LibraryLimit

\* When nothing is under way the library of the stored document is the directory's
\* content: no save drops an image that was uploaded before it and none brings back one
\* that was deleted, provided that no two requests crossed and none failed.
LibraryMatchesFiles == Quiet /\ ~crossed /\ ~broken => stored.library = files

\* What was saved last is what visitors see until the next save: the uploads and
\* deletions that rewrite the document change its library only, unless they cross a save.
SavedStays == ~crossed => [stored EXCEPT !.library = {}] = [saved EXCEPT !.library = {}]

\* Documents, uploads and files stay together, but for requests that cross.
DocumentsHold == SavesAccepted /\ LibraryMatchesFiles /\ SavedStays

-----------------------------------------------------------------------------
\* "a save failure here is not fatal - the file itself is already usable" (main.go):
\* TLC refutes that an upload whose file was written is answered with its entry.
UploadNotFatal == \A f \in Images : upload[f].pc = "failed" => f \notin files

\* An upload keeps what was edited while it ran: TLC refutes it.
EditsSurvive == [][\A k \in DOMAIN cfg.list \cap DOMAIN cfg'.list :
  touches' = touches /\ cfg.list[k] # Hole => cfg'.list[k].text = cfg.list[k].text]_downloadVars

\* What was saved is what is stored: TLC refutes it, an upload writes back what it read.
SavedHolds == put.pc = "saved" => stored.list = put.doc.list

\* What the page lets be saved is stored: TLC refutes it, only the server looks.
AllAccepted == put.pc # "refused"

\* The images of the stored document exist: TLC refutes it.
PublicImagesExist == \A k \in DOMAIN stored.list : ToSet(stored.list[k].images) \subseteq files
=============================================================================
