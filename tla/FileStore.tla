------------------------------ MODULE FileStore ------------------------------
(***************************************************************************)
(* Uploaded files: the row of table files, the blob on disk named after    *)
(* the row's id, and what refers to them - an item of a project's storage  *)
(* (routes/storage.js), an attachment of one of its tasks                  *)
(* (routes/taskDetail.js), the project's background (routes/extras2.js) or *)
(* a user's avatar (routes/account.js) - with the deletion of a project    *)
(* (routes/projects.js).                                                   *)
(*                                                                         *)
(* One action per awaited statement or file operation.  Any of them may    *)
(* fail, and the server may die, between any two.  A file id is handed out *)
(* once and at most one row of storage_items or task_attachments is ever   *)
(* inserted for it, so that row is kept here under the file's id.  Callers *)
(* have the permission they need; links (items without a file) are left    *)
(* out.                                                                    *)
(***************************************************************************)
EXTENDS Naturals, FiniteSets

CONSTANTS
  Requests,   (* slots for HTTP handlers in flight                         *)
  Projects,   (* projects at the start                                     *)
  Users,      (* users, who have an avatar each                            *)
  MaxFile,    (* bound on rows ever inserted into files                    *)
  MaxBatch,   (* bound on files of one upload                              *)
  Deletable,  (* projects clients delete in this instance                  *)
  Pictures,   (* backgrounds and avatars clients set in this instance      *)
  MaxFaults,  (* bound on failing statements and file operations           *)
  MaxCrashes  (* bound on server restarts                                  *)

ASSUME FileAssumption ==
  /\ Projects \cap Users = {}
  /\ (Projects \X {"storage", "attachment"}) \cap (Projects \cup Users) = {}
  /\ "none" \notin Projects /\ "gone" \notin Projects
  /\ MaxFile \in Nat
  /\ MaxBatch \in Nat
  /\ Deletable \subseteq Projects
  /\ Pictures \subseteq Projects \cup Users
  /\ MaxFaults \in Nat
  /\ MaxCrashes \in Nat

VARIABLES
  project,  (* projects that exist                                         *)
  item,     (* per file: not yet listed, the place that lists it, or gone  *)
  slot,     (* background_file_id and avatar_file_id, 0 for NULL           *)
  row,      (* ids in table files                                          *)
  blob,     (* the file on disk: none, part of it written, whole           *)
  issued,   (* the last id table files handed out                          *)
  req,      (* the handlers in flight                                      *)
  faults, crashes

store == <<project, item, slot, row, blob>>
vars == <<project, item, slot, row, blob, issued, req, faults, crashes>>

FileIds == 1 .. MaxFile
NoFile == 0
FileRef == FileIds \cup {NoFile}
Kinds == {"storage", "attachment"}
Places == Projects \X Kinds
Slots == Projects \cup Users
(* An item before its row is inserted (and no place at all), and after it  *)
(* is deleted.                                                             *)
Nowhere == <<"none", "none">>
Gone == <<"gone", "none">>

Steps == {"idle", "file_insert", "blob_open", "blob_write", "item_insert",
          "previous", "slot_write", "item_delete", "clear_read",
          "clear_write", "cascade_storage", "cascade_attachments",
          "cascade_commit", "drop_row", "drop_blob"}

(* file: the file being uploaded or dropped; target: the place, picture or *)
(* project of the request; left: files of the batch still to store; todo:  *)
(* files to drop from table and disk.                                      *)
RequestState == [pc: Steps, file: FileRef, target: Places \cup Slots \cup {Nowhere},
                 left: 0 .. MaxBatch, todo: SUBSET FileIds]

Idle == [pc |-> "idle", file |-> NoFile, target |-> Nowhere, left |-> 0, todo |-> {}]

Goto(r, q) == req' = [req EXCEPT ![r] = q]
Finish(r) == Goto(r, Idle)
At(r, pc) == req[r].pc = pc
Exists(s) == s \in Users \/ s \in project

Init ==
  /\ project = Projects
  /\ item = [f \in FileIds |-> Nowhere]
  /\ slot = [s \in Slots |-> NoFile]
  /\ row = {}
  /\ blob = [f \in FileIds |-> "none"]
  /\ issued = 0
  /\ req = [r \in Requests |-> Idle]
  /\ faults = 0
  /\ crashes = 0

-----------------------------------------------------------------------------
(* Uploads of items (a batch) and of pictures (one file).                  *)

BeginUpload(r) ==
  /\ At(r, "idle")
  /\ \E p \in Places, n \in 1 .. MaxBatch :
       /\ p[1] \in project
       /\ issued + n <= MaxFile
       /\ Goto(r, [Idle EXCEPT !.pc = "file_insert", !.target = p, !.left = n])
  /\ UNCHANGED <<store, issued, faults, crashes>>

BeginPicture(r) ==
  /\ At(r, "idle")
  /\ issued < MaxFile
  /\ \E s \in Pictures :
       /\ Exists(s)
       /\ Goto(r, [Idle EXCEPT !.pc = "file_insert", !.target = s])
  /\ UNCHANGED <<store, issued, faults, crashes>>

(* Mutant: no blob is written for an item.                                 *)
InsertFileRowOnly(r) ==
  /\ At(r, "file_insert")
  /\ issued < MaxFile
  /\ issued' = issued + 1
  /\ row' = row \cup {issued + 1}
  /\ Goto(r, [req[r] EXCEPT !.file = issued + 1,
              !.pc = IF req[r].target \in Slots THEN "blob_open" ELSE "item_insert"])
  /\ UNCHANGED <<project, item, slot, blob, faults, crashes>>

InsertFileRow(r) ==
  /\ At(r, "file_insert")
  /\ issued < MaxFile
  /\ issued' = issued + 1
  /\ row' = row \cup {issued + 1}
  /\ Goto(r, [req[r] EXCEPT !.file = issued + 1, !.pc = "blob_open"])
  /\ UNCHANGED <<project, item, slot, blob, faults, crashes>>

(* writeFile creates the file, then fills it.                              *)
OpenBlob(r) ==
  /\ At(r, "blob_open")
  /\ blob' = [blob EXCEPT ![req[r].file] = "part"]
  /\ Goto(r, [req[r] EXCEPT !.pc = "blob_write"])
  /\ UNCHANGED <<project, item, slot, row, issued, faults, crashes>>

FinishBlob(r) ==
  /\ At(r, "blob_write")
  /\ blob' = [blob EXCEPT ![req[r].file] = "whole"]
  /\ Goto(r, [req[r] EXCEPT !.pc =
       IF req[r].target \in Slots THEN "previous" ELSE "item_insert"])
  /\ UNCHANGED <<project, item, slot, row, issued, faults, crashes>>

(* The request after a file of its batch is dealt with.                    *)
NextFile(q) ==
  IF q.left = 1 THEN Idle
  ELSE [q EXCEPT !.pc = "file_insert", !.file = NoFile, !.left = @ - 1]

(* Nothing checks that the project or task is still there.                 *)
InsertItem(r) ==
  /\ At(r, "item_insert")
  /\ item' = [item EXCEPT ![req[r].file] = req[r].target]
  /\ Goto(r, NextFile(req[r]))
  /\ UNCHANGED <<project, slot, row, blob, issued, faults, crashes>>

(* Mutant: nothing checks that there was a picture before.                 *)
ReadPreviousUnchecked(r) ==
  /\ At(r, "previous")
  /\ Goto(r, [req[r] EXCEPT !.pc = "slot_write", !.todo = {slot[req[r].target]}])
  /\ UNCHANGED <<store, issued, faults, crashes>>

ReadPrevious(r) ==
  /\ At(r, "previous")
  /\ Goto(r, [req[r] EXCEPT !.pc = "slot_write",
                            !.todo = {slot[req[r].target]} \ {NoFile}])
  /\ UNCHANGED <<store, issued, faults, crashes>>

(* The request once nothing refers to the files of its todo list.          *)
Dropping(q) ==
  IF q.todo = {} THEN Idle ELSE [q EXCEPT !.pc = "drop_row", !.file = NoFile]

(* The UPDATE matches no row when the project has gone.                    *)
WriteSlot(r) ==
  /\ At(r, "slot_write")
  /\ slot' = IF Exists(req[r].target)
             THEN [slot EXCEPT ![req[r].target] = req[r].file] ELSE slot
  /\ Goto(r, Dropping(req[r]))
  /\ UNCHANGED <<project, item, row, blob, issued, faults, crashes>>

-----------------------------------------------------------------------------
(* Deletion of an item and of a background.                                *)

BeginDeleteItem(r) ==
  /\ At(r, "idle")
  /\ \E f \in FileIds :
       /\ item[f] \in Places
       /\ item[f][1] \in project
       /\ Goto(r, [Idle EXCEPT !.pc = "item_delete", !.file = f, !.target = item[f]])
  /\ UNCHANGED <<store, issued, faults, crashes>>

DeleteItem(r) ==
  /\ At(r, "item_delete")
  /\ item' = [item EXCEPT ![req[r].file] = Gone]
  /\ Goto(r, Dropping([req[r] EXCEPT !.todo = {req[r].file}]))
  /\ UNCHANGED <<project, slot, row, blob, issued, faults, crashes>>

BeginClear(r) ==
  /\ At(r, "idle")
  /\ \E s \in Pictures \cap project :
       Goto(r, [Idle EXCEPT !.pc = "clear_read", !.target = s])
  /\ UNCHANGED <<store, issued, faults, crashes>>

ReadBackground(r) ==
  /\ At(r, "clear_read")
  /\ Goto(r, [req[r] EXCEPT !.pc = "clear_write",
                            !.todo = {slot[req[r].target]} \ {NoFile}])
  /\ UNCHANGED <<store, issued, faults, crashes>>

ClearBackground(r) ==
  /\ At(r, "clear_write")
  /\ slot' = [slot EXCEPT ![req[r].target] = NoFile]
  /\ Goto(r, Dropping(req[r]))
  /\ UNCHANGED <<project, item, row, blob, issued, faults, crashes>>

-----------------------------------------------------------------------------
(* Deletion of a project: its files are collected before the transaction   *)
(* that removes its rows and dropped after it.                             *)

BeginDeleteProject(r) ==
  /\ At(r, "idle")
  /\ \E p \in Deletable \cap project :
       Goto(r, [Idle EXCEPT !.pc = "cascade_storage", !.target = p])
  /\ UNCHANGED <<store, issued, faults, crashes>>

FilesAt(place) == {f \in FileIds : item[f] = place}

CollectStorage(r) ==
  /\ At(r, "cascade_storage")
  /\ Goto(r, [req[r] EXCEPT !.pc = "cascade_attachments",
                            !.todo = FilesAt(<<req[r].target, "storage">>)])
  /\ UNCHANGED <<store, issued, faults, crashes>>

(* Mutant: the attachments are not collected.                              *)
CollectNoAttachments(r) ==
  /\ At(r, "cascade_attachments")
  /\ Goto(r, [req[r] EXCEPT !.pc = "cascade_commit"])
  /\ UNCHANGED <<store, issued, faults, crashes>>

CollectAttachments(r) ==
  /\ At(r, "cascade_attachments")
  /\ Goto(r, [req[r] EXCEPT !.pc = "cascade_commit",
                !.todo = @ \cup FilesAt(<<req[r].target, "attachment">>)])
  /\ UNCHANGED <<store, issued, faults, crashes>>

(* Mutant: the attachments' rows stay.                                     *)
CommitStorageOnly(r) ==
  /\ At(r, "cascade_commit")
  /\ LET p == req[r].target
     IN  /\ item' = [f \in FileIds |->
              IF item[f] = <<p, "storage">> THEN Gone ELSE item[f]]
         /\ slot' = [slot EXCEPT ![p] = NoFile]
         /\ project' = project \ {p}
  /\ Goto(r, Dropping(req[r]))
  /\ UNCHANGED <<row, blob, issued, faults, crashes>>

(* The transaction: items, attachments and the project's row go at once.   *)
CommitCascade(r) ==
  /\ At(r, "cascade_commit")
  /\ LET p == req[r].target
     IN  /\ item' = [f \in FileIds |->
              IF item[f] \in {p} \X Kinds THEN Gone ELSE item[f]]
         /\ slot' = [slot EXCEPT ![p] = NoFile]
         /\ project' = project \ {p}
  /\ Goto(r, Dropping(req[r]))
  /\ UNCHANGED <<row, blob, issued, faults, crashes>>

-----------------------------------------------------------------------------
(* DELETE FROM files, then rm of the blob, file by file.                   *)

DropRow(r) ==
  /\ At(r, "drop_row")
  /\ \E f \in req[r].todo :
       /\ row' = row \ {f}
       /\ Goto(r, [req[r] EXCEPT !.pc = "drop_blob", !.file = f])
  /\ UNCHANGED <<project, item, slot, blob, issued, faults, crashes>>

DropBlob(r) ==
  /\ At(r, "drop_blob")
  /\ blob' = [blob EXCEPT ![req[r].file] = "none"]
  /\ Goto(r, Dropping([req[r] EXCEPT !.todo = @ \ {req[r].file}]))
  /\ UNCHANGED <<project, item, slot, row, issued, faults, crashes>>

-----------------------------------------------------------------------------
(* A statement or file operation fails and changes nothing.                *)

Fault == faults < MaxFaults /\ faults' = faults + 1

(* One bad file does not end an upload of items; it ends one of a picture. *)
FailUpload(r) ==
  /\ Fault
  /\ req[r].pc \in {"file_insert", "blob_open", "blob_write", "item_insert"}
  /\ Goto(r, IF req[r].target \in Slots THEN Idle ELSE NextFile(req[r]))
  /\ UNCHANGED <<store, issued, crashes>>

(* Reading the background that is replaced or removed is caught: no file   *)
(* is dropped.  Reading the avatar is not.                                 *)
FailRead(r) ==
  /\ Fault
  /\ \/ /\ At(r, "previous")
        /\ Goto(r, IF req[r].target \in Projects
                   THEN [req[r] EXCEPT !.pc = "slot_write"] ELSE Idle)
     \/ /\ At(r, "clear_read")
        /\ Goto(r, [req[r] EXCEPT !.pc = "clear_write"])
  /\ UNCHANGED <<store, issued, crashes>>

(* These end the handler; the transaction is rolled back.                  *)
FailWrite(r) ==
  /\ Fault
  /\ req[r].pc \in {"slot_write", "item_delete", "clear_write",
                    "cascade_storage", "cascade_attachments", "cascade_commit"}
  /\ Finish(r)
  /\ UNCHANGED <<store, issued, crashes>>

(* Only the deletion of an item ends when a file cannot be dropped; the    *)
(* others go on to the blob and to the next file.                          *)
FailDrop(r) ==
  /\ Fault
  /\ \/ /\ At(r, "drop_row")
        /\ \E f \in req[r].todo :
             Goto(r, IF req[r].target \in Places THEN Idle
                     ELSE [req[r] EXCEPT !.pc = "drop_blob", !.file = f])
     \/ /\ At(r, "drop_blob")
        /\ Goto(r, Dropping([req[r] EXCEPT !.todo = @ \ {req[r].file}]))
  /\ UNCHANGED <<store, issued, crashes>>

(* The process dies: files and rows stay as they are.                      *)
Crash ==
  /\ crashes < MaxCrashes
  /\ \E r \in Requests : ~At(r, "idle")
  /\ req' = [r \in Requests |-> Idle]
  /\ crashes' = crashes + 1
  /\ UNCHANGED <<store, issued, faults>>

Begin(r) ==
  \/ BeginUpload(r) \/ BeginPicture(r) \/ BeginDeleteItem(r)
  \/ BeginClear(r) \/ BeginDeleteProject(r)

UploadStep(r) ==
  \/ InsertFileRow(r) \/ OpenBlob(r) \/ FinishBlob(r) \/ InsertItem(r)
  \/ ReadPrevious(r) \/ WriteSlot(r)

DeleteStep(r) ==
  \/ DeleteItem(r) \/ ReadBackground(r) \/ ClearBackground(r)
  \/ CollectStorage(r) \/ CollectAttachments(r) \/ CommitCascade(r)
  \/ DropRow(r) \/ DropBlob(r)

Fail(r) == FailUpload(r) \/ FailRead(r) \/ FailWrite(r) \/ FailDrop(r)

Next ==
  \/ \E r \in Requests : Begin(r) \/ UploadStep(r) \/ DeleteStep(r) \/ Fail(r)
  \/ Crash

Spec == Init /\ [][Next]_vars
=============================================================================
