-------------------------- MODULE FileStoreProofs --------------------------
(***************************************************************************)
(* Proofs about the store of uploaded files, for any number of requests,   *)
(* files, failing steps and restarts.                                      *)
(*                                                                         *)
(* That whatever is shown is stored is not inductive: a request that holds *)
(* a file it has just stored must still find row and blob there when it    *)
(* makes the file visible, and a request that drops files must not drop    *)
(* one that is visible or that another request is about to show.  InHand   *)
(* and Leaving say this of every request in flight.                        *)
(* That a request alone leaves nothing behind needs Tidy: while it runs,   *)
(* whatever is stored is visible or carried by it, and what it is about to *)
(* hide is already on the list of what it will drop.                       *)
(***************************************************************************)
EXTENDS FileStoreProps, TLAPS

ItemSteps == {"item_insert"}
UploadSteps == {"file_insert", "blob_open", "blob_write"}
PictureSteps == {"previous", "slot_write"}
ProjectSteps == {"clear_read", "clear_write", "cascade_storage",
                 "cascade_attachments", "cascade_commit"}
HoldSteps == {"blob_open", "blob_write", "item_insert", "previous", "slot_write"}
TodoSteps == {"slot_write", "clear_write", "cascade_attachments",
              "cascade_commit", "drop_row", "drop_blob"}

(* What the step of a request says of its own fields.                      *)
Fits(q) ==
  /\ q.pc \in ItemSteps \cup {"item_delete"} => q.target \in Places
  /\ q.pc \in UploadSteps => q.target \in Places \cup Slots
  /\ q.pc \in PictureSteps => q.target \in Slots
  /\ q.pc \in ProjectSteps => q.target \in Projects
  /\ q.pc \in UploadSteps \cup ItemSteps /\ q.target \in Places => q.left > 0
  /\ q.pc \in HoldSteps \cup {"item_delete", "drop_blob"} => q.file \in FileIds
  /\ q.pc \notin TodoSteps => q.todo = {}
  /\ q.pc = "drop_blob" => q.file \in q.todo
Fit == \A r \in Requests : Fits(req[r])

(* A request between storing a file and making it visible.                 *)
Holds(r) == req[r].pc \in HoldSteps

(* Only ids that were handed out are in use.                               *)
Issued ==
  /\ \A f \in FileIds : f > issued => item[f] = Nowhere
  /\ \A s \in Slots : slot[s] <= issued
  /\ \A r \in Requests : Holds(r) => req[r].file <= issued
  /\ \A r \in Requests : \A f \in req[r].todo : f <= issued

(* A picture is no item and belongs to one owner that exists.              *)
PicturesApart ==
  /\ \A s \in Slots : slot[s] # NoFile => item[slot[s]] = Nowhere
  /\ \A s, t \in Slots : slot[s] # NoFile /\ slot[s] = slot[t] => s = t
  /\ \A s \in Slots : ~Exists(s) => slot[s] = NoFile

(* A file in the hands of an upload is stored as far as the upload got, is *)
(* not visible yet, and no other request holds it or is to drop it.        *)
InHand ==
  \A r \in Requests : Holds(r) =>
    /\ item[req[r].file] = Nowhere
    /\ \A s \in Slots : slot[s] # req[r].file
    /\ req[r].file \in row
    /\ req[r].pc \notin {"blob_open", "blob_write"} => blob[req[r].file] = "whole"
    /\ \A q \in Requests : req[r].file \notin req[q].todo
    /\ \A q \in Requests \ {r} : Holds(q) => req[q].file # req[r].file

(* A file on a todo list is visible nowhere, or only where the request is  *)
(* about to remove it.                                                     *)
DoomedIn(q, f, items, pictures) ==
  /\ q.pc \in {"drop_row", "drop_blob"} =>
       items[f] \notin Places /\ \A s \in Slots : pictures[s] # f
  /\ q.pc \in {"slot_write", "clear_write"} =>
       items[f] = Nowhere /\ \A s \in Slots \ {q.target} : pictures[s] # f
  /\ q.pc \in {"cascade_attachments", "cascade_commit"} =>
       items[f] \in ({q.target} \X Kinds) \cup {Gone}
Doomed(q, f) == DoomedIn(q, f, item, slot)
Leaving ==
  \A r \in Requests :
    /\ \A f \in req[r].todo : Doomed(req[r], f)
    /\ At(r, "item_delete") => item[req[r].file] # Nowhere

Files == Issued /\ PicturesApart /\ InHand /\ Leaving /\ ShownIsStored

StoreInv == TypeOK /\ Fit /\ Files

-----------------------------------------------------------------------------
(* Constants.                                                              *)

(* Places are no pictures' owners and no item is listed nowhere.           *)
LEMMA PlaceFacts ==
  /\ Nowhere # Gone
  /\ Nowhere \notin Places
  /\ Gone \notin Places
  /\ Places \cap Slots = {}
  /\ \A p \in Projects : {p} \X Kinds \subseteq Places
  /\ Projects \subseteq Slots
  BY FileAssumption DEF Nowhere, Gone, Places, Slots, Kinds

(* A place belongs to its project.                                         *)
LEMMA PlaceProject ==
  ASSUME NEW i \in Places, NEW p \in Projects
  PROVE  i \in {p} \X Kinds <=> i[1] = p
  BY DEF Places

(* File 0 is no file.                                                      *)
LEMMA NoFileFacts ==
  NoFile \notin FileIds /\ FileIds \subseteq Nat /\ FileRef \subseteq Nat
  BY FileAssumption DEF NoFile, FileIds, FileRef

-----------------------------------------------------------------------------
(* Types.                                                                  *)

(* A request that is idle holds nothing and has nothing to drop.           *)
LEMMA IdleFits ==
  /\ Idle \in RequestState
  /\ Fits(Idle)
  /\ Idle.pc = "idle" /\ Idle.todo = {}
  BY FileAssumption DEF Idle, RequestState, Fits, Steps, FileRef, NoFile,
     ItemSteps, UploadSteps, PictureSteps, ProjectSteps, HoldSteps, TodoSteps

(* A request that moves to a fitting state leaves all requests fitting.    *)
LEMMA GotoFits ==
  ASSUME TypeOK, Fit, NEW r \in Requests, NEW q \in RequestState, Fits(q), Goto(r, q)
  PROVE  /\ req' \in [Requests -> RequestState]
         /\ Fit'
         /\ req'[r] = q
         /\ \A s \in Requests \ {r} : req'[s] = req[s]
  <1>1. req' \in [Requests -> RequestState] /\ req'[r] = q
         /\ \A s \in Requests \ {r} : req'[s] = req[s]
    BY DEF TypeOK, Goto
  <1>2. \A s \in Requests : Fits(req'[s])
    BY <1>1 DEF Fit
  <1> QED BY <1>1, <1>2 DEF Fit, Fits

(* After a file of a batch the request is idle or at its next file.        *)
LEMMA NextFileFits ==
  ASSUME NEW q \in RequestState, Fits(q), q.pc \in UploadSteps \cup ItemSteps,
         q.target \in Places
  PROVE  /\ NextFile(q) \in RequestState
         /\ Fits(NextFile(q))
         /\ NextFile(q).pc \in {"idle", "file_insert"}
         /\ NextFile(q).todo = {}
  <1>1. q.left > 0 /\ q.todo = {} /\ q.left \in 0 .. MaxBatch
    BY DEF Fits, RequestState, UploadSteps, ItemSteps, TodoSteps
  <1>2. CASE q.left = 1
    BY <1>2, IdleFits DEF NextFile, Idle
  <1>3. CASE q.left # 1
    <2> DEFINE n == [q EXCEPT !.pc = "file_insert", !.file = NoFile, !.left = @ - 1]
    <2>1. n \in RequestState
      <3>1. q.left - 1 \in 0 .. MaxBatch
        BY <1>1, <1>3, FileAssumption
      <3>2. NoFile \in FileRef /\ "file_insert" \in Steps
        BY DEF FileRef, Steps
      <3> QED BY <3>1, <3>2 DEF RequestState
    <2>2. n.pc = "file_insert" /\ n.todo = {} /\ n.target = q.target /\ n.left = q.left - 1
      BY <1>1 DEF RequestState
    <2>3. Fits(n)
      BY <1>1, <1>3, <2>2, FileAssumption DEF Fits, ItemSteps, UploadSteps,
         PictureSteps, ProjectSteps, HoldSteps, TodoSteps
    <2> QED BY <1>3, <2>1, <2>2, <2>3 DEF NextFile
  <1> QED BY <1>2, <1>3

(* With nothing left to drop a request is done.                            *)
LEMMA DroppingFits ==
  ASSUME NEW q \in RequestState
  PROVE  /\ Dropping(q) \in RequestState
         /\ Fits(Dropping(q))
         /\ Dropping(q).todo = q.todo
         /\ Dropping(q).pc \in {"idle", "drop_row"}
  <1>1. CASE q.todo = {}
    BY <1>1, IdleFits DEF Dropping, Idle
  <1>2. CASE q.todo # {}
    <2> DEFINE n == [q EXCEPT !.pc = "drop_row", !.file = NoFile]
    <2>1. n \in RequestState /\ n.pc = "drop_row" /\ n.todo = q.todo
      BY DEF RequestState, Steps, FileRef
    <2>2. Fits(n)
      BY <2>1 DEF Fits, ItemSteps, UploadSteps, PictureSteps, ProjectSteps,
         HoldSteps, TodoSteps
    <2> QED BY <1>2, <2>1, <2>2 DEF Dropping
  <1> QED BY <1>1, <1>2

(* The server starts with idle requests and an empty store.                *)
LEMMA TypeInit == Init => TypeOK /\ Fit
  <1> SUFFICES ASSUME Init PROVE TypeOK /\ Fit
    OBVIOUS
  <1>1. req \in [Requests -> RequestState] /\ Fit
    BY IdleFits DEF Init, Fit
  <1>2. issued \in 0 .. MaxFile /\ faults \in Nat /\ crashes \in Nat
    BY FileAssumption DEF Init
  <1> QED BY <1>1, <1>2 DEF Init, TypeOK, FileRef

-----------------------------------------------------------------------------
(* Requests that only read, fail, begin or end.                            *)

(* A request moves and neither rows nor blobs change: it still holds only  *)
(* what it held, and what it puts on its todo list is doomed.              *)
LEMMA RequestMoves ==
  ASSUME StoreInv, NEW r \in Requests, NEW q \in RequestState, Fits(q), Goto(r, q),
         UNCHANGED <<store, issued>>, faults' \in Nat, crashes' \in Nat,
         q.pc \in HoldSteps => /\ Holds(r)
                               /\ q.file = req[r].file
                               /\ req[r].pc \in {"blob_open", "blob_write"} =>
                                    q.pc \in {"blob_open", "blob_write"},
         \A f \in q.todo : /\ Doomed(q, f)
                           /\ f <= issued
                           /\ \A s \in Requests : Holds(s) => req[s].file # f,
         q.pc = "item_delete" => item[q.file] # Nowhere
  PROVE  StoreInv'
  <1> USE DEF StoreInv
  <1>1. /\ req' \in [Requests -> RequestState] /\ Fit' /\ req'[r] = q
        /\ \A s \in Requests \ {r} : req'[s] = req[s]
    BY GotoFits
  <1>2. TypeOK'
    BY <1>1 DEF TypeOK, store
  <1>3. Issued'
    BY <1>1 DEF Files, Issued, Holds, store
  <1>4. PicturesApart'
    BY DEF Files, PicturesApart, Exists, store
  <1>5. InHand'
    <2>1. \A s \in Requests : Holds(s)' => Holds(s) /\ req'[s].file = req[s].file
      BY <1>1 DEF Holds
    <2>2. \A s, t \in Requests : Holds(s)' => req'[s].file \notin req'[t].todo
      BY <1>1, <2>1 DEF Files, InHand
    <2>3. \A s \in Requests : Holds(s)' /\ req'[s].pc \notin {"blob_open", "blob_write"} =>
            blob[req[s].file] = "whole"
      BY <1>1, <2>1 DEF Files, InHand, Holds
    <2> QED BY <1>1, <2>1, <2>2, <2>3 DEF Files, InHand, store
  <1>6. Leaving'
    <2>1. \A s \in Requests : \A f \in req'[s].todo : Doomed(req'[s], f)
      BY <1>1 DEF Files, Leaving
    <2>2. \A s \in Requests : req'[s].pc = "item_delete" => item[req'[s].file] # Nowhere
      BY <1>1 DEF Files, Leaving, At
    <2> QED BY <2>1, <2>2 DEF Leaving, Doomed, DoomedIn, At, store
  <1>7. ShownIsStored'
    BY DEF Files, ShownIsStored, Seen, Listed, Pictured, Stored, store
  <1> QED BY <1>1, <1>2, <1>3, <1>4, <1>5, <1>6, <1>7 DEF Files

(* A request that holds nothing and has nothing to drop disturbs nobody.   *)
LEMMA RequestRests ==
  ASSUME StoreInv, NEW r \in Requests, NEW q \in RequestState, Fits(q), Goto(r, q),
         UNCHANGED <<store, issued>>, faults' \in Nat, crashes' \in Nat,
         q.pc \notin HoldSteps \cup {"item_delete"}, q.todo = {}
  PROVE  StoreInv'
  <1> HIDE DEF StoreInv
  <1> QED BY RequestMoves

(* A file on a todo list is held by nobody.                                *)
LEMMA TodoNotHeld ==
  ASSUME StoreInv, NEW r \in Requests, NEW f \in req[r].todo
  PROVE  f \in FileIds /\ f <= issued /\ \A s \in Requests : Holds(s) => req[s].file # f
  BY DEF StoreInv, TypeOK, RequestState, Files, Issued, InHand

(* A picture, and a listed item, is held by nobody.                        *)
LEMMA SeenNotHeld ==
  ASSUME StoreInv, NEW f \in FileIds, item[f] # Nowhere \/ \E s \in Slots : slot[s] = f
  PROVE  f <= issued /\ \A s \in Requests : Holds(s) => req[s].file # f
  BY DEF StoreInv, TypeOK, Files, Issued, InHand, FileIds

(* A request that begins holds no file yet.                                *)
LEMMA BeginKeeps ==
  ASSUME StoreInv, NEW r \in Requests, Begin(r)
  PROVE  StoreInv'
  <1> USE DEF ItemSteps, UploadSteps, PictureSteps, ProjectSteps, HoldSteps, TodoSteps
  <1>0. TypeOK /\ faults' = faults /\ crashes' = crashes /\ faults' \in Nat /\ crashes' \in Nat
        /\ UNCHANGED <<store, issued>>
    BY DEF StoreInv, TypeOK, Begin, BeginUpload, BeginPicture, BeginDeleteItem,
       BeginClear, BeginDeleteProject
  <1>1. CASE BeginUpload(r)
    <2>1. PICK p \in Places, n \in 1 .. MaxBatch :
            Goto(r, [Idle EXCEPT !.pc = "file_insert", !.target = p, !.left = n])
      BY <1>1 DEF BeginUpload
    <2> DEFINE q == [Idle EXCEPT !.pc = "file_insert", !.target = p, !.left = n]
    <2>2. q \in RequestState /\ q.pc = "file_insert" /\ q.todo = {} /\ q.target = p
          /\ q.left = n /\ n > 0
      <3>1. n \in 0 .. MaxBatch /\ n > 0 /\ p \in Places \cup Slots \cup {Nowhere}
            /\ "file_insert" \in Steps
        BY FileAssumption DEF Steps
      <3> QED BY <3>1, IdleFits DEF RequestState
    <2>3. Fits(q)
      BY <2>2 DEF Fits
    <2> QED BY <1>0, <2>1, <2>2, <2>3, RequestRests
  <1>2. CASE BeginPicture(r)
    <2>1. PICK p \in Pictures : Goto(r, [Idle EXCEPT !.pc = "file_insert", !.target = p])
      BY <1>2 DEF BeginPicture
    <2> DEFINE q == [Idle EXCEPT !.pc = "file_insert", !.target = p]
    <2>2. p \in Slots /\ p \notin Places
      BY FileAssumption, PlaceFacts DEF Slots
    <2>3. q \in RequestState /\ q.pc = "file_insert" /\ q.todo = {} /\ q.target = p
      BY <2>2, IdleFits DEF RequestState, Steps
    <2>4. Fits(q)
      BY <2>2, <2>3 DEF Fits
    <2> QED BY <1>0, <2>1, <2>3, <2>4, RequestRests
  <1>3. CASE BeginDeleteItem(r)
    <2>1. PICK f \in FileIds :
            /\ item[f] \in Places
            /\ Goto(r, [Idle EXCEPT !.pc = "item_delete", !.file = f, !.target = item[f]])
      BY <1>3 DEF BeginDeleteItem
    <2> DEFINE q == [Idle EXCEPT !.pc = "item_delete", !.file = f, !.target = item[f]]
    <2>2. q \in RequestState /\ q.pc = "item_delete" /\ q.todo = {} /\ q.target = item[f]
          /\ q.file = f
      BY <2>1, IdleFits DEF RequestState, Steps, FileRef
    <2>3. Fits(q)
      BY <2>1, <2>2 DEF Fits
    <2>4. item[f] # Nowhere
      BY <2>1, PlaceFacts
    <2> QED BY <1>0, <2>1, <2>2, <2>3, <2>4, RequestMoves
  <1>4. CASE BeginClear(r)
    <2>1. PICK p \in Projects : Goto(r, [Idle EXCEPT !.pc = "clear_read", !.target = p])
      BY <1>0, <1>4 DEF BeginClear, TypeOK
    <2> DEFINE q == [Idle EXCEPT !.pc = "clear_read", !.target = p]
    <2>2. q \in RequestState /\ q.pc = "clear_read" /\ q.todo = {} /\ q.target = p
      BY IdleFits DEF RequestState, Steps, Slots
    <2>3. Fits(q)
      BY <2>2 DEF Fits
    <2> QED BY <1>0, <2>1, <2>2, <2>3, RequestRests
  <1>5. CASE BeginDeleteProject(r)
    <2>1. PICK p \in Projects : Goto(r, [Idle EXCEPT !.pc = "cascade_storage", !.target = p])
      BY <1>0, <1>5 DEF BeginDeleteProject, TypeOK
    <2> DEFINE q == [Idle EXCEPT !.pc = "cascade_storage", !.target = p]
    <2>2. q \in RequestState /\ q.pc = "cascade_storage" /\ q.todo = {} /\ q.target = p
      BY IdleFits DEF RequestState, Steps, Slots
    <2>3. Fits(q)
      BY <2>2 DEF Fits
    <2> QED BY <1>0, <2>1, <2>2, <2>3, RequestRests
  <1> QED BY <1>1, <1>2, <1>3, <1>4, <1>5 DEF Begin

(* Reads put on the todo list only what the request is about to remove.    *)
LEMMA ReadKeeps ==
  ASSUME StoreInv, NEW r \in Requests,
         \/ ReadPrevious(r) \/ ReadBackground(r)
         \/ CollectStorage(r) \/ CollectAttachments(r)
  PROVE  StoreInv'
  <1> USE DEF ItemSteps, UploadSteps, PictureSteps, ProjectSteps, HoldSteps, TodoSteps
  <1>0. /\ TypeOK /\ Fits(req[r]) /\ req[r] \in RequestState
        /\ faults' \in Nat /\ crashes' \in Nat /\ UNCHANGED <<store, issued>>
    BY DEF StoreInv, TypeOK, Fit, ReadPrevious, ReadBackground, CollectStorage, CollectAttachments
  <1>1. \A s \in Slots : slot[s] # NoFile =>
          /\ slot[s] \in FileIds
          /\ item[slot[s]] = Nowhere
          /\ \A t \in Slots \ {s} : slot[t] # slot[s]
    BY DEF StoreInv, TypeOK, FileRef, Files, PicturesApart
  <1>2. ASSUME NEW q \in RequestState, Fits(q), Goto(r, q), q.target \in Slots,
               q.todo = {slot[q.target]} \ {NoFile},
               \/ q.pc = "clear_write"
               \/ q.pc = "slot_write" /\ Holds(r) /\ q.file = req[r].file
                    /\ req[r].pc \notin {"blob_open", "blob_write"}
        PROVE  StoreInv'
    <2>1. \A f \in q.todo : f \in FileIds /\ Doomed(q, f) /\ \E s \in Slots : slot[s] = f
      BY <1>1, <1>2 DEF Doomed, DoomedIn
    <2>2. \A f \in q.todo : f <= issued /\ \A s \in Requests : Holds(s) => req[s].file # f
      BY <2>1, SeenNotHeld
    <2> QED BY <1>0, <1>2, <2>1, <2>2, RequestMoves
  <1>3. ASSUME NEW q \in RequestState, Fits(q), Goto(r, q), q.target \in Projects,
               q.pc \in {"cascade_attachments", "cascade_commit"},
               \A f \in q.todo : f \in FileIds /\ item[f] \in ({q.target} \X Kinds) \cup {Gone}
        PROVE  StoreInv'
    <2>1. \A f \in q.todo : Doomed(q, f) /\ item[f] # Nowhere
      BY <1>3, PlaceFacts DEF Doomed, DoomedIn
    <2>2. \A f \in q.todo : f <= issued /\ \A s \in Requests : Holds(s) => req[s].file # f
      BY <1>3, <2>1, SeenNotHeld
    <2> QED BY <1>0, <1>3, <2>1, <2>2, RequestMoves
  <1>4. CASE ReadPrevious(r)
    <2> DEFINE q == [req[r] EXCEPT !.pc = "slot_write",
                                   !.todo = {slot[req[r].target]} \ {NoFile}]
    <2>1. req[r].pc = "previous" /\ Goto(r, q) /\ req[r].target \in Slots
          /\ req[r].file \in FileIds
      BY <1>0, <1>4 DEF ReadPrevious, At, Fits
    <2>2. {slot[req[r].target]} \ {NoFile} \in SUBSET FileIds /\ "slot_write" \in Steps
      BY <1>1, <2>1 DEF Steps
    <2>3. q \in RequestState /\ q.pc = "slot_write" /\ q.target = req[r].target
          /\ q.todo = {slot[req[r].target]} \ {NoFile} /\ q.file = req[r].file
      BY <1>0, <2>2 DEF RequestState
    <2>4. Fits(q)
      BY <2>1, <2>3 DEF Fits
    <2>5. Holds(r)
      BY <2>1 DEF Holds
    <2> QED BY <1>2, <2>1, <2>3, <2>4, <2>5
  <1>5. CASE ReadBackground(r)
    <2> DEFINE q == [req[r] EXCEPT !.pc = "clear_write",
                                   !.todo = {slot[req[r].target]} \ {NoFile}]
    <2>1. req[r].pc = "clear_read" /\ Goto(r, q) /\ req[r].target \in Projects
          /\ req[r].target \in Slots
      BY <1>0, <1>5, PlaceFacts DEF ReadBackground, At, Fits
    <2>2. {slot[req[r].target]} \ {NoFile} \in SUBSET FileIds /\ "clear_write" \in Steps
      BY <1>1, <2>1 DEF Steps
    <2>3. q \in RequestState /\ q.pc = "clear_write" /\ q.target = req[r].target
          /\ q.todo = {slot[req[r].target]} \ {NoFile}
      BY <1>0, <2>2 DEF RequestState
    <2>4. Fits(q)
      BY <2>1, <2>3 DEF Fits
    <2> QED BY <1>2, <2>1, <2>3, <2>4
  <1>6. CASE CollectStorage(r)
    <2> DEFINE F == FilesAt(<<req[r].target, "storage">>)
               q == [req[r] EXCEPT !.pc = "cascade_attachments", !.todo = F]
    <2>1. req[r].pc = "cascade_storage" /\ Goto(r, q) /\ req[r].target \in Projects
      BY <1>0, <1>6 DEF CollectStorage, At, Fits
    <2>2. F \in SUBSET FileIds /\ "cascade_attachments" \in Steps
          /\ \A f \in F : item[f] \in {req[r].target} \X Kinds
      BY DEF FilesAt, Steps, Kinds
    <2> HIDE DEF F
    <2>3. q \in RequestState /\ q.pc = "cascade_attachments" /\ q.target = req[r].target
          /\ q.todo = F
      BY <1>0, <2>2 DEF RequestState
    <2>4. Fits(q)
      BY <2>1, <2>3 DEF Fits
    <2> QED BY <1>3, <2>1, <2>2, <2>3, <2>4
  <1>7. CASE CollectAttachments(r)
    <2> DEFINE F == FilesAt(<<req[r].target, "attachment">>)
               q == [req[r] EXCEPT !.pc = "cascade_commit", !.todo = @ \cup F]
    <2>1. req[r].pc = "cascade_attachments" /\ Goto(r, q) /\ req[r].target \in Projects
      BY <1>0, <1>7 DEF CollectAttachments, At, Fits
    <2>2. F \in SUBSET FileIds /\ "cascade_commit" \in Steps
          /\ \A f \in F : item[f] \in {req[r].target} \X Kinds
      BY DEF FilesAt, Steps, Kinds
    <2> HIDE DEF F
    <2>3. q \in RequestState /\ q.pc = "cascade_commit" /\ q.target = req[r].target
          /\ q.todo = req[r].todo \cup F
      BY <1>0, <2>2 DEF RequestState
    <2>4. Fits(q)
      BY <2>1, <2>3 DEF Fits
    <2>5. \A f \in req[r].todo : f \in FileIds
                                 /\ item[f] \in ({req[r].target} \X Kinds) \cup {Gone}
      BY <1>0, <2>1 DEF StoreInv, Files, Leaving, Doomed, DoomedIn, RequestState
    <2> QED BY <1>3, <2>1, <2>2, <2>3, <2>4, <2>5
  <1> QED BY <1>4, <1>5, <1>6, <1>7

(* A failing step leaves at most what was there already.                   *)
LEMMA FailKeeps ==
  ASSUME StoreInv, NEW r \in Requests, Fail(r)
  PROVE  StoreInv'
  <1> USE DEF ItemSteps, UploadSteps, PictureSteps, ProjectSteps, HoldSteps, TodoSteps
  <1>a. Fault /\ UNCHANGED crashes /\ UNCHANGED <<store, issued>>
    BY DEF Fail, FailUpload, FailRead, FailWrite, FailDrop
  <1>b. TypeOK /\ Fits(req[r]) /\ req[r] \in RequestState
    BY DEF StoreInv, TypeOK, Fit
  <1>0. /\ TypeOK /\ Fits(req[r]) /\ req[r] \in RequestState
        /\ faults' \in Nat /\ crashes' \in Nat /\ UNCHANGED <<store, issued>>
    BY <1>a, <1>b DEF Fault, TypeOK
  <1>1. ASSUME Goto(r, Idle) PROVE StoreInv'
    BY <1>0, <1>1, IdleFits, RequestRests
  <1>2. CASE FailUpload(r)
    <2>1. req[r].pc \in UploadSteps \cup ItemSteps
          /\ (req[r].target \notin Slots => Goto(r, NextFile(req[r])))
          /\ (req[r].target \in Slots => Goto(r, Idle))
      BY <1>2 DEF FailUpload
    <2>2. CASE req[r].target \in Slots
      BY <1>1, <2>1, <2>2
    <2>3. CASE req[r].target \notin Slots
      <3>1. req[r].target \in Places
        BY <1>0, <2>1, <2>3 DEF Fits
      <3>2. /\ NextFile(req[r]) \in RequestState /\ Fits(NextFile(req[r]))
            /\ NextFile(req[r]).pc \in {"idle", "file_insert"} /\ NextFile(req[r]).todo = {}
        BY <1>0, <2>1, <3>1, NextFileFits
      <3> QED BY <1>0, <2>1, <2>3, <3>2, RequestRests
    <2> QED BY <2>2, <2>3
  <1>3. CASE FailRead(r)
    <2>1. CASE At(r, "previous") /\ req[r].target \in Projects
      <3> DEFINE q == [req[r] EXCEPT !.pc = "slot_write"]
      <3>1. Goto(r, q) /\ req[r].pc = "previous"
        BY <1>3, <2>1 DEF FailRead, At
      <3>2. q \in RequestState /\ q.pc = "slot_write" /\ q.todo = {} /\ q.file = req[r].file
            /\ q.target = req[r].target /\ q.file \in FileIds /\ q.target \in Slots
        BY <1>0, <3>1 DEF RequestState, Steps, Fits
      <3>3. Fits(q)
        BY <3>2 DEF Fits
      <3> QED BY <1>0, <3>1, <3>2, <3>3, RequestMoves DEF Holds
    <2>2. CASE At(r, "previous") /\ req[r].target \notin Projects
      BY <1>1, <1>3, <2>2 DEF FailRead, At
    <2>3. CASE At(r, "clear_read")
      <3> DEFINE q == [req[r] EXCEPT !.pc = "clear_write"]
      <3>1. Goto(r, q) /\ req[r].pc = "clear_read"
        BY <1>3, <2>3 DEF FailRead, At
      <3>2. q \in RequestState /\ q.pc = "clear_write" /\ q.todo = {}
            /\ q.target = req[r].target /\ q.target \in Projects
        BY <1>0, <3>1 DEF RequestState, Steps, Fits
      <3>3. Fits(q)
        BY <3>2 DEF Fits
      <3> QED BY <1>0, <3>1, <3>2, <3>3, RequestRests
    <2> QED BY <1>3, <2>1, <2>2, <2>3 DEF FailRead
  <1>4. CASE FailWrite(r)
    BY <1>1, <1>4 DEF FailWrite, Finish
  <1>5. CASE FailDrop(r)
    <2>0. \A f \in req[r].todo : /\ f \in FileIds /\ f <= issued
                                 /\ item[f] \notin Places /\ \A s \in Slots : slot[s] # f
                                 /\ \A s \in Requests : Holds(s) => req[s].file # f
      BY <1>5, TodoNotHeld DEF StoreInv, Files, Leaving, Doomed, DoomedIn, FailDrop, At
    <2>1. CASE At(r, "drop_row") /\ req[r].target \in Places
      BY <1>1, <1>5, <2>1 DEF FailDrop, At
    <2>2. CASE At(r, "drop_row") /\ req[r].target \notin Places
      <3>1. PICK f \in req[r].todo : Goto(r, [req[r] EXCEPT !.pc = "drop_blob", !.file = f])
        BY <1>5, <2>2 DEF FailDrop, At
      <3> DEFINE q == [req[r] EXCEPT !.pc = "drop_blob", !.file = f]
      <3>2. q \in RequestState /\ q.pc = "drop_blob" /\ q.todo = req[r].todo /\ q.file = f
            /\ f \in FileIds
        BY <1>0, <2>0 DEF RequestState, Steps, FileRef
      <3>3. Fits(q)
        BY <3>2 DEF Fits
      <3>4. \A g \in q.todo : Doomed(q, g)
        BY <2>0, <3>2 DEF Doomed, DoomedIn
      <3> QED BY <1>0, <2>0, <3>1, <3>2, <3>3, <3>4, RequestMoves
    <2>3. CASE At(r, "drop_blob")
      <3> DEFINE q == [req[r] EXCEPT !.todo = @ \ {req[r].file}]
                 d == Dropping(q)
      <3>1. q \in RequestState /\ q.todo \subseteq req[r].todo
        BY <1>0 DEF RequestState
      <3>2. Goto(r, d)
        BY <1>5, <2>3 DEF FailDrop, At
      <3>3. d \in RequestState /\ Fits(d) /\ d.todo \subseteq req[r].todo
            /\ d.pc \in {"idle", "drop_row"}
        BY <3>1, DroppingFits
      <3> HIDE DEF d
      <3>4. \A g \in d.todo : Doomed(d, g)
        BY <2>0, <3>3 DEF Doomed, DoomedIn
      <3> QED BY <1>0, <2>0, <3>2, <3>3, <3>4, RequestMoves
    <2> QED BY <1>5, <2>1, <2>2, <2>3 DEF FailDrop
  <1> QED BY <1>2, <1>3, <1>4, <1>5 DEF Fail

-----------------------------------------------------------------------------
(* Requests that change rows, blobs, items or pictures.                    *)

(* The new row's id was never in use.                                      *)
LEMMA InsertFileRowKeeps ==
  ASSUME StoreInv, NEW r \in Requests, InsertFileRow(r)
  PROVE  StoreInv'
  <1> USE DEF StoreInv
  <1> DEFINE q == [req[r] EXCEPT !.file = issued + 1, !.pc = "blob_open"]
  <1>0. TypeOK /\ Fits(req[r]) /\ req[r] \in RequestState /\ req[r].pc = "file_insert"
        /\ Goto(r, q) /\ issued' = issued + 1 /\ row' = row \cup {issued + 1}
        /\ UNCHANGED <<project, item, slot, blob, faults, crashes>>
    BY DEF InsertFileRow, At, TypeOK, Fit
  <1>1. issued \in Nat /\ issued + 1 \in FileIds
    BY FileAssumption DEF InsertFileRow, TypeOK, FileIds
  <1>2. q \in RequestState /\ q.pc = "blob_open" /\ q.todo = {} /\ q.file = issued + 1
        /\ q.target = req[r].target /\ q.left = req[r].left
    BY <1>0, <1>1 DEF RequestState, Steps, FileRef, Fits, TodoSteps
  <1>3. Fits(q)
    BY <1>0, <1>1, <1>2 DEF Fits, ItemSteps, UploadSteps, PictureSteps, ProjectSteps,
       HoldSteps, TodoSteps
  <1> HIDE DEF q
  <1>4. /\ req' \in [Requests -> RequestState] /\ Fit' /\ req'[r] = q
        /\ \A s \in Requests \ {r} : req'[s] = req[s]
    BY <1>0, <1>2, <1>3, GotoFits
  <1>5. /\ item[issued + 1] = Nowhere
        /\ \A s \in Slots : slot[s] # issued + 1
        /\ \A s \in Requests : /\ issued + 1 \notin req[s].todo
                               /\ Holds(s) => req[s].file # issued + 1
    BY <1>1 DEF Files, Issued
  <1>6. TypeOK'
    BY <1>0, <1>1, <1>4 DEF TypeOK, FileIds
  <1>7. Issued'
    <2>1. \A f \in FileIds : f > issued + 1 => item[f] = Nowhere
      BY <1>1, NoFileFacts DEF Files, Issued
    <2>2. \A s \in Slots : slot[s] <= issued + 1
      <3>1. \A s \in Slots : slot[s] \in Nat
        BY <1>0, NoFileFacts DEF TypeOK
      <3> QED BY <1>1, <3>1 DEF Files, Issued
    <2>3. \A s \in Requests : Holds(s)' => req'[s].file <= issued + 1
      <3>1. \A s \in Requests : req[s].file \in Nat
        <4>1. \A s \in Requests : req[s].file \in FileRef
          BY <1>0 DEF TypeOK, RequestState
        <4> QED BY <4>1, NoFileFacts
      <3> QED BY <1>1, <1>2, <1>4, <3>1 DEF Files, Issued, Holds
    <2>4. \A s \in Requests : \A f \in req'[s].todo : f <= issued + 1
      <3>1. \A s \in Requests : \A f \in req[s].todo : f \in Nat
        BY <1>0, NoFileFacts DEF TypeOK, RequestState
      <3> QED BY <1>1, <1>2, <1>4, <3>1 DEF Files, Issued
    <2> QED BY <1>0, <2>1, <2>2, <2>3, <2>4 DEF Issued
  <1>8. PicturesApart'
    BY <1>0 DEF Files, PicturesApart, Exists
  <1>9. InHand'
    BY <1>0, <1>2, <1>4, <1>5 DEF Files, InHand, Holds
  <1>10. Leaving'
    BY <1>0, <1>2, <1>4 DEF Files, Leaving, Doomed, DoomedIn, At
  <1>11. ShownIsStored'
    BY <1>0 DEF Files, ShownIsStored, Seen, Listed, Pictured, Stored
  <1> QED BY <1>4, <1>6, <1>7, <1>8, <1>9, <1>10, <1>11 DEF Files

(* A blob being written belongs to a file nobody sees or else holds.       *)
LEMMA BlobKeeps ==
  ASSUME StoreInv, NEW r \in Requests, OpenBlob(r) \/ FinishBlob(r)
  PROVE  StoreInv'
  <1> USE DEF StoreInv
  <1> DEFINE f == req[r].file
             q == [req[r] EXCEPT !.pc = IF OpenBlob(r) THEN "blob_write" ELSE
                     IF req[r].target \in Slots THEN "previous" ELSE "item_insert"]
             b == IF OpenBlob(r) THEN "part" ELSE "whole"
  <1>0. TypeOK /\ Fits(req[r]) /\ req[r] \in RequestState
        /\ req[r].pc \in {"blob_open", "blob_write"} /\ f \in FileIds
        /\ Goto(r, q) /\ blob' = [blob EXCEPT ![f] = b]
        /\ UNCHANGED <<project, item, slot, row, issued, faults, crashes>>
    <2>1. TypeOK /\ Fits(req[r]) /\ req[r] \in RequestState
      BY DEF TypeOK, Fit
    <2>2. CASE OpenBlob(r)
      BY <2>1, <2>2 DEF OpenBlob, At, Fits, HoldSteps
    <2>3. CASE FinishBlob(r) /\ ~OpenBlob(r)
      BY <2>1, <2>3 DEF FinishBlob, At, Fits, HoldSteps
    <2> QED BY <2>2, <2>3
  <1>1. Holds(r) /\ req[r].pc \in UploadSteps /\ req[r].todo = {}
        /\ req[r].target \in Places \cup Slots
        /\ (req[r].target \in Places => req[r].left > 0)
    BY <1>0 DEF Holds, HoldSteps, Fits, UploadSteps, TodoSteps
  <1>2. q \in RequestState /\ q.pc \in {"blob_write", "previous", "item_insert"}
        /\ q.todo = {} /\ q.file = f /\ q.target = req[r].target /\ q.left = req[r].left
        /\ (q.pc = "previous" => q.target \in Slots)
        /\ (q.pc = "item_insert" => q.target \in Places)
        /\ (q.pc # "blob_write" => b = "whole") /\ b \in {"part", "whole"}
    BY <1>0, <1>1 DEF RequestState, Steps
  <1>3. Fits(q)
    BY <1>0, <1>1, <1>2 DEF Fits, ItemSteps, UploadSteps, PictureSteps, ProjectSteps,
       HoldSteps, TodoSteps
  <1> HIDE DEF q, b
  <1>4. /\ req' \in [Requests -> RequestState] /\ Fit' /\ req'[r] = q
        /\ \A s \in Requests \ {r} : req'[s] = req[s]
    BY <1>0, <1>2, <1>3, GotoFits
  <1>5. TypeOK'
    BY <1>0, <1>2, <1>4 DEF TypeOK
  <1>6. Holds(r)' /\ \A s \in Requests : Holds(s)' <=> Holds(s)
    BY <1>1, <1>2, <1>4 DEF Holds, HoldSteps
  <1>7. \A s \in Requests : req'[s].file = req[s].file /\ req'[s].todo = req[s].todo
    BY <1>1, <1>2, <1>4
  <1>8. Issued'
    BY <1>0, <1>6, <1>7 DEF Files, Issued
  <1>9. PicturesApart'
    BY <1>0 DEF Files, PicturesApart, Exists
  <1>10. InHand'
    <2>1. \A s \in Requests : Holds(s) /\ req'[s].pc \notin {"blob_open", "blob_write"} =>
            blob'[req[s].file] = "whole"
      <3>1. CASE q.pc = "blob_write"
        BY <1>0, <1>1, <1>4, <3>1 DEF Files, InHand, TypeOK, Holds
      <3>2. CASE q.pc # "blob_write"
        BY <1>0, <1>1, <1>2, <1>4, <3>2 DEF Files, InHand, TypeOK, Holds
      <3> QED BY <3>1, <3>2
    <2> QED BY <1>0, <1>6, <1>7, <2>1 DEF Files, InHand
  <1>11. Leaving'
    BY <1>0, <1>1, <1>2, <1>4 DEF Files, Leaving, Doomed, DoomedIn, At
  <1>12. ShownIsStored'
    <2>1. f \notin Seen
      BY <1>1, PlaceFacts DEF Files, InHand, Seen, Listed, Pictured
    <2> QED BY <1>0, <2>1 DEF Files, ShownIsStored, Seen, Listed, Pictured, Stored, TypeOK
  <1> QED BY <1>4, <1>5, <1>8, <1>9, <1>10, <1>11, <1>12 DEF Files

(* An item appears with its row and blob, and nobody is to drop them.      *)
LEMMA InsertItemKeeps ==
  ASSUME StoreInv, NEW r \in Requests, InsertItem(r)
  PROVE  StoreInv'
  <1> USE DEF StoreInv
  <1> DEFINE f == req[r].file
             t == req[r].target
             q == NextFile(req[r])
  <1>0. TypeOK /\ Fits(req[r]) /\ req[r] \in RequestState /\ req[r].pc = "item_insert"
        /\ Goto(r, q) /\ item' = [item EXCEPT ![f] = t]
        /\ UNCHANGED <<project, slot, row, blob, issued, faults, crashes>>
    BY DEF InsertItem, At, TypeOK, Fit
  <1>1. Holds(r) /\ t \in Places /\ f \in FileIds
    BY <1>0 DEF Holds, HoldSteps, Fits, ItemSteps
  <1>2. q \in RequestState /\ Fits(q) /\ q.pc \in {"idle", "file_insert"} /\ q.todo = {}
    BY <1>0, <1>1, NextFileFits DEF ItemSteps
  <1>3. f <= issued /\ item[f] = Nowhere /\ f \in row /\ blob[f] = "whole"
        /\ (\A s \in Slots : slot[s] # f)
        /\ (\A s \in Requests : f \notin req[s].todo)
        /\ (\A s \in Requests \ {r} : Holds(s) => req[s].file # f)
    BY <1>0, <1>1 DEF Files, InHand, Issued
  <1> HIDE DEF q, f, t
  <1>4. /\ req' \in [Requests -> RequestState] /\ Fit' /\ req'[r] = q
        /\ \A s \in Requests \ {r} : req'[s] = req[s]
    BY <1>0, <1>2, GotoFits
  <1>5. item'[f] = t /\ \A g \in FileIds \ {f} : item'[g] = item[g]
    BY <1>0, <1>1 DEF TypeOK
  <1>6. TypeOK'
    BY <1>0, <1>1, <1>4 DEF TypeOK
  <1>7. \A s \in Requests : Holds(s)' => /\ s # r /\ Holds(s)
                                         /\ req'[s] = req[s] /\ req[s].file \in FileIds
    BY <1>2, <1>4 DEF Holds, HoldSteps, Fit, Fits
  <1>8. Issued'
    <2>1. \A g \in FileIds : g > issued => item'[g] = Nowhere
      <3>1. f \in Nat /\ issued \in Nat
        BY <1>1, <1>0, NoFileFacts DEF TypeOK
      <3> QED BY <1>3, <1>5, <3>1, NoFileFacts DEF Files, Issued
    <2> QED BY <1>0, <1>2, <1>4, <1>7, <2>1 DEF Files, Issued
  <1>9. PicturesApart'
    <2>1. \A s \in Slots : slot[s] # NoFile => slot[s] \in FileIds \ {f}
      BY <1>0, <1>3 DEF TypeOK, FileRef
    <2> QED BY <1>0, <1>5, <2>1 DEF Files, PicturesApart, Exists
  <1>10. InHand'
    <2>1. \A s \in Requests : Holds(s)' => item'[req[s].file] = Nowhere
      BY <1>3, <1>5, <1>7 DEF Files, InHand
    <2> QED BY <1>0, <1>2, <1>4, <1>7, <2>1 DEF Files, InHand
  <1>11. Leaving'
    <2>1. \A s \in Requests : \A g \in req'[s].todo :
            /\ s # r /\ req'[s] = req[s] /\ Doomed(req[s], g) /\ item'[g] = item[g]
      <3>1. \A s \in Requests : req[s].todo \subseteq FileIds
        BY <1>0 DEF TypeOK, RequestState
      <3> QED BY <1>2, <1>3, <1>4, <1>5, <3>1 DEF Files, Leaving
    <2>2. \A s \in Requests : req'[s].pc = "item_delete" =>
            /\ s # r /\ req'[s] = req[s] /\ item'[req[s].file] # Nowhere
      <3>1. \A s \in Requests : req[s].pc = "item_delete" => req[s].file \in FileIds
        BY DEF Fit, Fits
      <3>2. \A s \in Requests : req[s].pc = "item_delete" => item[req[s].file] # Nowhere
        BY DEF Files, Leaving, At
      <3> QED BY <1>1, <1>2, <1>4, <1>5, <3>1, <3>2, PlaceFacts
    <2> QED BY <1>0, <2>1, <2>2 DEF Leaving, Doomed, DoomedIn, At
  <1>12. ShownIsStored'
    BY <1>0, <1>3, <1>5 DEF Files, ShownIsStored, Seen, Listed, Pictured, Stored
  <1> QED BY <1>4, <1>6, <1>8, <1>9, <1>10, <1>11, <1>12 DEF Files
(* A picture is replaced or removed: what it showed is on the todo list of *)
(* the request, and nobody else shows it.                                  *)
LEMMA SlotKeeps ==
  ASSUME StoreInv, NEW r \in Requests, WriteSlot(r) \/ ClearBackground(r)
  PROVE  StoreInv'
  <1> USE DEF StoreInv
  <1> DEFINE t == req[r].target
             n == IF WriteSlot(r) THEN req[r].file ELSE NoFile
             q == Dropping(req[r])
             D == req[r].todo
  <1>0. TypeOK /\ Fits(req[r]) /\ req[r] \in RequestState
        /\ req[r].pc \in {"slot_write", "clear_write"}
        /\ Goto(r, q)
        /\ UNCHANGED <<project, item, row, blob, issued, faults, crashes>>
    BY DEF WriteSlot, ClearBackground, At, TypeOK, Fit
  <1>1. t \in Slots /\ (WriteSlot(r) => Holds(r) /\ req[r].file \in FileIds)
    <2>1. WriteSlot(r) => req[r].pc = "slot_write"
      BY DEF WriteSlot, At
    <2> QED BY <1>0, <2>1, PlaceFacts DEF Fits, PictureSteps, ProjectSteps, HoldSteps, Holds
  <1>2. slot'[t] \in {n, NoFile} /\ \A s \in Slots \ {t} : slot'[s] = slot[s]
    <2>1. CASE WriteSlot(r)
      <3>1. CASE Exists(t)
        BY <1>0, <1>1, <2>1, <3>1 DEF WriteSlot, TypeOK
      <3>2. CASE ~Exists(t)
        BY <1>0, <1>1, <2>1, <3>2 DEF WriteSlot, Files, PicturesApart
      <3> QED BY <3>1, <3>2
    <2>2. CASE ClearBackground(r) /\ ~WriteSlot(r)
      BY <1>0, <1>1, <2>2 DEF ClearBackground, TypeOK
    <2> QED BY <2>1, <2>2
  <1>3. slot' \in [Slots -> FileRef]
    <2>1. WriteSlot(r) => slot' \in [Slots -> FileRef]
      BY <1>0, <1>1 DEF WriteSlot, TypeOK, FileRef
    <2>2. ClearBackground(r) => slot' \in [Slots -> FileRef]
      BY <1>0, <1>1 DEF ClearBackground, TypeOK, FileRef
    <2> QED BY <2>1, <2>2
  <1>4. n # NoFile =>
          /\ Holds(r) /\ n = req[r].file /\ n \in FileIds /\ (Exists(t) \/ slot'[t] = NoFile)
    <2>1. WriteSlot(r) /\ ~Exists(t) => slot'[t] = NoFile
      BY <1>0, <1>1 DEF WriteSlot, Files, PicturesApart
    <2> QED BY <1>1, <2>1
  <1>5. n # NoFile =>
          /\ n \in FileIds /\ n <= issued /\ item[n] = Nowhere /\ n \in row /\ blob[n] = "whole"
          /\ \A s \in Slots : slot[s] # n
          /\ \A s \in Requests : n \notin req[s].todo
          /\ \A s \in Requests \ {r} : Holds(s) => req[s].file # n
    <2>1. WriteSlot(r) => req[r].pc = "slot_write"
      BY DEF WriteSlot, At
    <2> QED BY <1>1, <2>1 DEF Files, InHand, Issued
  <1>6. q \in RequestState /\ Fits(q) /\ q.todo = D /\ q.pc \in {"idle", "drop_row"}
    BY <1>0, DroppingFits
  <1> HIDE DEF q, n, t
  <1>7. /\ req' \in [Requests -> RequestState] /\ Fit' /\ req'[r] = q
        /\ \A s \in Requests \ {r} : req'[s] = req[s]
    BY <1>0, <1>6, GotoFits
  <1>8. TypeOK'
    BY <1>0, <1>3, <1>7 DEF TypeOK
  <1>9. \A s \in Requests : Holds(s)' => s # r /\ Holds(s) /\ req'[s] = req[s]
    BY <1>6, <1>7 DEF Holds, HoldSteps
  <1>10. \A s \in Requests : req'[s].todo = req[s].todo
    BY <1>6, <1>7
  <1>11. Issued'
    <2>1. \A s \in Slots : slot'[s] <= issued
      <3>1. NoFile <= issued
        BY <1>0, FileAssumption DEF TypeOK, NoFile
      <3>2. slot'[t] <= issued
        BY <1>2, <1>5, <3>1
      <3> QED BY <1>2, <3>2 DEF Files, Issued
    <2> QED BY <1>0, <1>9, <1>10, <2>1 DEF Files, Issued
  <1>12. PicturesApart'
    <2>1. \A s \in Slots : slot'[s] # NoFile => item[slot'[s]] = Nowhere
      BY <1>2, <1>5 DEF Files, PicturesApart
    <2>2. \A s, u \in Slots : slot'[s] # NoFile /\ slot'[s] = slot'[u] => s = u
      BY <1>2, <1>5 DEF Files, PicturesApart
    <2>3. \A s \in Slots : ~Exists(s) => slot'[s] = NoFile
      BY <1>2, <1>4 DEF Files, PicturesApart
    <2> QED BY <1>0, <2>1, <2>2, <2>3 DEF PicturesApart, Exists
  <1>13. InHand'
    <2>1. \A s \in Requests : Holds(s)' => \A u \in Slots : slot'[u] # req[s].file
      <3>1. \A s \in Requests : Holds(s) => req[s].file # NoFile
        BY NoFileFacts DEF Fit, Fits, Holds
      <3> QED BY <1>2, <1>5, <1>9, <3>1 DEF Files, InHand
    <2> QED BY <1>0, <1>9, <1>10, <2>1 DEF Files, InHand
  <1>14. Leaving'
    <2>0. \A s \in Requests : req[s].todo \subseteq FileIds
      BY <1>0 DEF TypeOK, RequestState
    <2>1. \A s \in Requests : \A f \in req[s].todo : slot'[t] # f
      BY <1>2, <1>5, <2>0, NoFileFacts
    <2>2. \A f \in D : item[f] = Nowhere /\ \A s \in Slots : slot'[s] # f
      <3>1. \A f \in D : item[f] = Nowhere /\ \A s \in Slots \ {t} : slot[s] # f
        BY <1>0 DEF Files, Leaving, Doomed, DoomedIn, t
      <3> QED BY <1>2, <2>1, <3>1
    <2>3. \A f \in req'[r].todo : DoomedIn(req'[r], f, item', slot')
      BY <1>0, <1>6, <1>7, <2>2, PlaceFacts DEF Doomed, DoomedIn
    <2>4. \A s \in Requests \ {r} : \A f \in req'[s].todo : DoomedIn(req'[s], f, item', slot')
      <3>1. \A s \in Requests : \A f \in req[s].todo : Doomed(req[s], f)
        BY DEF Files, Leaving
      <3> QED BY <1>0, <1>2, <1>7, <2>1, <3>1 DEF Doomed, DoomedIn
    <2>5. \A s \in Requests : req'[s].pc = "item_delete" => item'[req'[s].file] # Nowhere
      BY <1>0, <1>6, <1>7 DEF Files, Leaving, At
    <2> QED BY <2>3, <2>4, <2>5 DEF Leaving, Doomed, At
  <1>15. ShownIsStored'
    BY <1>0, <1>2, <1>5, NoFileFacts DEF Files, ShownIsStored, Seen, Listed, Pictured, Stored
  <1> QED BY <1>7, <1>8, <1>11, <1>12, <1>13, <1>14, <1>15 DEF Files

(* A deleted item was no picture and in no upload's hands.                 *)
LEMMA DeleteItemKeeps ==
  ASSUME StoreInv, NEW r \in Requests, DeleteItem(r)
  PROVE  StoreInv'
  <1> USE DEF StoreInv
  <1> DEFINE f == req[r].file
             p == [req[r] EXCEPT !.todo = {req[r].file}]
             q == Dropping(p)
  <1>0. TypeOK /\ Fits(req[r]) /\ req[r] \in RequestState /\ req[r].pc = "item_delete"
        /\ Goto(r, q) /\ item' = [item EXCEPT ![f] = Gone]
        /\ UNCHANGED <<project, slot, row, blob, issued, faults, crashes>>
    BY DEF DeleteItem, At, TypeOK, Fit
  <1>1. f \in FileIds /\ item[f] # Nowhere
    BY <1>0 DEF Fits, Files, Leaving, At
  <1>2. q \in RequestState /\ Fits(q) /\ q.pc \in {"idle", "drop_row"} /\ q.todo = {f}
    <2>1. p \in RequestState /\ p.todo = {f}
      BY <1>0, <1>1 DEF RequestState
    <2> QED BY <2>1, DroppingFits
  <1>3. f <= issued /\ \A s \in Requests : Holds(s) => req[s].file # f
    BY <1>1, SeenNotHeld
  <1>4. \A s \in Slots : slot[s] # f
    BY <1>1, NoFileFacts DEF Files, PicturesApart
  <1> HIDE DEF q, f
  <1>5. /\ req' \in [Requests -> RequestState] /\ Fit' /\ req'[r] = q
        /\ \A s \in Requests \ {r} : req'[s] = req[s]
    BY <1>0, <1>2, GotoFits
  <1>6. item'[f] = Gone /\ \A g \in FileIds \ {f} : item'[g] = item[g]
    BY <1>0, <1>1 DEF TypeOK
  <1>7. TypeOK'
    BY <1>0, <1>1, <1>5 DEF TypeOK
  <1>8. \A s \in Requests : Holds(s)' => /\ s # r /\ Holds(s) /\ req'[s] = req[s]
                                         /\ req[s].file \in FileIds \ {f}
    BY <1>2, <1>3, <1>5 DEF Holds, HoldSteps, Fit, Fits
  <1>9. Issued'
    <2>1. \A g \in FileIds : g > issued => item'[g] = Nowhere
      <3>1. f \in Nat /\ issued \in Nat
        BY <1>1, <1>0, NoFileFacts DEF TypeOK
      <3> QED BY <1>3, <1>6, <3>1, NoFileFacts DEF Files, Issued
    <2> QED BY <1>0, <1>2, <1>3, <1>5, <1>8, <2>1 DEF Files, Issued
  <1>10. PicturesApart'
    <2>1. \A s \in Slots : slot[s] # NoFile => slot[s] \in FileIds \ {f}
      BY <1>0, <1>4 DEF TypeOK, FileRef
    <2> QED BY <1>0, <1>6, <2>1 DEF Files, PicturesApart, Exists
  <1>11. InHand'
    <2>1. \A s \in Requests : Holds(s)' => item'[req[s].file] = Nowhere
      BY <1>6, <1>8 DEF Files, InHand
    <2> QED BY <1>0, <1>2, <1>5, <1>8, <2>1 DEF Files, InHand
  <1>12. Leaving'
    <2>0. \A s \in Requests : req[s].todo \subseteq FileIds
      BY <1>0 DEF TypeOK, RequestState
    <2>1. \A g \in req'[r].todo : DoomedIn(req'[r], g, item', slot')
      BY <1>0, <1>2, <1>4, <1>5, <1>6, PlaceFacts DEF Doomed, DoomedIn
    <2>2. \A s \in Requests \ {r} : \A g \in req'[s].todo : DoomedIn(req'[s], g, item', slot')
      <3>1. \A s \in Requests : \A g \in req[s].todo : Doomed(req[s], g)
        BY DEF Files, Leaving
      <3>2. \A s \in Requests : \A g \in req[s].todo :
              item'[g] = item[g] \/ (g = f /\ item'[g] = Gone)
        BY <1>6, <2>0
      <3> QED BY <1>0, <1>1, <1>5, <3>1, <3>2, PlaceFacts DEF Doomed, DoomedIn
    <2>3. \A s \in Requests : req'[s].pc = "item_delete" => item'[req'[s].file] # Nowhere
      <3>1. \A s \in Requests : req[s].pc = "item_delete" =>
              req[s].file \in FileIds /\ item[req[s].file] # Nowhere
        BY DEF Fit, Fits, Files, Leaving, At
      <3> QED BY <1>2, <1>5, <1>6, <3>1, PlaceFacts
    <2> QED BY <2>1, <2>2, <2>3 DEF Leaving, Doomed, At
  <1>13. ShownIsStored'
    BY <1>0, <1>6, PlaceFacts DEF Files, ShownIsStored, Seen, Listed, Pictured, Stored
  <1> QED BY <1>5, <1>7, <1>9, <1>10, <1>11, <1>12, <1>13 DEF Files

(* With the project goes what it lists and shows; nothing else moves.      *)
LEMMA CommitKeeps ==
  ASSUME StoreInv, NEW r \in Requests, CommitCascade(r)
  PROVE  StoreInv'
  <1> USE DEF StoreInv
  <1> DEFINE p == req[r].target
             q == Dropping(req[r])
             P == {p} \X Kinds
  <1>0. TypeOK /\ Fits(req[r]) /\ req[r] \in RequestState /\ req[r].pc = "cascade_commit"
        /\ Goto(r, q) /\ project' = project \ {p} /\ slot' = [slot EXCEPT ![p] = NoFile]
        /\ item' = [f \in FileIds |-> IF item[f] \in P THEN Gone ELSE item[f]]
        /\ UNCHANGED <<row, blob, issued, faults, crashes>>
    BY DEF CommitCascade, At, TypeOK, Fit
  <1>1. p \in Projects /\ p \in Slots /\ p \notin Users /\ P \subseteq Places
    BY <1>0, PlaceFacts, FileAssumption DEF Fits, ProjectSteps
  <1>2. q \in RequestState /\ Fits(q) /\ q.todo = req[r].todo /\ q.pc \in {"idle", "drop_row"}
    BY <1>0, DroppingFits
  <1>3. \A f \in req[r].todo : item[f] \in P \cup {Gone}
    BY <1>0 DEF Files, Leaving, Doomed, DoomedIn
  <1> HIDE DEF q, p, P
  <1>4. /\ req' \in [Requests -> RequestState] /\ Fit' /\ req'[r] = q
        /\ \A s \in Requests \ {r} : req'[s] = req[s]
    BY <1>0, <1>2, GotoFits
  <1>5. \A f \in FileIds : /\ item[f] \in P => item'[f] = Gone
                           /\ item[f] \notin P => item'[f] = item[f]
                           /\ item[f] = Nowhere <=> item'[f] = Nowhere
    BY <1>0, <1>1, PlaceFacts
  <1>6. slot'[p] = NoFile /\ \A s \in Slots \ {p} : slot'[s] = slot[s]
    BY <1>0, <1>1 DEF TypeOK
  <1>7. TypeOK'
    <2>1. slot' \in [Slots -> FileRef]
      BY <1>0 DEF TypeOK, FileRef
    <2>2. item' \in [FileIds -> Places \cup {Nowhere, Gone}]
      BY <1>0 DEF TypeOK
    <2> QED BY <1>0, <1>4, <2>1, <2>2 DEF TypeOK
  <1>8. \A s \in Requests : Holds(s)' => /\ s # r /\ Holds(s) /\ req'[s] = req[s]
                                         /\ req[s].file \in FileIds
    BY <1>2, <1>4 DEF Holds, HoldSteps, Fit, Fits
  <1>9. \A s \in Requests : req'[s].todo = req[s].todo /\ req[s].todo \subseteq FileIds
    BY <1>0, <1>2, <1>4 DEF TypeOK, RequestState
  <1>10. Issued'
    <2>1. \A s \in Slots : slot'[s] <= issued
      <3>1. NoFile <= issued
        BY <1>0, FileAssumption DEF TypeOK, NoFile
      <3> QED BY <1>6, <3>1 DEF Files, Issued
    <2> QED BY <1>0, <1>5, <1>8, <1>9, <2>1 DEF Files, Issued
  <1>11. PicturesApart'
    <2>1. \A s \in Slots : slot'[s] # NoFile => item'[slot'[s]] = Nowhere
      BY <1>0, <1>5, <1>6 DEF Files, PicturesApart, TypeOK, FileRef
    <2>2. \A s, u \in Slots : slot'[s] # NoFile /\ slot'[s] = slot'[u] => s = u
      BY <1>6 DEF Files, PicturesApart
    <2>3. \A s \in Slots : ~(s \in Users \/ s \in project') => slot'[s] = NoFile
      BY <1>0, <1>6 DEF Files, PicturesApart, Exists
    <2> QED BY <2>1, <2>2, <2>3 DEF PicturesApart, Exists
  <1>12. InHand'
    <2>1. \A s \in Requests : Holds(s)' => item'[req[s].file] = Nowhere
      BY <1>5, <1>8 DEF Files, InHand
    <2>2. \A s \in Requests : Holds(s)' => \A u \in Slots : slot'[u] # req[s].file
      BY <1>6, <1>8, NoFileFacts DEF Files, InHand
    <2> QED BY <1>0, <1>8, <1>9, <2>1, <2>2 DEF Files, InHand
  <1>13. Leaving'
    <2>1. \A f \in req'[r].todo : DoomedIn(req'[r], f, item', slot')
      <3>1. \A f \in req[r].todo : item'[f] \notin Places
        BY <1>3, <1>5, <1>9, PlaceFacts
      <3>2. \A f \in req[r].todo : item[f] # Nowhere /\ f # NoFile
        BY <1>1, <1>3, <1>9, PlaceFacts, NoFileFacts
      <3>3. \A f \in req[r].todo : \A s \in Slots : slot'[s] # f
        BY <1>6, <3>2 DEF Files, PicturesApart
      <3> QED BY <1>2, <1>4, <3>1, <3>3 DEF DoomedIn
    <2>2. \A s \in Requests \ {r} : \A f \in req'[s].todo : DoomedIn(req'[s], f, item', slot')
      <3>1. \A s \in Requests : \A f \in req[s].todo :
              Doomed(req[s], f) /\ f # NoFile /\ f \in FileIds
        BY <1>9, NoFileFacts DEF Files, Leaving
      <3>2. \A s \in Requests : \A f \in req[s].todo :
              /\ item'[f] = item[f] \/ item'[f] = Gone
              /\ item[f] = Nowhere <=> item'[f] = Nowhere
        BY <1>5, <3>1
      <3>3. \A f \in FileIds : \A s \in Slots : slot[s] # f => slot'[s] # f
        BY <1>6, NoFileFacts
      <3> QED BY <1>4, <3>1, <3>2, <3>3, PlaceFacts DEF Doomed, DoomedIn
    <2>3. \A s \in Requests : req'[s].pc = "item_delete" => item'[req'[s].file] # Nowhere
      <3>1. \A s \in Requests : req[s].pc = "item_delete" =>
              req[s].file \in FileIds /\ item[req[s].file] # Nowhere
        BY DEF Fit, Fits, Files, Leaving, At
      <3> QED BY <1>2, <1>4, <1>5, <3>1
    <2> QED BY <2>1, <2>2, <2>3 DEF Leaving, Doomed, At
  <1>14. ShownIsStored'
    <2>1. \A f \in FileIds : item'[f] \in Places => item[f] \in Places
      BY <1>5, PlaceFacts
    <2>2. \A f \in FileIds : \A s \in Slots : slot'[s] = f => slot[s] = f
      BY <1>6, NoFileFacts
    <2> QED BY <1>0, <2>1, <2>2 DEF Files, ShownIsStored, Seen, Listed, Pictured, Stored
  <1> QED BY <1>4, <1>7, <1>10, <1>11, <1>12, <1>13, <1>14 DEF Files

(* The row and blob of a dropped file are seen and held by nobody.         *)
LEMMA DropKeeps ==
  ASSUME StoreInv, NEW r \in Requests, DropRow(r) \/ DropBlob(r)
  PROVE  StoreInv'
  <1> USE DEF StoreInv
  <1>0. TypeOK /\ Fits(req[r]) /\ req[r] \in RequestState
        /\ req[r].pc \in {"drop_row", "drop_blob"}
        /\ UNCHANGED <<project, item, slot, issued, faults, crashes>>
    BY DEF DropRow, DropBlob, At, TypeOK, Fit
  <1>1. PICK f \in req[r].todo, q \in RequestState :
          /\ Goto(r, q) /\ Fits(q) /\ q.pc \in {"idle", "drop_row", "drop_blob"}
          /\ q.todo \subseteq req[r].todo
          /\ row' \in {row, row \ {f}}
          /\ blob' \in {blob, [blob EXCEPT ![f] = "none"]}
    <2>1. CASE DropRow(r)
      <3>1. PICK f \in req[r].todo : /\ row' = row \ {f}
                                     /\ Goto(r, [req[r] EXCEPT !.pc = "drop_blob", !.file = f])
        BY <2>1 DEF DropRow
      <3> DEFINE q == [req[r] EXCEPT !.pc = "drop_blob", !.file = f]
      <3>2. q \in RequestState /\ q.pc = "drop_blob" /\ q.todo = req[r].todo /\ q.file = f
            /\ f \in FileIds
        BY <1>0 DEF RequestState, Steps, FileRef
      <3>3. Fits(q)
        BY <3>2 DEF Fits, ItemSteps, UploadSteps, PictureSteps, ProjectSteps, HoldSteps,
           TodoSteps
      <3>4. blob' = blob
        BY <2>1 DEF DropRow
      <3> QED BY <3>1, <3>2, <3>3, <3>4
    <2>2. CASE DropBlob(r)
      <3> DEFINE p == [req[r] EXCEPT !.todo = @ \ {req[r].file}]
                 q == Dropping(p)
      <3>1. req[r].file \in req[r].todo
        BY <1>0, <2>2 DEF DropBlob, At, Fits
      <3>2. p \in RequestState /\ p.todo \subseteq req[r].todo
        BY <1>0 DEF RequestState
      <3>3. q \in RequestState /\ Fits(q) /\ q.todo \subseteq req[r].todo
            /\ q.pc \in {"idle", "drop_row"}
        BY <3>2, DroppingFits
      <3>4. Goto(r, q) /\ row' = row /\ blob' = [blob EXCEPT ![req[r].file] = "none"]
        BY <2>2 DEF DropBlob
      <3> HIDE DEF q
      <3> QED BY <3>1, <3>3, <3>4
    <2> QED BY <2>1, <2>2
  <1>2. /\ f \in FileIds /\ \A s \in Requests : Holds(s) => req[s].file # f
        /\ \A g \in req[r].todo : item[g] \notin Places /\ \A s \in Slots : slot[s] # g
    BY <1>0, TodoNotHeld DEF Files, Leaving, Doomed, DoomedIn
  <1>3. /\ req' \in [Requests -> RequestState] /\ Fit' /\ req'[r] = q
        /\ \A s \in Requests \ {r} : req'[s] = req[s]
    BY <1>0, <1>1, GotoFits
  <1>4. \A g \in FileIds \ {f} : (g \in row' <=> g \in row) /\ blob'[g] = blob[g]
    BY <1>0, <1>1 DEF TypeOK
  <1>5. TypeOK'
    BY <1>0, <1>1, <1>3 DEF TypeOK
  <1>6. \A s \in Requests : Holds(s)' => /\ s # r /\ Holds(s) /\ req'[s] = req[s]
                                         /\ req[s].file \in FileIds \ {f}
    BY <1>1, <1>2, <1>3 DEF Holds, HoldSteps, Fit, Fits
  <1>7. \A s \in Requests : req'[s].todo \subseteq req[s].todo
    BY <1>1, <1>3
  <1>8. Issued'
    BY <1>0, <1>6, <1>7 DEF Files, Issued
  <1>9. PicturesApart'
    BY <1>0 DEF Files, PicturesApart, Exists
  <1>10. InHand'
    <2>1. \A s \in Requests : Holds(s)' =>
            /\ req[s].file \in row'
            /\ req[s].pc \notin {"blob_open", "blob_write"} => blob'[req[s].file] = "whole"
      BY <1>4, <1>6 DEF Files, InHand
    <2> QED BY <1>0, <1>6, <1>7, <2>1 DEF Files, InHand
  <1>11. Leaving'
    <2>1. \A g \in req'[r].todo : DoomedIn(req'[r], g, item', slot')
      BY <1>0, <1>1, <1>2, <1>3 DEF DoomedIn
    <2>2. \A s \in Requests \ {r} : \A g \in req'[s].todo : DoomedIn(req'[s], g, item', slot')
      BY <1>0, <1>3 DEF Files, Leaving, Doomed
    <2>3. \A s \in Requests : req'[s].pc = "item_delete" => item'[req'[s].file] # Nowhere
      BY <1>0, <1>1, <1>3 DEF Files, Leaving, At
    <2> QED BY <2>1, <2>2, <2>3 DEF Leaving, Doomed, At
  <1>12. ShownIsStored'
    <2>1. f \notin Seen
      BY <1>2 DEF Seen, Listed, Pictured
    <2> QED BY <1>0, <1>4, <2>1 DEF Files, ShownIsStored, Seen, Listed, Pictured, Stored
  <1> QED BY <1>3, <1>5, <1>8, <1>9, <1>10, <1>11, <1>12 DEF Files

(* A restart ends every request; the database and the disk stay.           *)
LEMMA CrashKeeps ==
  ASSUME StoreInv, Crash
  PROVE  StoreInv'
  <1> USE DEF StoreInv
  <1>1. TypeOK /\ req' = [r \in Requests |-> Idle] /\ crashes' = crashes + 1
        /\ UNCHANGED <<store, issued, faults>>
    BY DEF Crash
  <1>2. \A r \in Requests : req'[r] = Idle
    BY <1>1
  <1>3. TypeOK'
    BY <1>1, IdleFits DEF TypeOK, store
  <1>4. Fit'
    BY <1>2, IdleFits DEF Fit, Fits
  <1>5. \A r \in Requests : ~Holds(r)' /\ req'[r].todo = {} /\ req'[r].pc = "idle"
    BY <1>2, IdleFits DEF Holds, HoldSteps
  <1>6. Issued' /\ InHand' /\ Leaving'
    BY <1>1, <1>5 DEF Files, Issued, InHand, Leaving, At, store
  <1>7. PicturesApart' /\ ShownIsStored'
    BY <1>1 DEF Files, PicturesApart, Exists, ShownIsStored, Seen, Listed, Pictured, Stored,
       store
  <1> QED BY <1>3, <1>4, <1>6, <1>7 DEF Files

-----------------------------------------------------------------------------
(* The invariant.                                                          *)

(* StoreInv holds at the start.                                            *)
LEMMA InvInit == Init => StoreInv
  <1> SUFFICES ASSUME Init PROVE StoreInv
    OBVIOUS
  <1>1. TypeOK /\ Fit
    BY TypeInit
  <1>2. \A r \in Requests : req[r].pc = "idle" /\ req[r].todo = {}
    BY IdleFits DEF Init
  <1>3. Issued /\ InHand /\ Leaving
    BY <1>2 DEF Init, Issued, InHand, Leaving, Holds, HoldSteps, At, NoFile
  <1>4. PicturesApart /\ ShownIsStored
    BY NoFileFacts, PlaceFacts DEF Init, PicturesApart, ShownIsStored, Seen, Listed, Pictured
  <1> QED BY <1>1, <1>3, <1>4 DEF StoreInv, Files

(* Every step keeps StoreInv.                                              *)
LEMMA InvStep == StoreInv /\ [Next]_vars => StoreInv'
  <1> SUFFICES ASSUME StoreInv, [Next]_vars PROVE StoreInv'
    OBVIOUS
  <1>1. ASSUME NEW r \in Requests, Begin(r) PROVE StoreInv'
    BY <1>1, BeginKeeps
  <1>2. ASSUME NEW r \in Requests, UploadStep(r) PROVE StoreInv'
    BY <1>2, InsertFileRowKeeps, BlobKeeps, InsertItemKeeps, ReadKeeps, SlotKeeps
       DEF UploadStep
  <1>3. ASSUME NEW r \in Requests, DeleteStep(r) PROVE StoreInv'
    BY <1>3, DeleteItemKeeps, ReadKeeps, SlotKeeps, CommitKeeps, DropKeeps DEF DeleteStep
  <1>4. ASSUME NEW r \in Requests, Fail(r) PROVE StoreInv'
    BY <1>4, FailKeeps
  <1>5. CASE Crash
    BY <1>5, CrashKeeps
  <1>6. CASE UNCHANGED vars
    BY <1>6 DEF vars, StoreInv, TypeOK, Fit, Fits, Files, Issued, PicturesApart, InHand,
       Leaving, Doomed, DoomedIn, Holds, At, Exists, ShownIsStored, Seen, Listed, Pictured,
       Stored
  <1> QED BY <1>1, <1>2, <1>3, <1>4, <1>5, <1>6 DEF Next

(* StoreInv is an invariant.                                               *)
LEMMA StoreInvAlways == Spec => []StoreInv
  <1> QED BY InvInit, InvStep, PTL DEF Spec

(* Rows, requests and references stay well-formed.                         *)
THEOREM FilesTyped == Spec => []TypeOK
  <1>1. StoreInv => TypeOK
    BY DEF StoreInv
  <1> QED BY <1>1, StoreInvAlways, PTL

(* Whatever the database shows has its row and its whole blob, with any    *)
(* number of overlapping requests, failing steps and restarts.             *)
THEOREM ShownStaysStored == Spec => []ShownIsStored
  <1>1. StoreInv => ShownIsStored
    BY DEF StoreInv, Files
  <1> QED BY <1>1, StoreInvAlways, PTL

-----------------------------------------------------------------------------
(* To users the store is a FileShelf.                                      *)

(* Readers get exactly what they see.                                      *)
LEMMA ReadableIsSeen ==
  /\ ShownIsStored => Readable = Seen
  /\ ShownIsStored' => Readable' = Seen'
  BY DEF ShownIsStored, Readable

(* What leaves items and pictures alone changes nothing that is seen.      *)
LEMMA ShelfRests ==
  ASSUME ShownIsStored, ShownIsStored', UNCHANGED <<item, slot>>
  PROVE  UNCHANGED Shelf!shelf
  <1>1. Seen' = Seen
    BY DEF Seen, Listed, Pictured
  <1> QED BY <1>1, ReadableIsSeen DEF Shelf!shelf

(* The names of FileShelf stand for those of FileStore.                    *)
LEMMA ShelfNames ==
  /\ Shelf!Places = Places
  /\ Shelf!Slots = Slots
  /\ \A f : Shelf!Listed(f) <=> Listed(f)
  /\ \A f : Shelf!Pictured(f) <=> Pictured(f)
  BY DEF Shelf!Places, Shelf!Slots, Shelf!Listed, Shelf!Pictured, Places, Slots, Listed,
     Pictured

(* An inserted item appears whole.                                         *)
LEMMA AddStep ==
  ASSUME StoreInv, StoreInv', NEW r \in Requests, InsertItem(r)
  PROVE  Shelf!Next
  <1> DEFINE f == req[r].file
             t == req[r].target
  <1>1. TypeOK /\ f \in FileIds /\ t \in Places /\ item[f] = Nowhere /\ ~Pictured(f)
        /\ item' = [item EXCEPT ![f] = t] /\ UNCHANGED slot
    BY DEF StoreInv, Fit, Fits, Files, InHand, Holds, HoldSteps, ItemSteps, InsertItem, At,
       Pictured
  <1> HIDE DEF f, t
  <1>2. Seen' = Seen \cup {f}
    BY <1>1 DEF Seen, Listed, Pictured, TypeOK
  <1>3. Readable' = Readable \cup {f}
    BY <1>2, ReadableIsSeen DEF StoreInv, Files
  <1>4. Shelf!Add(f, t)
    BY <1>1, <1>3, ShelfNames DEF Shelf!Add
  <1> QED BY <1>1, <1>4, ShelfNames DEF Shelf!Next

(* A picture that is replaced was shown nowhere else.                      *)
LEMMA ShowStep ==
  ASSUME StoreInv, StoreInv', NEW r \in Requests, WriteSlot(r)
  PROVE  Shelf!Next \/ UNCHANGED Shelf!shelf
  <1> DEFINE f == req[r].file
             t == req[r].target
  <1>1. TypeOK /\ f \in FileIds /\ t \in Slots /\ item[f] = Nowhere /\ ~Pictured(f)
        /\ slot' = (IF Exists(t) THEN [slot EXCEPT ![t] = f] ELSE slot) /\ UNCHANGED item
    BY DEF StoreInv, Fit, Fits, Files, InHand, Holds, HoldSteps, PictureSteps, WriteSlot, At,
       Pictured
  <1> HIDE DEF f, t
  <1>2. CASE Exists(t)
    <2>1. slot' = [slot EXCEPT ![t] = f] /\ slot'[t] = f
          /\ \A s \in Slots \ {t} : slot'[s] = slot[s]
      BY <1>1, <1>2 DEF TypeOK
    <2>2. \A g \in FileIds : g = slot[t] => /\ item[g] = Nowhere
                                            /\ \A s \in Slots \ {t} : slot[s] # g
      BY <1>1, NoFileFacts DEF StoreInv, Files, PicturesApart
    <2>3. Seen' = (Seen \ {slot[t]}) \cup {f}
      <3>1. \A g \in FileIds : Listed(g)' <=> Listed(g)
        BY <1>1 DEF Listed
      <3>2. \A g \in FileIds : Pictured(g)' <=> g = f \/ (Pictured(g) /\ g # slot[t])
        BY <1>1, <2>1, <2>2 DEF Pictured
      <3>3. \A g \in FileIds : g = slot[t] => ~Listed(g)
        BY <2>2, PlaceFacts DEF Listed
      <3> QED BY <1>1, <3>1, <3>2, <3>3 DEF Seen
    <2>4. Readable' = (Readable \ {slot[t]}) \cup {f}
      BY <2>3, ReadableIsSeen DEF StoreInv, Files
    <2>5. Shelf!Show(t, f)
      BY <1>1, <2>1, <2>4, ShelfNames DEF Shelf!Show
    <2> QED BY <1>1, <2>5, ShelfNames DEF Shelf!Next
  <1>3. CASE ~Exists(t)
    BY <1>1, <1>3, ShelfRests DEF StoreInv, Files
  <1> QED BY <1>2, <1>3

(* The second deletion of an item finds it gone.                           *)
LEMMA RemoveStep ==
  ASSUME StoreInv, StoreInv', NEW r \in Requests, DeleteItem(r)
  PROVE  Shelf!Next \/ UNCHANGED Shelf!shelf
  <1> DEFINE f == req[r].file
  <1>1. TypeOK /\ f \in FileIds /\ item[f] \in Places \cup {Gone}
        /\ item' = [item EXCEPT ![f] = Gone] /\ UNCHANGED slot
    <2>1. f \in FileIds /\ item[f] # Nowhere
      BY DEF StoreInv, Fit, Fits, Files, Leaving, DeleteItem, At
    <2> QED BY <2>1 DEF StoreInv, TypeOK, DeleteItem
  <1> HIDE DEF f
  <1>2. CASE item[f] \in Places
    <2>1. ~Pictured(f)
      BY <1>1, <1>2, PlaceFacts, NoFileFacts DEF StoreInv, Files, PicturesApart, Pictured
    <2>2. Seen' = Seen \ {f}
      BY <1>1, <2>1, PlaceFacts DEF Seen, Listed, Pictured, TypeOK
    <2>3. Readable' = Readable \ {f}
      BY <2>2, ReadableIsSeen DEF StoreInv, Files
    <2>4. Shelf!Remove(f)
      BY <1>1, <1>2, <2>3, ShelfNames DEF Shelf!Remove, Listed
    <2> QED BY <1>1, <2>4 DEF Shelf!Next
  <1>3. CASE item[f] = Gone
    <2>1. item' = item
      BY <1>1, <1>3 DEF TypeOK
    <2> QED BY <1>1, <2>1, ShelfRests DEF StoreInv, Files
  <1> QED BY <1>1, <1>2, <1>3

(* A removed background was shown nowhere else.                            *)
LEMMA HideStep ==
  ASSUME StoreInv, StoreInv', NEW r \in Requests, ClearBackground(r)
  PROVE  Shelf!Next
  <1> DEFINE t == req[r].target
  <1>1. TypeOK /\ t \in Slots /\ slot' = [slot EXCEPT ![t] = NoFile] /\ UNCHANGED item
    BY PlaceFacts DEF StoreInv, Fit, Fits, ProjectSteps, ClearBackground, At
  <1> HIDE DEF t
  <1>2. slot'[t] = NoFile /\ \A s \in Slots \ {t} : slot'[s] = slot[s]
    BY <1>1 DEF TypeOK
  <1>3. \A g \in FileIds : g = slot[t] => /\ item[g] = Nowhere
                                          /\ \A s \in Slots \ {t} : slot[s] # g
    BY <1>1, NoFileFacts DEF StoreInv, Files, PicturesApart
  <1>4. Seen' = Seen \ {slot[t]}
    <2>1. \A g \in FileIds : Listed(g)' <=> Listed(g)
      BY <1>1 DEF Listed
    <2>2. \A g \in FileIds : Pictured(g)' <=> Pictured(g) /\ g # slot[t]
      BY <1>1, <1>2, <1>3, NoFileFacts DEF Pictured
    <2>3. \A g \in FileIds : g = slot[t] => ~Listed(g)
      BY <1>3, PlaceFacts DEF Listed
    <2> QED BY <2>1, <2>2, <2>3 DEF Seen
  <1>5. Readable' = Readable \ {slot[t]}
    BY <1>4, ReadableIsSeen DEF StoreInv, Files
  <1>6. Shelf!Hide(t)
    BY <1>1, <1>5 DEF Shelf!Hide, NoFile
  <1> QED BY <1>1, <1>6, ShelfNames DEF Shelf!Next

(* A project goes with all it lists and shows.                             *)
LEMMA DiscardStep ==
  ASSUME StoreInv, StoreInv', NEW r \in Requests, CommitCascade(r)
  PROVE  Shelf!Next
  <1> DEFINE p == req[r].target
             H == {f \in FileIds : Shelf!Holds(p, f)}
  <1>1. TypeOK /\ p \in Projects /\ p \in Slots /\ slot' = [slot EXCEPT ![p] = NoFile]
        /\ item' = [f \in FileIds |-> IF item[f] \in {p} \X Kinds THEN Gone ELSE item[f]]
    BY PlaceFacts DEF StoreInv, Fit, Fits, ProjectSteps, CommitCascade, At
  <1>2. \A f \in FileIds : Shelf!Holds(p, f) <=> item[f] \in {p} \X Kinds
    <2>1. {p} \X Kinds \subseteq Places
      BY <1>1, PlaceFacts
    <2> QED BY <1>1, <2>1, PlaceProject, ShelfNames DEF Shelf!Holds, Listed
  <1> HIDE DEF p
  <1>3. slot'[p] = NoFile /\ \A s \in Slots \ {p} : slot'[s] = slot[s]
    BY <1>1 DEF TypeOK
  <1>4. \A g \in FileIds : g = slot[p] => /\ item[g] = Nowhere
                                          /\ \A s \in Slots \ {p} : slot[s] # g
    BY <1>1, NoFileFacts DEF StoreInv, Files, PicturesApart
  <1>5. \A f \in FileIds : item[f] \in {p} \X Kinds => Listed(f) /\ ~Pictured(f)
    BY <1>1, PlaceFacts, NoFileFacts DEF StoreInv, Files, PicturesApart, Listed, Pictured
  <1>6. Seen' = Seen \ (H \cup {slot[p]})
    <2>1. \A g \in FileIds : Listed(g)' <=> Listed(g) /\ g \notin H
      BY <1>1, <1>2, PlaceFacts DEF Listed
    <2>2. \A g \in FileIds : Pictured(g)' <=> Pictured(g) /\ g # slot[p]
      BY <1>1, <1>3, <1>4, NoFileFacts DEF Pictured
    <2>3. \A g \in FileIds : g = slot[p] => ~Listed(g)
      BY <1>4, PlaceFacts DEF Listed
    <2>4. \A g \in H : ~Pictured(g)
      BY <1>2, <1>5
    <2> QED BY <2>1, <2>2, <2>3, <2>4 DEF Seen
  <1>7. Readable' = Readable \ (H \cup {slot[p]})
    BY <1>6, ReadableIsSeen DEF StoreInv, Files
  <1>8. item' = [f \in FileIds |-> IF Shelf!Holds(p, f) THEN Gone ELSE item[f]]
    BY <1>1, <1>2
  <1>9. Shelf!Discard(p)
    BY <1>1, <1>7, <1>8 DEF Shelf!Discard, NoFile
  <1> QED BY <1>1, <1>9 DEF Shelf!Next

(* At the start nothing is seen.                                           *)
LEMMA ShelfInit == Init => Shelf!Init
  <1> SUFFICES ASSUME Init PROVE Shelf!Init
    OBVIOUS
  <1>1. Readable = {}
    BY PlaceFacts, NoFileFacts DEF Init, Readable, Seen, Listed, Pictured
  <1> QED BY <1>1, ShelfNames DEF Init, Shelf!Init, NoFile

(* Each step is seen as one step of FileShelf or not at all.               *)
LEMMA ShelfStep == StoreInv /\ StoreInv' /\ [Next]_vars => [Shelf!Next]_Shelf!shelf
  <1> SUFFICES ASSUME StoreInv, StoreInv', [Next]_vars
               PROVE  Shelf!Next \/ UNCHANGED Shelf!shelf
    OBVIOUS
  <1>1. ASSUME UNCHANGED <<item, slot>> PROVE UNCHANGED Shelf!shelf
    BY <1>1, ShelfRests DEF StoreInv, Files
  <1>2. ASSUME NEW r \in Requests, Begin(r) \/ Fail(r) PROVE UNCHANGED <<item, slot>>
    BY <1>2 DEF Begin, BeginUpload, BeginPicture, BeginDeleteItem, BeginClear,
       BeginDeleteProject, Fail, FailUpload, FailRead, FailWrite, FailDrop, store
  <1>3. ASSUME NEW r \in Requests, UploadStep(r)
        PROVE  InsertItem(r) \/ WriteSlot(r) \/ UNCHANGED <<item, slot>>
    BY <1>3 DEF UploadStep, InsertFileRow, OpenBlob, FinishBlob, ReadPrevious, store
  <1>4. ASSUME NEW r \in Requests, DeleteStep(r)
        PROVE  \/ DeleteItem(r) \/ ClearBackground(r) \/ CommitCascade(r)
               \/ UNCHANGED <<item, slot>>
    BY <1>4 DEF DeleteStep, ReadBackground, CollectStorage, CollectAttachments, DropRow,
       DropBlob, store
  <1>5. Crash \/ UNCHANGED vars => UNCHANGED <<item, slot>>
    BY DEF Crash, store, vars
  <1> QED BY <1>1, <1>2, <1>3, <1>4, <1>5, AddStep, ShowStep, RemoveStep, HideStep,
             DiscardStep DEF Next

(* Every step of every request is one step of FileShelf, or none: uploads, *)
(* replacements and deletions look atomic.                                 *)
THEOREM StoreLooksAtomic == Spec => LooksAtomic
  <1> QED BY ShelfInit, ShelfStep, StoreInvAlways, PTL DEF Spec, LooksAtomic, Shelf!Spec

-----------------------------------------------------------------------------
(* One request at a time leaves nothing behind.                            *)

(* A file that a request is about to show, or to drop.                     *)
Carries(q, f) ==
  \/ q.pc \in HoldSteps /\ f = q.file
  \/ q.pc \in {"drop_row", "drop_blob"} /\ f \in q.todo

(* What the statement a request is at relies on: the owner of the picture  *)
(* is there, and what it is about to hide is on its list.                  *)
Ready(q) ==
  /\ q.pc \in UploadSteps \cup PictureSteps /\ q.target \in Slots => Exists(q.target)
  /\ q.pc \in {"slot_write", "clear_write"} => slot[q.target] \in q.todo \cup {NoFile}
  /\ q.pc \in {"cascade_attachments", "cascade_commit"} =>
       FilesAt(<<q.target, "storage">>) \subseteq q.todo
  /\ q.pc = "cascade_commit" => FilesAt(<<q.target, "attachment">>) \subseteq q.todo
  /\ q.pc = "drop_blob" => q.file \notin row

(* The invariant: a row or a blob is visible or carried by a request.      *)
Used(f) == f \in row \/ blob[f] # "none"
Kept(f) == f \in Seen \/ \E r \in Requests : Carries(req[r], f)
Tidy ==
  /\ \A f \in FileIds : Used(f) => Kept(f)
  /\ \A r \in Requests : Ready(req[r])

(* A request that moves on keeps it, if the others rest while it writes.   *)
LEMMA TidyMove ==
  ASSUME StoreInv, Tidy, NEW r \in Requests, NEW q \in RequestState, Goto(r, q),
         UNCHANGED store \/ \A s \in Requests \ {r} : At(s, "idle"),
         Ready(req[r])',
         \A f \in FileIds : Used(f)' /\ (Used(f) => f \in Seen \/ Carries(req[r], f)) =>
                              f \in Seen' \/ Carries(q, f)
  PROVE  Tidy'
  <1>1. req'[r] = q /\ \A s \in Requests \ {r} : req'[s] = req[s]
    BY DEF StoreInv, TypeOK, Goto
  <1>2. ASSUME NEW f \in FileIds, Used(f)'
        PROVE  Kept(f)'
    <2>1. CASE \E s \in Requests \ {r} : Carries(req[s], f)
      BY <1>1, <2>1 DEF Kept
    <2>2. CASE ~\E s \in Requests \ {r} : Carries(req[s], f)
      BY <1>1, <1>2, <2>2 DEF Kept, Tidy
    <2> QED BY <2>1, <2>2
  <1>3. ASSUME NEW s \in Requests \ {r}
        PROVE  Ready(req[s])'
    <2>1. CASE UNCHANGED store
      BY <1>1, <2>1 DEF Tidy, Ready, store, Exists, FilesAt
    <2>2. CASE At(s, "idle")
      BY <1>1, <2>2 DEF Ready, At, UploadSteps, PictureSteps
    <2> QED BY <2>1, <2>2
  <1> QED BY <1>2, <1>3 DEF Tidy

(* A request that begins.                                                  *)
LEMMA BeginTidy ==
  ASSUME StoreInv, Tidy, NEW r \in Requests, Begin(r)
  PROVE  Tidy'
  <1> USE DEF UploadSteps, PictureSteps, HoldSteps
  <1>t. TypeOK /\ req[r].pc = "idle" /\ UNCHANGED store
    BY DEF StoreInv, Begin, BeginUpload, BeginPicture, BeginDeleteItem, BeginClear,
       BeginDeleteProject, At
  <1>1. PICK q : /\ Goto(r, q) /\ Ready(q)
                 /\ q.pc \in {"file_insert", "item_delete", "clear_read", "cascade_storage"}
    <2>1. ASSUME NEW p, NEW n, p \in Places
          PROVE  LET q == [Idle EXCEPT !.pc = "file_insert", !.target = p, !.left = n]
                 IN  Ready(q) /\ q.pc = "file_insert"
      BY <2>1, PlaceFacts DEF Ready, Idle
    <2>2. ASSUME NEW s, Exists(s)
          PROVE  LET q == [Idle EXCEPT !.pc = "file_insert", !.target = s]
                 IN  Ready(q) /\ q.pc = "file_insert"
      BY <2>2 DEF Ready, Idle
    <2>3. ASSUME NEW f, NEW p
          PROVE  LET q == [Idle EXCEPT !.pc = "item_delete", !.file = f, !.target = p]
                 IN  Ready(q) /\ q.pc = "item_delete"
      BY DEF Ready, Idle
    <2>4. ASSUME NEW s, NEW pc \in {"clear_read", "cascade_storage"}
          PROVE  LET q == [Idle EXCEPT !.pc = pc, !.target = s]
                 IN  Ready(q) /\ q.pc = pc
      BY DEF Ready, Idle
    <2>5. CASE BeginUpload(r)
      <3>1. PICK p \in Places, n \in 1 .. MaxBatch :
              Goto(r, [Idle EXCEPT !.pc = "file_insert", !.target = p, !.left = n])
        BY <2>5 DEF BeginUpload
      <3> QED BY <3>1, <2>1
    <2>6. CASE BeginPicture(r)
      <3>1. PICK s \in Pictures :
              Exists(s) /\ Goto(r, [Idle EXCEPT !.pc = "file_insert", !.target = s])
        BY <2>6 DEF BeginPicture
      <3> QED BY <3>1, <2>2
    <2>7. CASE BeginDeleteItem(r)
      <3>1. PICK f \in FileIds :
              Goto(r, [Idle EXCEPT !.pc = "item_delete", !.file = f, !.target = item[f]])
        BY <2>7 DEF BeginDeleteItem
      <3> QED BY <3>1, <2>3
    <2>8. CASE BeginClear(r)
      <3>1. PICK s \in Pictures : Goto(r, [Idle EXCEPT !.pc = "clear_read", !.target = s])
        BY <2>8 DEF BeginClear
      <3> QED BY <3>1, <2>4
    <2>9. CASE BeginDeleteProject(r)
      <3>1. PICK s \in Deletable : Goto(r, [Idle EXCEPT !.pc = "cascade_storage", !.target = s])
        BY <2>9 DEF BeginDeleteProject
      <3> QED BY <3>1, <2>4
    <2> QED BY <2>5, <2>6, <2>7, <2>8, <2>9 DEF Begin
  <1>2. req'[r] = q
    BY <1>t, <1>1 DEF TypeOK, Goto
  <1>3. q \in RequestState
    BY <1>2, BeginKeeps DEF StoreInv, TypeOK
  <1>4. Ready(req[r])'
    BY <1>1, <1>2, <1>t DEF Ready, store, Exists, FilesAt
  <1>5. ASSUME NEW f \in FileIds
        PROVE  (Used(f)' <=> Used(f)) /\ (f \in Seen' <=> f \in Seen) /\ ~Carries(req[r], f)
    BY <1>t DEF Used, Seen, Listed, Pictured, Carries, store
  <1> QED BY <1>1, <1>3, <1>4, <1>5, <1>t, TidyMove

(* The statements that only read.                                          *)
LEMMA ReadTidy ==
  ASSUME StoreInv, Tidy, NEW r \in Requests,
         \/ ReadPrevious(r) \/ ReadBackground(r) \/ CollectStorage(r) \/ CollectAttachments(r)
  PROVE  Tidy'
  <1> USE DEF UploadSteps, PictureSteps, HoldSteps
  <1>t. /\ TypeOK /\ UNCHANGED store /\ Ready(req[r]) /\ req[r] \in RequestState
        /\ req \in [Requests -> RequestState]
    <2>1. TypeOK /\ Ready(req[r]) /\ req[r] \in RequestState
      BY DEF StoreInv, TypeOK, Tidy
    <2>2. req \in [Requests -> RequestState]
      BY <2>1 DEF TypeOK
    <2>3. UNCHANGED store
      <3>1. CASE ReadPrevious(r)
        BY <3>1 DEF ReadPrevious
      <3>2. CASE ReadBackground(r)
        BY <3>2 DEF ReadBackground
      <3>3. CASE CollectStorage(r)
        BY ONLY <3>3 DEF CollectStorage
      <3>4. CASE CollectAttachments(r)
        BY ONLY <3>4 DEF CollectAttachments
      <3> QED BY <3>1, <3>2, <3>3, <3>4
    <2> QED BY <2>1, <2>2, <2>3
  <1>1. req'[r] \in RequestState /\ Goto(r, req'[r])
    BY <1>t, ReadKeeps DEF StoreInv, TypeOK, ReadPrevious, ReadBackground,
       CollectStorage, CollectAttachments, Goto
  <1>2. Ready(req[r])' /\ \A f : Carries(req[r], f) => Carries(req'[r], f)
    <2>1. CASE ReadPrevious(r)
      <3>1. /\ req[r].pc = "previous"
            /\ req'[r] = [req[r] EXCEPT !.pc = "slot_write",
                                        !.todo = {slot[req[r].target]} \ {NoFile}]
        BY <2>1, <1>t DEF ReadPrevious, At, Goto
      <3>2. /\ req'[r].pc = "slot_write" /\ req'[r].target = req[r].target
            /\ req'[r].todo = {slot[req[r].target]} \ {NoFile}
            /\ req'[r].file = req[r].file
        BY <3>1, <1>t DEF RequestState
      <3> QED BY <3>1, <3>2, <1>t DEF Ready, Carries, store, Exists
    <2>2. CASE ReadBackground(r)
      <3>1. /\ req[r].pc = "clear_read"
            /\ req'[r] = [req[r] EXCEPT !.pc = "clear_write",
                                        !.todo = {slot[req[r].target]} \ {NoFile}]
        BY <2>2, <1>t DEF ReadBackground, At, Goto
      <3>2. /\ req'[r].pc = "clear_write" /\ req'[r].target = req[r].target
            /\ req'[r].todo = {slot[req[r].target]} \ {NoFile}
        BY <3>1, <1>t DEF RequestState
      <3> QED BY <3>1, <3>2, <1>t DEF Ready, Carries, store
    <2>3. CASE CollectStorage(r)
      <3>1. /\ req[r].pc = "cascade_storage"
            /\ req'[r] = [req[r] EXCEPT !.pc = "cascade_attachments",
                            !.todo = FilesAt(<<req[r].target, "storage">>)]
        BY <2>3, <1>t DEF CollectStorage, At, Goto
      <3>2. /\ req'[r].pc = "cascade_attachments" /\ req'[r].target = req[r].target
            /\ req'[r].todo = FilesAt(<<req[r].target, "storage">>)
        BY <3>1, <1>t DEF RequestState
      <3> QED BY <3>1, <3>2, <1>t DEF Ready, Carries, store, FilesAt
    <2>4. CASE CollectAttachments(r)
      <3>1. /\ req[r].pc = "cascade_attachments"
            /\ req'[r] = [req[r] EXCEPT !.pc = "cascade_commit",
                    !.todo = @ \cup FilesAt(<<req[r].target, "attachment">>)]
        BY <2>4, <1>t DEF CollectAttachments, At, Goto
      <3>2. /\ req'[r].pc = "cascade_commit" /\ req'[r].target = req[r].target
            /\ req'[r].todo = req[r].todo \cup FilesAt(<<req[r].target, "attachment">>)
        BY <3>1, <1>t DEF RequestState
      <3> QED BY <3>1, <3>2, <1>t DEF Ready, Carries, store, FilesAt
    <2> QED BY <2>1, <2>2, <2>3, <2>4
  <1>3. ASSUME NEW f \in FileIds
        PROVE  (Used(f)' <=> Used(f)) /\ (f \in Seen' <=> f \in Seen)
    BY <1>t DEF Used, Seen, Listed, Pictured, store
  <1> QED BY <1>1, <1>2, <1>3, <1>t, TidyMove

(* Storing a file.                                                         *)
LEMMA StoreTidy ==
  ASSUME StoreInv, Tidy, NEW r \in Requests, \A s \in Requests \ {r} : At(s, "idle"),
         InsertFileRow(r) \/ OpenBlob(r) \/ FinishBlob(r)
  PROVE  Tidy'
  <1> USE DEF UploadSteps, PictureSteps, HoldSteps
  <1>t. /\ TypeOK /\ UNCHANGED <<project, item, slot>>
        /\ Ready(req[r]) /\ req[r] \in RequestState
        /\ \A q : Goto(r, q) => req'[r] = q
    BY DEF StoreInv, TypeOK, Tidy, InsertFileRow, OpenBlob, FinishBlob, Goto
  <1>1. req'[r] \in RequestState /\ Goto(r, req'[r])
    BY <1>t, InsertFileRowKeeps, BlobKeeps DEF StoreInv, TypeOK, InsertFileRow,
       OpenBlob, FinishBlob, Goto
  <1>2. \A f : f \in Seen' <=> f \in Seen
    BY <1>t DEF Seen, Listed, Pictured
  <1>3. /\ req'[r].pc \in HoldSteps \ {"slot_write"} /\ req'[r].target = req[r].target
        /\ req[r].pc \in UploadSteps
        /\ req'[r].pc = "item_insert" => req[r].target \notin Slots
    BY <1>t DEF InsertFileRow, OpenBlob, FinishBlob, At, RequestState
  <1>4. Ready(req[r])'
    BY <1>3, <1>t DEF Ready, Exists
  <1>5. ASSUME NEW f \in FileIds, Used(f)', Used(f) => f \in Seen \/ Carries(req[r], f)
        PROVE  f \in Seen' \/ Carries(req'[r], f)
    <2>1. CASE InsertFileRow(r)
      <3>1. /\ row' = row \cup {issued + 1} /\ UNCHANGED blob /\ req[r].pc = "file_insert"
            /\ req'[r].file = issued + 1
        BY <2>1, <1>t DEF InsertFileRow, At, RequestState
      <3> QED BY <3>1, <1>2, <1>3, <1>5 DEF Used, Carries
    <2>2. CASE OpenBlob(r) \/ FinishBlob(r)
      <3>1. /\ req'[r].file = req[r].file /\ UNCHANGED row
            /\ \A g \in FileIds \ {req[r].file} : blob'[g] = blob[g]
        BY <2>2, <1>t DEF OpenBlob, FinishBlob, At, RequestState, TypeOK
      <3> QED BY <3>1, <1>2, <1>3, <1>5 DEF Used, Carries
    <2> QED BY <1>5, <2>1, <2>2
  <1> QED BY <1>1, <1>4, <1>5, TidyMove

(* The request after a file of its batch, and one with a list to drop.     *)
LEMMA NextFileMoves ==
  ASSUME NEW q \in RequestState
  PROVE  \/ NextFile(q).pc = "idle"
         \/ NextFile(q).pc = "file_insert" /\ NextFile(q).target = q.target
  <1>1. CASE q.left = 1
    BY <1>1 DEF NextFile, Idle
  <1>2. CASE q.left # 1
    BY <1>2 DEF NextFile, RequestState
  <1> QED BY <1>1, <1>2

LEMMA DroppingCarries ==
  ASSUME NEW q \in RequestState
  PROVE  /\ Dropping(q).pc \in {"idle", "drop_row"}
         /\ \A f : Carries(Dropping(q), f) <=> f \in q.todo
  <1>1. /\ Dropping(q).pc \in {"idle", "drop_row"} /\ Dropping(q).todo = q.todo
        /\ Dropping(q).pc = "idle" => q.todo = {}
    <2>1. CASE q.todo = {}
      BY <2>1 DEF Dropping, Idle
    <2>2. CASE q.todo # {}
      <3>1. Dropping(q) = [q EXCEPT !.pc = "drop_row", !.file = NoFile]
        BY <2>2 DEF Dropping
      <3> QED BY <2>2, <3>1 DEF RequestState
    <2> QED BY <2>1, <2>2
  <1> QED BY <1>1 DEF Carries, HoldSteps

(* A request that is done, or about to drop a row, relies on nothing.      *)
LEMMA RestsReady ==
  ASSUME NEW r \in Requests, req'[r].pc \in {"idle", "drop_row"}
  PROVE  Ready(req[r])'
  BY DEF Ready, UploadSteps, PictureSteps

(* A file is shown.                                                        *)
LEMMA ShowTidy ==
  ASSUME StoreInv, Tidy, NEW r \in Requests, \A s \in Requests \ {r} : At(s, "idle"),
         InsertItem(r) \/ WriteSlot(r)
  PROVE  Tidy'
  <1> USE DEF UploadSteps, PictureSteps, HoldSteps, ItemSteps
  <1>t. /\ TypeOK /\ Fits(req[r]) /\ UNCHANGED <<project, row, blob>>
        /\ Ready(req[r]) /\ req[r] \in RequestState
        /\ \A q : Goto(r, q) => req'[r] = q
    BY DEF StoreInv, TypeOK, Fit, Tidy, InsertItem, WriteSlot, Goto
  <1>1. req'[r] \in RequestState /\ Goto(r, req'[r])
    BY <1>t, InsertItemKeeps, SlotKeeps DEF StoreInv, TypeOK, InsertItem, WriteSlot, Goto
  <1>2. CASE InsertItem(r)
    <2>1. /\ req[r].pc = "item_insert" /\ req[r].target \in Places /\ req[r].file \in FileIds
          /\ req'[r] = NextFile(req[r]) /\ UNCHANGED slot
          /\ item' = [item EXCEPT ![req[r].file] = req[r].target]
      BY <1>2, <1>t DEF InsertItem, At, Fits
    <2>2. \/ req'[r].pc = "idle"
          \/ req'[r].pc = "file_insert" /\ req'[r].target \notin Slots
      BY <1>t, <2>1, NextFileMoves, PlaceFacts
    <2>3. ASSUME NEW f \in FileIds, f \in Seen \/ Carries(req[r], f)
          PROVE  f \in Seen'
      BY <1>t, <2>1, <2>3 DEF Seen, Listed, Pictured, Carries, TypeOK
    <2>4. Ready(req[r])'
      BY <2>2 DEF Ready
    <2> QED BY <1>1, <1>t, <2>3, <2>4, TidyMove DEF Used
  <1>3. CASE WriteSlot(r)
    <2>1. /\ req[r].pc = "slot_write" /\ req[r].target \in Slots /\ req[r].file \in FileIds
          /\ req'[r] = Dropping(req[r]) /\ UNCHANGED item
          /\ slot' = [slot EXCEPT ![req[r].target] = req[r].file]
          /\ slot[req[r].target] \in req[r].todo \cup {NoFile}
      BY <1>3, <1>t DEF WriteSlot, At, Fits, Ready
    <2>2. /\ req'[r].pc \in {"idle", "drop_row"}
          /\ \A f : Carries(req'[r], f) <=> f \in req[r].todo
      BY <1>t, <2>1, DroppingCarries
    <2>3. ASSUME NEW f \in FileIds, f \in Seen \/ Carries(req[r], f)
          PROVE  f \in Seen' \/ Carries(req'[r], f)
      <3>1. CASE f = req[r].file
        BY <1>t, <2>1, <3>1 DEF Seen, Pictured, TypeOK
      <3>2. CASE f = slot[req[r].target]
        BY <2>1, <2>2, <3>2, NoFileFacts
      <3>3. CASE f # req[r].file /\ f # slot[req[r].target]
        BY <1>t, <2>1, <2>3, <3>3 DEF Seen, Listed, Pictured, Carries, TypeOK
      <3> QED BY <3>1, <3>2, <3>3
    <2>4. Ready(req[r])'
      BY <2>2, RestsReady
    <2> QED BY <1>1, <1>t, <2>3, <2>4, TidyMove DEF Used
  <1> QED BY <1>2, <1>3

(* Items and pictures are taken away; their files are on the list.         *)
LEMMA HideTidy ==
  ASSUME StoreInv, Tidy, NEW r \in Requests, \A s \in Requests \ {r} : At(s, "idle"),
         \/ DeleteItem(r) \/ ClearBackground(r)
         \/ (CommitCascade(r) /\ slot[req[r].target] = NoFile)
  PROVE  Tidy'
  <1> USE DEF HoldSteps
  <1>t. /\ TypeOK /\ Fits(req[r]) /\ UNCHANGED <<row, blob>>
        /\ Ready(req[r]) /\ req[r] \in RequestState
        /\ \A q : Goto(r, q) => req'[r] = q
    BY DEF StoreInv, TypeOK, Fit, Tidy, DeleteItem, ClearBackground, CommitCascade, Goto
  <1>1. req'[r] \in RequestState /\ Goto(r, req'[r])
    BY <1>t, DeleteItemKeeps, SlotKeeps, CommitKeeps
       DEF StoreInv, TypeOK, DeleteItem, ClearBackground, CommitCascade, Goto
  <1>2. PICK q \in RequestState :
          /\ req'[r] = Dropping(q)
          /\ \A f \in FileIds : f \in Seen \/ Carries(req[r], f) => f \in Seen' \/ f \in q.todo
    <2>1. CASE DeleteItem(r)
      <3> DEFINE q == [req[r] EXCEPT !.todo = {req[r].file}]
      <3>1. /\ req[r].pc = "item_delete" /\ req[r].file \in FileIds
            /\ item' = [item EXCEPT ![req[r].file] = Gone] /\ UNCHANGED slot
            /\ req'[r] = Dropping(q)
        BY <2>1, <1>t DEF DeleteItem, At, Fits
      <3>2. q \in RequestState /\ q.todo = {req[r].file}
        BY <1>t, <3>1 DEF RequestState
      <3>3. ASSUME NEW f \in FileIds, f \in Seen \/ Carries(req[r], f), f # req[r].file
            PROVE  f \in Seen'
        BY <1>t, <3>1, <3>3 DEF Seen, Listed, Pictured, Carries, TypeOK
      <3> HIDE DEF q
      <3> QED BY <3>1, <3>2, <3>3
    <2>2. CASE ClearBackground(r)
      <3>1. /\ req[r].pc = "clear_write" /\ UNCHANGED item
            /\ slot' = [slot EXCEPT ![req[r].target] = NoFile]
            /\ slot[req[r].target] \in req[r].todo \cup {NoFile}
            /\ req'[r] = Dropping(req[r])
        BY <2>2, <1>t DEF ClearBackground, At, Ready
      <3>2. ASSUME NEW f \in FileIds, f \in Seen \/ Carries(req[r], f)
            PROVE  f \in Seen' \/ f \in req[r].todo
        BY <1>t, <3>1, <3>2, NoFileFacts DEF Seen, Listed, Pictured, Carries, TypeOK
      <3> QED BY <1>t, <3>1, <3>2
    <2>3. CASE CommitCascade(r) /\ slot[req[r].target] = NoFile
      <3>1. /\ req[r].pc = "cascade_commit"
            /\ item' = [f \in FileIds |->
                 IF item[f] \in {req[r].target} \X Kinds THEN Gone ELSE item[f]]
            /\ slot' = [slot EXCEPT ![req[r].target] = NoFile]
            /\ req'[r] = Dropping(req[r])
        BY <2>3, <1>t DEF CommitCascade, At
      <3>2. slot' = slot
        BY <2>3, <3>1, <1>t DEF TypeOK
      <3>3. ASSUME NEW f \in FileIds, item[f] \in {req[r].target} \X Kinds
            PROVE  f \in req[r].todo
        <4>1. item[f] \in {<<req[r].target, "storage">>, <<req[r].target, "attachment">>}
          BY <3>3 DEF Kinds
        <4> QED BY <4>1, <3>1, <1>t DEF Ready, FilesAt
      <3>4. ASSUME NEW f \in FileIds, f \in Seen \/ Carries(req[r], f)
            PROVE  f \in Seen' \/ f \in req[r].todo
        BY <3>1, <3>2, <3>3, <3>4 DEF Seen, Listed, Pictured, Carries
      <3> QED BY <1>t, <3>1, <3>4
    <2> QED BY <2>1, <2>2, <2>3
  <1>3. /\ req'[r].pc \in {"idle", "drop_row"}
        /\ \A f : Carries(req'[r], f) <=> f \in q.todo
    BY <1>2, DroppingCarries
  <1>4. Ready(req[r])'
    BY <1>3, RestsReady
  <1> QED BY <1>1, <1>t, <1>2, <1>3, <1>4, TidyMove DEF Used

(* A file on the list goes: first its row, then its blob.                  *)
LEMMA DropTidy ==
  ASSUME StoreInv, Tidy, NEW r \in Requests, \A s \in Requests \ {r} : At(s, "idle"),
         DropRow(r) \/ DropBlob(r)
  PROVE  Tidy'
  <1> USE DEF HoldSteps
  <1>t. /\ TypeOK /\ Fits(req[r]) /\ UNCHANGED <<project, item, slot>>
        /\ Ready(req[r]) /\ req[r] \in RequestState
        /\ \A q : Goto(r, q) => req'[r] = q
    BY DEF StoreInv, TypeOK, Fit, Tidy, DropRow, DropBlob, Goto
  <1>1. req'[r] \in RequestState /\ Goto(r, req'[r])
    BY <1>t, DropKeeps DEF StoreInv, TypeOK, DropRow, DropBlob, Goto
  <1>2. \A f : f \in Seen' <=> f \in Seen
    BY <1>t DEF Seen, Listed, Pictured
  <1>3. CASE DropRow(r)
    <2>1. PICK g \in req[r].todo :
            /\ req[r].pc = "drop_row" /\ row' = row \ {g} /\ UNCHANGED blob
            /\ req'[r] = [req[r] EXCEPT !.pc = "drop_blob", !.file = g]
      BY <1>3, <1>t DEF DropRow, At
    <2>2. req'[r].pc = "drop_blob" /\ req'[r].file = g /\ req'[r].todo = req[r].todo
      BY <2>1, <1>t DEF RequestState
    <2>3. Ready(req[r])'
      BY <2>1, <2>2 DEF Ready, UploadSteps, PictureSteps
    <2>4. ASSUME NEW f \in FileIds
          PROVE  (Used(f)' => Used(f)) /\ (Carries(req[r], f) => Carries(req'[r], f))
      BY <2>1, <2>2 DEF Used, Carries
    <2> QED BY <1>1, <1>2, <2>3, <2>4, TidyMove
  <1>4. CASE DropBlob(r)
    <2> DEFINE q == [req[r] EXCEPT !.todo = @ \ {req[r].file}]
    <2>1. /\ req[r].pc = "drop_blob" /\ UNCHANGED row /\ req[r].file \in FileIds
          /\ blob' = [blob EXCEPT ![req[r].file] = "none"]
          /\ req'[r] = Dropping(q) /\ req[r].file \notin row
      BY <1>4, <1>t DEF DropBlob, At, Fits, Ready
    <2>2. q \in RequestState /\ q.todo = req[r].todo \ {req[r].file}
      BY <1>t DEF RequestState
    <2> HIDE DEF q
    <2>3. /\ req'[r].pc \in {"idle", "drop_row"}
          /\ \A f : Carries(req'[r], f) <=> f \in q.todo
      BY <2>1, <2>2, DroppingCarries
    <2>4. ASSUME NEW f \in FileIds, Used(f)'
          PROVE  Used(f) /\ (Carries(req[r], f) => Carries(req'[r], f))
      BY <2>1, <2>2, <2>3, <2>4, <1>t DEF Used, Carries, TypeOK
    <2>5. Ready(req[r])'
      BY <2>3, RestsReady
    <2> QED BY <1>1, <1>2, <2>4, <2>5, TidyMove
  <1> QED BY <1>3, <1>4

(* As long as it is quiet every step keeps the invariant.                  *)
LEMMA TidyStep ==
  ASSUME StoreInv, Tidy, Quiet, Quiet', Next
  PROVE  Tidy'
  <1>1. faults = 0 /\ crashes = 0 /\ faults' = 0 /\ crashes' = 0
    BY DEF Quiet
  <1>2. ~Crash /\ \A r \in Requests : ~Fail(r)
    <2>1. ~Crash
      BY <1>1 DEF Crash
    <2>2. ~Fault
      BY <1>1 DEF Fault
    <2> QED BY <2>1, <2>2 DEF Fail, FailUpload, FailRead, FailWrite, FailDrop
  <1>3. ASSUME NEW r \in Requests, ~At(r, "idle")
        PROVE  \A s \in Requests \ {r} : At(s, "idle")
    BY <1>3 DEF Quiet
  <1>4. ASSUME NEW r \in Requests, Begin(r)
        PROVE  Tidy'
    BY <1>4, BeginTidy
  <1>5. ASSUME NEW r \in Requests, UploadStep(r)
        PROVE  Tidy'
    <2>1. ~At(r, "idle")
      BY <1>5 DEF UploadStep, InsertFileRow, OpenBlob, FinishBlob, InsertItem,
         ReadPrevious, WriteSlot, At
    <2> QED BY <1>3, <1>5, <2>1, StoreTidy, ShowTidy, ReadTidy DEF UploadStep
  <1>6. ASSUME NEW r \in Requests, DeleteStep(r)
        PROVE  Tidy'
    <2>1. ~At(r, "idle") /\ (CommitCascade(r) => slot[req[r].target] = NoFile)
      BY <1>6 DEF DeleteStep, DeleteItem, ReadBackground, ClearBackground,
         CollectStorage, CollectAttachments, CommitCascade, DropRow, DropBlob, At, Quiet
    <2>2. CASE DeleteItem(r) \/ ClearBackground(r) \/ CommitCascade(r)
      BY <1>3, <2>1, <2>2, HideTidy
    <2>3. CASE ReadBackground(r) \/ CollectStorage(r) \/ CollectAttachments(r)
      BY <2>3, ReadTidy
    <2>4. CASE DropRow(r) \/ DropBlob(r)
      BY <1>3, <2>1, <2>4, DropTidy
    <2> QED BY <1>6, <2>2, <2>3, <2>4 DEF DeleteStep
  <1> QED BY <1>2, <1>4, <1>5, <1>6 DEF Next

(* With one request at a time, no failing step, no restart and no project  *)
(* with a background deleted, no row and no blob is left behind once the   *)
(* request has answered (projects.js:348, account.js:470).                 *)
THEOREM NothingIsLeft == ModeSpec => []NothingLeftWhenAlone
  <1> DEFINE I == StoreInv /\ (alone => Quiet /\ Tidy)
  <1>1. Init => I
    <2> SUFFICES ASSUME Init PROVE I
      OBVIOUS
    <2>1. Quiet
      BY DEF Init, Quiet, Idle, At
    <2>2. Tidy
      BY DEF Init, Tidy, Used, Ready, Idle, UploadSteps, PictureSteps
    <2> QED BY <2>1, <2>2, InvInit
  <1>2. I /\ [ModeNext]_<<vars, alone>> => I'
    <2> SUFFICES ASSUME I, [ModeNext]_<<vars, alone>> PROVE I'
      OBVIOUS
    <2>1. StoreInv'
      BY InvStep DEF ModeNext
    <2>2. CASE ModeNext
      BY <2>1, <2>2, TidyStep DEF ModeNext
    <2>3. CASE UNCHANGED <<vars, alone>>
      BY <2>1, <2>3 DEF vars, Quiet, At, Tidy, Used, Kept, Seen, Listed, Pictured, Ready,
         Carries, Exists, FilesAt
    <2> QED BY <2>2, <2>3
  <1>3. I => NothingLeftWhenAlone
    BY DEF Tidy, Used, Kept, Carries, NothingLeftWhenAlone, NothingLeftBehind, AllIdle, At,
       HoldSteps
  <1> QED BY <1>1, <1>2, <1>3, PTL DEF ModeSpec, ModeInit

=============================================================================
