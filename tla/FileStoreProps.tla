--------------------------- MODULE FileStoreProps ---------------------------
(* What the store of uploaded files promises.                              *)
EXTENDS FileStore

(* Rows and requests refer to files, places and pictures that exist; a     *)
(* batch never counts below zero.                                          *)
TypeOK ==
  /\ project \subseteq Projects
  /\ item \in [FileIds -> Places \cup {Nowhere, Gone}]
  /\ slot \in [Slots -> FileRef]
  /\ row \subseteq FileIds
  /\ blob \in [FileIds -> {"none", "part", "whole"}]
  /\ issued \in 0 .. MaxFile
  /\ req \in [Requests -> RequestState]
  /\ faults \in Nat
  /\ crashes \in Nat

Listed(f) == item[f] \in Places
Pictured(f) == \E s \in Slots : slot[s] = f
Seen == {f \in FileIds : Listed(f) \/ Pictured(f)}
Stored(f) == f \in row /\ blob[f] = "whole"

(* Whatever the database shows - an item, an attachment, a background, an  *)
(* avatar - has its row in files and its whole blob on disk, whichever     *)
(* uploads, replacements and deletions overlap, whichever of their steps   *)
(* fails and wherever the server dies: projects.js:431 prefers a leftover  *)
(* blob to a dangling row.                                                 *)
ShownIsStored == \A f \in Seen : Stored(f)

(* To users all of it looks like FileShelf: an upload appears whole, a     *)
(* picture is replaced and a project deleted in one step, and nothing      *)
(* taken away comes back.                                                  *)
Readable == {f \in Seen : Stored(f)}
Shelf == INSTANCE FileShelf WITH Files <- FileIds, readable <- Readable
LooksAtomic == Shelf!Spec

-----------------------------------------------------------------------------
(* One request at a time, no failing step.                                 *)

(* Whether a behaviour runs one request at a time: chosen at its start.    *)
VARIABLE alone

(* A project with a background is not deleted either: its cascade does not *)
(* collect the background, so what it leaves behind is known.              *)
Quiet ==
  /\ faults = 0 /\ crashes = 0
  /\ \A r, q \in Requests : r = q \/ At(r, "idle") \/ At(q, "idle")
  /\ \A r \in Requests :
       req[r].pc \in {"cascade_storage", "cascade_attachments", "cascade_commit"} =>
         slot[req[r].target] = NoFile

ModeInit == Init /\ alone \in BOOLEAN
ModeNext == Next /\ UNCHANGED alone /\ (alone => Quiet')
ModeSpec == ModeInit /\ [][ModeNext]_<<vars, alone>>

AllIdle == \A r \in Requests : At(r, "idle")

(* Nothing is left on disk or in files that nothing refers to: projects.js *)
(* :348 and account.js:470 want no orphaned blob behind.                   *)
NothingLeftBehind ==
  AllIdle => \A f \in FileIds : f \in row \/ blob[f] # "none" => f \in Seen

(* One handler at a time leaves no orphan.                                 *)
NothingLeftWhenAlone == alone => NothingLeftBehind
=============================================================================
