------------------------------- MODULE Uploads -------------------------------
(***************************************************************************)
(* The files behind the rows: the pictures of merchants, categories and     *)
(* products (src/src/modules/merchants/merchants.service.ts) and the        *)
(* drivers' documents (src/src/modules/kyc/kyc.service.ts).                 *)
(*                                                                         *)
(* A request's file is on the disk before its handler runs.  The handler    *)
(* makes the row name it and removes the file it replaces: for a picture    *)
(* after the row is saved, and the new one instead if the save fails; for a *)
(* document before.  Merchants also edit the rows of their pictures with    *)
(* the load and save() of module TypeOrm; the body of a product may give    *)
(* its image by hand, any string.  What else they edit is left out.         *)
(***************************************************************************)
EXTENDS FiniteSets, TypeOrm

CONSTANTS
    Pictures,   \* rows of merchants, product_categories and products
    Products,   \* the pictures of products
    Documents,  \* a driver and a kind of document
    Files,      \* file names; a new one is random
    Calls,      \* slots for concurrent requests
    NULL        \* no file

Slots == Pictures \cup Documents

\* What the constants may be.
UploadsAssumption ==
    /\ NULL \notin Files \cup Slots
    /\ Pictures \cap Documents = {} /\ Products \subseteq Pictures

VARIABLES
    rows,    \* the row of each slot
    disk,    \* the files there are
    calls,   \* the handlers in flight
    blamed,  \* history: the files of uploads that were turned down or died, or
             \* whose document could not be saved
    byHand   \* history: the files that edits named by hand, and those they took
             \* the place of

vars == <<rows, disk, calls, blamed, byHand>>

\* A call: where it is, its slot, the file that came with it, the one it
\* replaces, the entity it holds and the columns to write.
Idle == [pc |-> "idle", slot |-> NULL, file |-> NULL, previous |-> NULL,
         copy |-> NULL, dirty |-> {}]

At(c, pc) == calls[c].pc = pc
Become(c, call) == calls' = [calls EXCEPT ![c] = call]

Named == {rows[s].file : s \in Slots} \ {NULL}

\* The files a call would leave behind.
Carried(call) == {call.file, call.previous} \ {NULL}

\* Names nobody uses.
Fresh == Files \ (disk \cup Named \cup blamed \cup byHand \cup
                  UNION {Carried(calls[c]) : c \in Calls})

\* The request's file is stored.
Upload(c, s, f) ==
    /\ At(c, "idle")
    /\ f \in Fresh
    /\ disk' = disk \cup {f}
    /\ Become(c, [Idle EXCEPT !.pc = "find", !.slot = s, !.file = f])
    /\ UNCHANGED <<rows, blamed, byHand>>

\* The file is not acceptable, or ownedMerchant() finds no merchant: the file
\* stays.
TurnDown(c) ==
    /\ At(c, "find")
    /\ blamed' = blamed \cup {calls[c].file}
    /\ Become(c, Idle)
    /\ UNCHANGED <<rows, disk, byHand>>

(***************************************************************************)
(* saveLogo(), saveCategoryImage() and saveProductImage().                  *)
(***************************************************************************)

\* The request names no merchant of the user, or no row of the merchant.
NotFound(c) ==
    /\ At(c, "find")
    /\ calls[c].slot \in Pictures
    /\ Become(c, [calls[c] EXCEPT !.pc = "undo"])
    /\ UNCHANGED <<rows, disk, blamed, byHand>>

\* Mutant of LoadPicture: the old file is removed first, as a document's is.
LoadPictureRemoving(c) ==
    LET call == calls[c] IN
    /\ At(c, "find")
    /\ call.slot \in Pictures
    /\ Become(c, [call EXCEPT !.pc = "remove first",
                              !.previous = rows[call.slot].file,
                              !.copy = [file |-> call.file]])
    /\ UNCHANGED <<rows, disk, blamed, byHand>>

LoadPicture(c) ==
    LET call == calls[c] IN
    /\ At(c, "find")
    /\ call.slot \in Pictures
    /\ Become(c, [call EXCEPT !.pc = "reload", !.previous = rows[call.slot].file,
                              !.copy = [file |-> call.file]])
    /\ UNCHANGED <<rows, disk, blamed, byHand>>

\* updateStorefront(), updateCategory(), updateProduct() and update(): only
\* the body of a product has an image (catalog.dto.ts), which createProduct()
\* takes as well.
EditRead(c, s, file) ==
    LET old == rows[s].file IN
    /\ At(c, "idle")
    /\ file = old \/ s \in Products
    /\ Become(c, [Idle EXCEPT !.pc = "reload", !.slot = s,
                              !.copy = [file |-> file]])
    /\ byHand' = IF file = old THEN byHand ELSE byHand \cup ({old, file} \ {NULL})
    /\ UNCHANGED <<rows, disk, blamed>>

\* Take a file away; one that is not there is no error.
RemovePrevious(c) ==
    /\ At(c, "remove")
    /\ disk' = disk \ {calls[c].previous}
    /\ Become(c, Idle)
    /\ UNCHANGED <<rows, blamed, byHand>>

\* Mutant of Undo: the new file stays.
UndoNothing(c) ==
    /\ At(c, "undo")
    /\ Become(c, Idle)
    /\ UNCHANGED <<rows, disk, blamed, byHand>>

Undo(c) ==
    /\ At(c, "undo")
    /\ disk' = disk \ {calls[c].file}
    /\ Become(c, Idle)
    /\ UNCHANGED <<rows, blamed, byHand>>

(***************************************************************************)
(* saveDocument(), after the driver's profile.                              *)
(***************************************************************************)
LoadDocument(c) ==
    LET call == calls[c]
        previous == rows[call.slot].file
    IN  /\ At(c, "find")
        /\ call.slot \in Documents
        /\ Become(c, [call EXCEPT
               !.pc = IF previous = NULL THEN "insert" ELSE "remove first",
               !.previous = previous, !.copy = [file |-> call.file]])
        /\ UNCHANGED <<rows, disk, blamed, byHand>>

\* The first document of its kind; the unique index refuses a second.
Insert(c) ==
    LET call == calls[c] IN
    /\ At(c, "insert")
    /\ rows[call.slot].file = NULL
    /\ rows' = [rows EXCEPT ![call.slot] = call.copy]
    /\ Become(c, Idle)
    /\ UNCHANGED <<disk, blamed, byHand>>

RemoveFirst(c) ==
    /\ At(c, "remove first")
    /\ disk' = disk \ {calls[c].previous}
    /\ Become(c, [calls[c] EXCEPT !.pc = "reload"])
    /\ UNCHANGED <<rows, blamed, byHand>>

(***************************************************************************)
(* save()                                                                   *)
(***************************************************************************)
SaveReload(c) ==
    LET call == calls[c] IN
    /\ At(c, "reload")
    /\ Become(c, [call EXCEPT !.pc = "write",
                    !.dirty = DirtyColumns(call.copy, rows[call.slot])])
    /\ UNCHANGED <<rows, disk, blamed, byHand>>

\* The catalog's functions go on to remove the file they replaced.
AfterSave(call) ==
    IF call.slot \in Pictures /\ call.file # NULL /\ call.previous # NULL
    THEN [call EXCEPT !.pc = "remove"] ELSE Idle

SaveWrite(c) ==
    LET call == calls[c] IN
    /\ At(c, "write")
    /\ rows' = [rows EXCEPT ![call.slot] = SavedRow(@, call.copy, call.dirty)]
    /\ Become(c, AfterSave(call))
    /\ UNCHANGED <<disk, blamed, byHand>>

\* The database fails: the catalog's uploads remove the new file.
SaveFails(c) ==
    LET call == calls[c] IN
    /\ call.pc \in {"reload", "write", "insert"}
    /\ IF call.slot \in Pictures
       THEN /\ Become(c, IF call.file = NULL THEN Idle
                         ELSE [call EXCEPT !.pc = "undo"])
            /\ UNCHANGED blamed
       ELSE /\ Become(c, Idle)
            /\ blamed' = blamed \cup Carried(call)
    /\ UNCHANGED <<rows, disk, byHand>>

-----------------------------------------------------------------------------

\* The process dies.
Crash ==
    /\ calls' = [c \in Calls |-> Idle]
    /\ blamed' = blamed \cup UNION {Carried(calls[c]) : c \in Calls}
    /\ UNCHANGED <<rows, disk, byHand>>

Init ==
    /\ rows = [s \in Slots |-> [file |-> NULL]]
    /\ disk = {}
    /\ calls = [c \in Calls |-> Idle]
    /\ blamed = {} /\ byHand = {}

Next ==
    \/ \E c \in Calls, s \in Slots, f \in Files : Upload(c, s, f)
    \/ \E c \in Calls, s \in Pictures, file \in Files \cup {NULL} :
          EditRead(c, s, file)
    \/ \E c \in Calls :
          \/ TurnDown(c) \/ NotFound(c) \/ LoadPicture(c) \/ LoadDocument(c)
          \/ Insert(c) \/ RemoveFirst(c) \/ SaveReload(c) \/ SaveWrite(c)
          \/ SaveFails(c) \/ RemovePrevious(c) \/ Undo(c)
    \/ Crash

Spec == Init /\ [][Next]_vars

=============================================================================
