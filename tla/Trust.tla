-------------------------------- MODULE Trust --------------------------------
(***************************************************************************)
(* How far a driver is trusted: the review of the driver's documents        *)
(* (src/src/modules/kyc/kyc.service.ts), the guarantors and partner         *)
(* companies that vouch for drivers, and the level computed from both       *)
(* (src/src/modules/trust/trust.service.ts), which rides read (Rides).      *)
(*                                                                         *)
(* The level is a column of the driver's profile.  Whatever may change it   *)
(* is saved first and the level is refreshed after, in statements of their  *)
(* own; after an approval, in a listener nobody awaits.  Handlers are cut   *)
(* at every await, any of which may be their last, and save() is that of    *)
(* TypeOrm.                                                                 *)
(*                                                                         *)
(* The vehicle's columns count as filled in or not.  Every driver has a     *)
(* profile already, and the files behind the documents are in Uploads.      *)
(***************************************************************************)
EXTENDS Naturals, TypeOrm

CONSTANTS
    Drivers,     \* drivers, and their profiles
    Guarantors,  \* guarantors
    Companies,   \* partner companies
    Required,    \* kinds of documents a driver must provide
    Calls,       \* slots for concurrent requests and listeners
    NULL         \* SQL NULL

Sponsors == Guarantors \cup Companies

\* What the constants may be.
TrustAssumption ==
    /\ NULL \notin Drivers \cup Sponsors \cup Nat
    /\ Guarantors \cap Companies = {}
    /\ Drivers \cap Sponsors = {}

VARIABLES
    rows,       \* the driver_profiles, guarantors and partner_companies tables
    documents,  \* the kinds of documents each driver has uploaded
    calls,      \* the handlers in flight
    cleared,    \* history: drivers whose last assignment named no sponsor
    missed      \* history: drivers whose level a call was to refresh and did not

vars == <<rows, documents, calls, cleared, missed>>

Profile == [kyc : {"pending", "submitted", "approved", "rejected"},
            filled : BOOLEAN, guarantor : Guarantors \cup {NULL},
            company : Companies \cup {NULL}, level : 0..3]

NewProfile == [kyc |-> "pending", filled |-> FALSE, guarantor |-> NULL,
               company |-> NULL, level |-> 0]

\* A guarantor must be verified and active, a company (which nobody verifies)
\* active.
Sponsor == [verified : BOOLEAN, active : BOOLEAN]

(***************************************************************************)
(* A call: where it is, the row it is about, the entity it holds, the       *)
(* columns to write and those that became undefined, where it goes after    *)
(* the save, the drivers still to refresh, and the status, document or      *)
(* level it is to store.                                                    *)
(***************************************************************************)
Idle == [pc |-> "idle", id |-> NULL, copy |-> NULL, dirty |-> {},
         undefined |-> {}, then |-> "idle", todo |-> {}, goal |-> NULL]

At(c, pc) == calls[c].pc = pc
Become(c, call) == calls' = [calls EXCEPT ![c] = call]

\* A save of the entity; afterwards the call goes on at then.
Saving(id, copy, then) ==
    [Idle EXCEPT !.pc = "reload", !.id = id, !.copy = copy, !.then = then]

(***************************************************************************)
(* The driver's file.                                                       *)
(***************************************************************************)

\* reopenRejected()
Reopened(profile) ==
    IF profile.kyc = "rejected" THEN [profile EXCEPT !.kyc = "pending"]
    ELSE profile

\* updateProfile(): blanks pass the checks of the request and are trimmed.
UpdateProfileRead(c, d, filled) ==
    /\ At(c, "idle")
    /\ Become(c, Saving(d, [Reopened(rows[d]) EXCEPT !.filled = filled], "idle"))
    /\ UNCHANGED <<rows, documents, cleared, missed>>

\* saveDocument(): a rejected profile is saved first.
UploadRead(c, d, doc) ==
    LET copy == Reopened(rows[d]) IN
    /\ At(c, "idle")
    /\ Become(c, [Saving(d, copy, "store") EXCEPT
                     !.pc = IF copy = rows[d] THEN "store" ELSE "reload",
                     !.goal = doc])
    /\ UNCHANGED <<rows, documents, cleared, missed>>

\* One row per driver and kind: the new one, or the old one with a new file.
Store(c) ==
    /\ At(c, "store")
    /\ documents' = [documents EXCEPT ![calls[c].id] = @ \cup {calls[c].goal}]
    /\ Become(c, Idle)
    /\ UNCHANGED <<rows, cleared, missed>>

\* Mutant of SubmitRead: an approved driver may submit again.
SubmitReadAgain(c, d) ==
    /\ At(c, "idle")
    /\ Become(c, [Idle EXCEPT !.pc = "check", !.id = d, !.copy = rows[d],
                              !.goal = "submitted"])
    /\ UNCHANGED <<rows, documents, cleared, missed>>

\* submit() up to its look at the documents.
SubmitRead(c, d) ==
    /\ At(c, "idle")
    /\ rows[d].kyc # "approved"
    /\ Become(c, [Idle EXCEPT !.pc = "check", !.id = d, !.copy = rows[d],
                              !.goal = "submitted"])
    /\ UNCHANGED <<rows, documents, cleared, missed>>

\* review(): a rejection is saved at once, an approval looks again.
ReviewRead(c, d, approve) ==
    /\ At(c, "idle")
    /\ rows[d].kyc = "submitted"
    /\ Become(c, IF approve
                 THEN [Idle EXCEPT !.pc = "check", !.id = d, !.copy = rows[d],
                                   !.goal = "approved"]
                 ELSE Saving(d, [rows[d] EXCEPT !.kyc = "rejected"], "idle"))
    /\ UNCHANGED <<rows, documents, cleared, missed>>

\* Mutant of Complete: the documents are not looked at.
CompleteOnPaper(profile, present) == profile.filled

\* assertComplete(): the others throw.
Complete(profile, present) == profile.filled /\ Required \subseteq present

\* The documents have been read.
Check(c) ==
    LET call == calls[c]
        copy == [call.copy EXCEPT !.kyc = call.goal]
    IN  /\ At(c, "check")
        /\ IF ~Complete(call.copy, documents[call.id]) THEN Become(c, Idle)
           ELSE IF call.goal = "approved"
           THEN Become(c, [Saving(call.id, copy, "grant") EXCEPT
                              !.todo = {call.id}])
           ELSE Become(c, Saving(call.id, copy, "idle"))
        /\ UNCHANGED <<rows, documents, cleared, missed>>

\* After an approval is saved the user is loaded and given the driver's role,
\* and only then is kyc.approved emitted, whose listener refreshes the level.
Grant(c) ==
    /\ At(c, "grant")
    /\ Become(c, [calls[c] EXCEPT !.pc = "refresh"])
    /\ UNCHANGED <<rows, documents, cleared, missed>>

(***************************************************************************)
(* The administrator.                                                       *)
(***************************************************************************)

\* verifyGuarantor(), updateGuarantor() and updateCompany().
ChangeSponsorRead(c, s, verified, active) ==
    /\ At(c, "idle")
    /\ s \in Companies => verified = rows[s].verified
    /\ Become(c, Saving(s, [verified |-> verified, active |-> active],
                        "referred"))
    /\ UNCHANGED <<rows, documents, cleared, missed>>

\* Mutant of Linked: the drivers of a company are forgotten.
LinkedByGuarantor(s) == {d \in Drivers : rows[d].guarantor = s}

\* refreshReferredDrivers() and refreshCompanyDrivers()
Linked(s) == {d \in Drivers : rows[d].guarantor = s \/ rows[d].company = s}

FindReferred(c) ==
    LET drivers == Linked(calls[c].id) IN
    /\ At(c, "referred")
    /\ Become(c, IF drivers = {} THEN Idle
                 ELSE [Idle EXCEPT !.pc = "refresh", !.todo = drivers])
    /\ UNCHANGED <<rows, documents, cleared, missed>>

\* A link the request leaves out.
Omitted == "omitted"

\* The entity's link: what was loaded if it is left out.
Link(loaded, given) == IF given = Omitted THEN loaded ELSE given

\* assign(): a null becomes undefined, which save() does not write.
AssignRead(c, d, guarantor, company) ==
    LET copy == [rows[d] EXCEPT !.guarantor = Link(@, guarantor),
                                !.company = Link(@, company)]
        nulls == (IF guarantor = NULL THEN {"guarantor"} ELSE {})
                     \cup (IF company = NULL THEN {"company"} ELSE {})
    IN  /\ At(c, "idle")
        /\ Become(c, [Saving(d, copy, "refresh")
                      EXCEPT !.undefined = nulls, !.todo = {d}])
        /\ cleared' = IF {guarantor, company} \cap Sponsors = {}
                      THEN cleared \cup {d} ELSE cleared \ {d}
        /\ UNCHANGED <<rows, documents, missed>>

(***************************************************************************)
(* save().                                                                  *)
(***************************************************************************)
SaveReload(c) ==
    LET call == calls[c] IN
    /\ At(c, "reload")
    /\ Become(c, [call EXCEPT !.pc = "write",
                    !.dirty = DirtyColumns(call.copy, rows[call.id])
                                  \ call.undefined])
    /\ UNCHANGED <<rows, documents, cleared, missed>>

SaveWrite(c) ==
    LET call == calls[c] IN
    /\ At(c, "write")
    /\ rows' = [rows EXCEPT ![call.id] = SavedRow(@, call.copy, call.dirty)]
    /\ Become(c, IF call.then = "idle" THEN Idle
                 ELSE [Idle EXCEPT !.pc = call.then, !.todo = call.todo,
                                   !.goal = call.goal, !.id = call.id])
    /\ UNCHANGED <<documents, cleared, missed>>

(***************************************************************************)
(* refreshTrustLevel(), of each driver in todo.                             *)
(***************************************************************************)

\* The next driver, if any.
Rest(call) ==
    IF call.todo = {} THEN Idle
    ELSE [Idle EXCEPT !.pc = "refresh", !.todo = call.todo]

\* The level is known: save it if it is another one.
Conclude(call, level) ==
    IF call.copy.level = level THEN Rest(call)
    ELSE [Saving(call.id, [call.copy EXCEPT !.level = level],
                 Rest(call).pc) EXCEPT !.todo = call.todo, !.goal = "level"]

\* Without a sponsor the level is that of the documents.
FromDocuments(profile) == IF profile.kyc = "approved" THEN 1 ELSE 0

\* computeTrustLevel() after the company: the guarantor, if the driver has one.
AskGuarantor(call) ==
    IF call.copy.guarantor # NULL THEN [call EXCEPT !.pc = "guarantor"]
    ELSE Conclude(call, FromDocuments(call.copy))

RefreshRead(c, d) ==
    LET call == [calls[c] EXCEPT !.pc = "company", !.id = d, !.copy = rows[d],
                                 !.todo = @ \ {d}]
    IN  /\ At(c, "refresh")
        /\ d \in calls[c].todo
        /\ Become(c, IF rows[d].company # NULL THEN call ELSE AskGuarantor(call))
        /\ missed' = missed \ {d}
        /\ UNCHANGED <<rows, documents, cleared>>

Vouches(s) == rows[s].verified /\ rows[s].active

ReadCompany(c) ==
    /\ At(c, "company")
    /\ Become(c, IF Vouches(calls[c].copy.company) THEN Conclude(calls[c], 3)
                 ELSE AskGuarantor(calls[c]))
    /\ UNCHANGED <<rows, documents, cleared, missed>>

ReadGuarantor(c) ==
    LET copy == calls[c].copy IN
    /\ At(c, "guarantor")
    /\ Become(c, Conclude(calls[c], IF Vouches(copy.guarantor) THEN 2
                                    ELSE FromDocuments(copy)))
    /\ UNCHANGED <<rows, documents, cleared, missed>>

(***************************************************************************)
(* Calls that fail.                                                         *)
(***************************************************************************)

\* The drivers whose level the call has yet to make that of the saved rows.
Owed(call) ==
    CASE call.pc = "referred" -> Linked(call.id)
      [] call.pc \in {"grant", "refresh"} -> call.todo
      [] \/ call.pc \in {"company", "guarantor"}
         \/ call.pc \in {"reload", "write"} /\ call.goal = "level" ->
             {call.id} \cup call.todo
      [] OTHER -> {}

\* A statement throws, or the process dies: what is saved stays, and nobody
\* takes up the rest (an assignment cut short has promised nothing).
Die(c) ==
    /\ ~At(c, "idle")
    /\ Become(c, Idle)
    /\ missed' = missed \cup Owed(calls[c])
    /\ cleared' = cleared \ {calls[c].id}
    /\ UNCHANGED <<rows, documents>>

-----------------------------------------------------------------------------

Init ==
    /\ rows = [x \in Drivers \cup Sponsors |->
                  IF x \in Drivers THEN NewProfile
                  ELSE [verified |-> x \in Companies, active |-> x \in Guarantors]]
    /\ documents = [d \in Drivers |-> {}]
    /\ calls = [c \in Calls |-> Idle]
    /\ cleared = {}
    /\ missed = {}

\* The next step of a handler in flight.
Step(c) ==
    \/ Store(c) \/ Check(c) \/ Grant(c) \/ FindReferred(c)
    \/ SaveReload(c) \/ SaveWrite(c)
    \/ \E d \in Drivers : RefreshRead(c, d)
    \/ ReadCompany(c) \/ ReadGuarantor(c)

Next ==
    \/ \E c \in Calls, d \in Drivers :
          \/ \E filled \in BOOLEAN : UpdateProfileRead(c, d, filled)
          \/ \E doc \in Required : UploadRead(c, d, doc)
          \/ SubmitRead(c, d)
          \/ \E approve \in BOOLEAN : ReviewRead(c, d, approve)
          \/ \E g \in Guarantors \cup {NULL, Omitted},
                m \in Companies \cup {NULL, Omitted} : AssignRead(c, d, g, m)
    \/ \E c \in Calls, s \in Sponsors, verified, active \in BOOLEAN :
          ChangeSponsorRead(c, s, verified, active)
    \/ \E c \in Calls : Step(c) \/ Die(c)

Spec == Init /\ [][Next]_vars

Fairness == \A c \in Calls : WF_vars(Step(c))

=============================================================================
