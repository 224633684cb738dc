------------------------------ MODULE Payments ------------------------------
(***************************************************************************)
(* Mobile-money payments (src/src/modules/payments): the transactions and   *)
(* events tables, the handlers of payments.service.ts, and the provider as  *)
(* the adapter interface and the console adapter show it.                   *)
(*                                                                         *)
(* As in Rides, a handler is a call with a program counter and one action   *)
(* per stretch between two awaits that touch shared state.  Two unique      *)
(* indexes of the migration matter: one on the idempotency key, one on the  *)
(* provider's event id.                                                     *)
(*                                                                         *)
(* The provider is outside the process.  Its ledger is durable; it may      *)
(* answer late or never (the call throws although the request arrived); it  *)
(* sends a callback for a status as often as it likes and in any order.     *)
(* The in-memory map of the console adapter stands for that ledger; that    *)
(* the map is lost on a restart of a development machine is not modelled.   *)
(***************************************************************************)
EXTENDS Naturals, TypeOrm

CONSTANTS
    Keys,       \* idempotency keys clients send
    Calls,      \* slots for concurrent requests
    NULL,       \* SQL NULL / undefined
    Notices,    \* statuses the provider sends callbacks for
    LosesAnswers, \* may the provider's answer to a request be lost?
    CallbacksArrive, \* do callbacks get past the controller?
    MaxAborts   \* bound: calls that fail or die half-way

ASSUME NoticesAssumption == Notices \subseteq {"PROCESSING", "PAID", "FAILED"}
ASSUME LossAssumption == LosesAnswers \in BOOLEAN
ASSUME ArrivalAssumption == CallbacksArrive \in BOOLEAN
ASSUME MaxAbortsAssumption == MaxAborts \in Nat

(***************************************************************************)
(* A transaction is named by its idempotency key: the client's own, or      *)
(* REFUND_<key> for the refund of the transaction with that key.  Every     *)
(* request the service sends to the provider is for one transaction, and    *)
(* the provider's reference for it is named after that transaction.         *)
(***************************************************************************)
Txs == Keys \X {"own", "refund"}
Own(k) == <<k, "own">>
Refund(k) == <<k, "refund">>

ASSUME PaymentsNullAssumption == NULL \notin Txs \cup Keys

VARIABLES
    txs,      \* payment_transactions
    inbox,    \* payment_events: the provider events stored
    calls,    \* the handlers in flight
    ledger,   \* the provider's status of each of its references
    sent,     \* callbacks the provider has sent at least once
    acked,    \* history: callbacks answered with 200
    requests, \* history: requests for money the provider got, per transaction
    aborts,   \* how many calls have died or failed half-way
    thrown    \* history: has the save of a provider's answer thrown?

vars == <<txs, inbox, calls, ledger, sent, acked, requests, aborts, thrown>>

TxStatuses == {"none", "PENDING", "PROCESSING", "PAID", "FAILED",
               "REFUND_PENDING", "REFUNDED"}
Directions == {"COLLECTION", "PAYOUT", "REFUND"}

\* A row; status "none" stands for a key not inserted yet.
TxRow == [status : TxStatuses, ref : Txs \cup {NULL}, direction : Directions]
NoTx == [status |-> "none", ref |-> NULL, direction |-> "COLLECTION"]

Event == [ref : Txs, status : Notices]

PCs == {"idle", "insert", "provider", "reload", "write",
        "event_check", "event_save", "query"}

\* A call: where it is, its transaction, the entity it holds, the columns
\* save() decided to write, the callback it handles, and whether it is inside
\* the try block around the provider.
Call == [pc : PCs, tx : Txs \cup {NULL}, copy : TxRow,
         dirty : SUBSET DOMAIN NoTx, event : Event \cup {NULL},
         guarded : BOOLEAN]

Idle == [pc |-> "idle", tx |-> NULL, copy |-> NoTx, dirty |-> {},
         event |-> NULL, guarded |-> FALSE]

At(c, pc) == calls[c].pc = pc
Become(c, call) == calls' = [calls EXCEPT ![c] = call]

(***************************************************************************)
(* initiateCollection(), initiatePayout(), refundCollection(): look for an  *)
(* earlier transaction, insert, ask the provider, save its answer.          *)
(***************************************************************************)
\* A repeated key returns the earlier row, so only a new one goes on.
Initiate(c, k, direction) ==
    /\ At(c, "idle")
    /\ txs[Own(k)].status = "none"
    /\ Become(c, [Idle EXCEPT !.pc = "insert", !.tx = Own(k),
                    !.copy = [NoTx EXCEPT !.status = "PENDING",
                                          !.direction = direction]])
    /\ UNCHANGED <<txs, inbox, ledger, sent, acked, requests, aborts, thrown>>

\* Mutant of RefundStart: the status of the original is not checked.
RefundStartUnpaid(c, k) ==
    /\ At(c, "idle")
    /\ txs[Own(k)].ref # NULL
    /\ txs[Refund(k)].status = "none"
    /\ Become(c, [Idle EXCEPT !.pc = "insert", !.tx = Refund(k),
                    !.copy = [NoTx EXCEPT !.status = "REFUND_PENDING",
                                          !.direction = "REFUND"]])
    /\ UNCHANGED <<txs, inbox, ledger, sent, acked, requests, aborts, thrown>>

\* The original is looked at, then whether it has a refund: no row is ever
\* deleted, so both reads may be taken at the first.
RefundStart(c, k) ==
    /\ At(c, "idle")
    /\ txs[Own(k)].status = "PAID"
    /\ txs[Refund(k)].status = "none"
    /\ Become(c, [Idle EXCEPT !.pc = "insert", !.tx = Refund(k),
                    !.copy = [NoTx EXCEPT !.status = "REFUND_PENDING",
                                          !.direction = "REFUND"]])
    /\ UNCHANGED <<txs, inbox, ledger, sent, acked, requests, aborts, thrown>>

\* Mutant of Insert: no unique index on the idempotency key.
InsertAnyway(c) ==
    /\ At(c, "insert")
    /\ txs' = [txs EXCEPT ![calls[c].tx] = calls[c].copy]
    /\ Become(c, [calls[c] EXCEPT !.pc = "provider"])
    /\ UNCHANGED <<inbox, ledger, sent, acked, requests, aborts, thrown>>

\* INSERT; the unique index makes the second of two racing calls throw.
Insert(c) ==
    /\ At(c, "insert")
    /\ IF txs[calls[c].tx].status = "none"
       THEN /\ txs' = [txs EXCEPT ![calls[c].tx] = calls[c].copy]
            /\ Become(c, [calls[c] EXCEPT !.pc = "provider"])
       ELSE /\ Become(c, Idle)
            /\ UNCHANGED txs
    /\ UNCHANGED <<inbox, ledger, sent, acked, requests, aborts, thrown>>

\* Mutant of Answered: the answer's status is taken as final.
AnsweredPaid(c, ref, status) ==
    Become(c, [calls[c] EXCEPT !.pc = "reload", !.guarded = TRUE,
                 !.copy.ref = ref,
                 !.copy.status = IF status = "PROCESSING" THEN "PAID" ELSE status])

\* The provider's answer goes into the entity, which is saved in the try block.
Answered(c, ref, status) ==
    Become(c, [calls[c] EXCEPT !.pc = "reload", !.guarded = TRUE,
                               !.copy.ref = ref, !.copy.status = status])

\* What the catch block saves: FAILED.
Failed(c) ==
    Become(c, [calls[c] EXCEPT !.pc = "reload", !.guarded = FALSE,
                               !.copy.status = "FAILED"])

\* A collection or payout reaches the provider, which takes it or declines;
\* its answer may be lost.
ProviderTakes(c) ==
    LET t == calls[c].tx IN
    /\ At(c, "provider")
    /\ calls[c].copy.direction # "REFUND"
    /\ requests' = [requests EXCEPT ![t] = @ + 1]
    /\ \E status \in {"PROCESSING", "FAILED"} :
          /\ ledger' = [ledger EXCEPT ![t] = status]
          /\ Answered(c, t, status) \/ (LosesAnswers /\ Failed(c))
    /\ UNCHANGED <<txs, inbox, sent, acked, aborts, thrown>>

\* A refund: paid back when the provider has the original as PAID.
ProviderRefunds(c) ==
    LET t == calls[c].tx
        original == txs[Own(t[1])].ref
    IN  /\ At(c, "provider")
        /\ calls[c].copy.direction = "REFUND"
        /\ requests' = [requests EXCEPT ![t] = @ + 1]
        /\ IF ledger[original] = "PAID"
           THEN /\ ledger' = [ledger EXCEPT ![t] = "REFUNDED"]
                /\ Answered(c, t, "REFUNDED") \/ (LosesAnswers /\ Failed(c))
           ELSE /\ Answered(c, original, "FAILED")
                /\ UNCHANGED ledger
        /\ UNCHANGED <<txs, inbox, sent, acked, aborts, thrown>>

(***************************************************************************)
(* save(entity), as in TypeOrm: the SELECT, then the UPDATE.                *)
(***************************************************************************)
SaveReload(c) ==
    /\ At(c, "reload")
    /\ Become(c, [calls[c] EXCEPT !.pc = "write",
                    !.dirty = DirtyColumns(calls[c].copy, txs[calls[c].tx])])
    /\ UNCHANGED <<txs, inbox, ledger, sent, acked, requests, aborts, thrown>>

SaveWrite(c) ==
    LET t == calls[c].tx IN
    /\ At(c, "write")
    /\ txs' = [txs EXCEPT ![t] = SavedRow(@, calls[c].copy, calls[c].dirty)]
    /\ acked' = acked \cup ({calls[c].event} \ {NULL})
    /\ Become(c, Idle)
    /\ UNCHANGED <<inbox, ledger, sent, requests, aborts, thrown>>

\* A save in the try block throws: the catch block saves FAILED instead.
SaveThrows(c) ==
    /\ At(c, "reload")
    /\ calls[c].guarded
    /\ aborts < MaxAborts
    /\ aborts' = aborts + 1
    /\ thrown' = TRUE
    /\ Failed(c)
    /\ UNCHANGED <<txs, inbox, ledger, sent, acked, requests>>

(***************************************************************************)
(* handleCallback(): find the transaction by the provider's reference, then *)
(* the event in the inbox; store the event; save the status if it differs   *)
(* from the loaded one.  A callback for an unknown reference is answered    *)
(* 404 and changes nothing.                                                 *)
(*                                                                         *)
(* The controller is in the way.  All its routes are behind JwtAuthGuard,   *)
(* which answers a provider 401; and as main.ts does not ask for raw        *)
(* bodies, a caller with a token is taken to have sent an empty one, about  *)
(* a reference nobody knows: 404.  CallbacksArrive says whether callbacks   *)
(* get through, as the controller's comment has it; as deployed, none does. *)
(***************************************************************************)
CallbackFind(c, e) ==
    /\ CallbacksArrive
    /\ At(c, "idle")
    /\ e \in sent
    /\ \E t \in Txs :
          /\ txs[t].ref = e.ref
          /\ Become(c, [Idle EXCEPT !.pc = "event_check", !.tx = t,
                                    !.copy = txs[t], !.event = e])
    /\ UNCHANGED <<txs, inbox, ledger, sent, acked, requests, aborts, thrown>>

CallbackCheck(c) ==
    LET e == calls[c].event IN
    /\ At(c, "event_check")
    /\ IF e \in inbox
       THEN /\ acked' = acked \cup {e}
            /\ Become(c, Idle)
       ELSE /\ Become(c, [calls[c] EXCEPT !.pc = "event_save"])
            /\ UNCHANGED acked
    /\ UNCHANGED <<txs, inbox, ledger, sent, requests, aborts, thrown>>

\* Mutant of CallbackStore: no unique index on the provider's event id.
CallbackStoreAnyway(c) ==
    LET e == calls[c].event IN
    /\ At(c, "event_save")
    /\ inbox' = inbox \cup {e}
    /\ Become(c, [calls[c] EXCEPT !.pc = "reload", !.copy.status = e.status])
    /\ UNCHANGED <<txs, ledger, sent, acked, requests, aborts, thrown>>

\* The unique index makes the second of two racing deliveries throw.
CallbackStore(c) ==
    LET e == calls[c].event IN
    /\ At(c, "event_save")
    /\ inbox' = inbox \cup {e}
    /\ IF e \in inbox
       THEN /\ Become(c, Idle)
            /\ UNCHANGED acked
       ELSE IF e.status = calls[c].copy.status
            THEN /\ acked' = acked \cup {e}
                 /\ Become(c, Idle)
            ELSE /\ Become(c, [calls[c] EXCEPT !.pc = "reload",
                                               !.copy.status = e.status])
                 /\ UNCHANGED acked
    /\ UNCHANGED <<txs, ledger, sent, requests, aborts, thrown>>

(***************************************************************************)
(* queryTransaction(): ask the provider and save its status if it differs   *)
(* from the loaded one.  No route and no timer calls it yet.                *)
(***************************************************************************)
QueryFind(c, t) ==
    /\ At(c, "idle")
    /\ txs[t].ref # NULL
    /\ Become(c, [Idle EXCEPT !.pc = "query", !.tx = t, !.copy = txs[t]])
    /\ UNCHANGED <<txs, inbox, ledger, sent, acked, requests, aborts, thrown>>

QueryProvider(c) ==
    LET known == ledger[calls[c].copy.ref] IN
    /\ At(c, "query")
    /\ Become(c, IF known = calls[c].copy.status THEN Idle
                 ELSE [calls[c] EXCEPT !.pc = "reload",
                                       !.copy.status = known])
    /\ UNCHANGED <<txs, inbox, ledger, sent, acked, requests, aborts, thrown>>

(***************************************************************************)
(* The provider and the environment.                                        *)
(***************************************************************************)
ProviderSettles(t) ==
    /\ ledger[t] = "PROCESSING"
    /\ \E status \in {"PAID", "FAILED"} :
          ledger' = [ledger EXCEPT ![t] = status]
    /\ UNCHANGED <<txs, inbox, calls, sent, acked, requests, aborts, thrown>>

ProviderNotifies(t) ==
    /\ ledger[t] \in Notices
    /\ sent' = sent \cup {[ref |-> t, status |-> ledger[t]]}
    /\ UNCHANGED <<txs, inbox, calls, ledger, acked, requests, aborts, thrown>>

\* A query outside the try block throws, or the process dies.
Abort(c) ==
    /\ ~At(c, "idle")
    /\ aborts < MaxAborts
    /\ aborts' = aborts + 1
    /\ Become(c, Idle)
    /\ UNCHANGED <<txs, inbox, ledger, sent, acked, requests, thrown>>

-----------------------------------------------------------------------------

Init ==
    /\ txs = [t \in Txs |-> NoTx]
    /\ inbox = {}
    /\ calls = [c \in Calls |-> Idle]
    /\ ledger = [t \in Txs |-> "none"]
    /\ sent = {}
    /\ acked = {}
    /\ requests = [t \in Txs |-> 0]
    /\ aborts = 0
    /\ thrown = FALSE

\* The next step of a handler in flight.
Step(c) ==
    \/ Insert(c) \/ ProviderTakes(c) \/ ProviderRefunds(c)
    \/ SaveReload(c) \/ SaveWrite(c)
    \/ CallbackCheck(c) \/ CallbackStore(c) \/ QueryProvider(c)

\* A callback is delivered.
Deliver(e) == \E c \in Calls : CallbackFind(c, e)

Next ==
    \/ \E c \in Calls, k \in Keys, direction \in {"COLLECTION", "PAYOUT"} :
          Initiate(c, k, direction)
    \/ \E c \in Calls, k \in Keys : RefundStart(c, k)
    \/ \E c \in Calls, t \in Txs : QueryFind(c, t)
    \/ \E e \in Event : Deliver(e)
    \/ \E c \in Calls : Step(c) \/ SaveThrows(c) \/ Abort(c)
    \/ \E t \in Txs : ProviderSettles(t) \/ ProviderNotifies(t)

Spec == Init /\ [][Next]_vars

(***************************************************************************)
(* Awaited queries answer; the provider settles what it took, sends the     *)
(* callback and sends it again until one is answered 200.                   *)
(***************************************************************************)
Fairness ==
    /\ \A c \in Calls : WF_vars(Step(c))
    /\ \A t \in Txs : WF_vars(ProviderSettles(t)) /\ WF_vars(ProviderNotifies(t))
    /\ \A e \in Event : SF_vars(e \notin acked /\ Deliver(e))

LiveSpec == Spec /\ Fairness

=============================================================================
