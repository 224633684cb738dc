---------------------------- MODULE PaymentsProps ----------------------------
(***************************************************************************)
(* What the payments service promises about money and callbacks.            *)
(***************************************************************************)
EXTENDS Payments

\* Every variable holds what the code could put there.
TypeOK ==
    /\ txs \in [Txs -> TxRow]
    /\ inbox \subseteq Event
    /\ calls \in [Calls -> Call]
    /\ ledger \in [Txs -> {"none", "PROCESSING", "PAID", "FAILED", "REFUNDED"}]
    /\ sent \subseteq Event
    /\ acked \subseteq Event
    /\ requests \in [Txs -> Nat]
    /\ aborts \in Nat
    /\ thrown \in BOOLEAN

\* However often a client repeats a key, and however its requests overlap or
\* die, the provider is asked for the money of a transaction at most once (the
\* unique index behind initiateCollection(), initiatePayout() and
\* refundCollection()).
RequestedOnce == \A t \in Txs : requests[t] <= 1

\* Money is only asked back when the provider has the original as paid,
\* although the service decides it on a row it copied from callbacks and
\* queries ("Only paid transactions can be refunded", refundCollection()).
RefundsArePaid ==
    \A k \in Keys : requests[Refund(k)] > 0 => ledger[Own(k)] = "PAID"

\* The database never claims a payment the provider does not have, whatever
\* stale entity is saved last.
PaidIsReal ==
    \A t \in Txs : txs[t].status = "PAID" =>
        txs[t].ref # NULL /\ ledger[txs[t].ref] = "PAID"

\* Deliveries of the same callback that overlap do not both write its status
\* (the unique index on the provider's event id).
OneApplier ==
    \A b, c \in Calls :
        /\ calls[b].pc \in {"reload", "write"}
        /\ calls[c].pc \in {"reload", "write"}
        /\ calls[b].event = calls[c].event
        /\ calls[b].event # NULL
        => b = c

\* The provider tells only what is final, and each of its answers is saved.
Steady == ~thrown /\ \A e \in sent : e.status # "PROCESSING"

\* Once paid, a transaction stays paid: no callback, query or save that is
\* still under way puts an older status back, however answers are lost and
\* calls die, as long as the provider tells only what is final and no save of
\* one of its answers throws.
PaidSticks ==
    [][\A t \in Txs : Steady' /\ txs[t].status = "PAID"
                          => txs'[t].status = "PAID"]_vars

\* A callback the service answered with 200 has done its work once no call is
\* in flight: "Check for duplicate event (idempotent callback handling)"
\* (payments.service.ts:256).
AckedIsApplied ==
    (\A c \in Calls : At(c, "idle")) =>
        \A e \in acked : \E t \in Txs :
            txs[t].ref = e.ref /\ txs[t].status = e.status

\* A payment the provider has settled becomes PAID in the database, as the
\* provider repeats its callback until it is answered 200 ("This endpoint is
\* PUBLIC (no auth) - called by payment providers", payments.controller.ts:74).
Settles ==
    \A k \in Keys : ledger[Own(k)] = "PAID" ~> txs[Own(k)].status = "PAID"

=============================================================================
