--------------------------- MODULE PaymentsProofs ---------------------------
(***************************************************************************)
(* Machine-checked proofs about the payments service, for any sets of keys  *)
(* and concurrent calls.                                                    *)
(*                                                                         *)
(* The argument.  The unique index on the key lets one call per transaction *)
(* reach the provider, and that call alone works on the row until it has a  *)
(* reference; every later writer holds the reference the row already has.   *)
(* So no save, however stale, can combine one call's status with another    *)
(* call's reference, and PAID in a row or in a call is PAID at the provider.*)
(***************************************************************************)
EXTENDS PaymentsProps, TLAPS

\* Where a call may still set the reference of its row.
Setting == {"provider", "reload", "write"}
\* Where a call writes a status.
Saving == {"reload", "write"}
\* Where a call holds an entity that was loaded with a reference.
Loaded == {"event_check", "event_save", "query"}

\* What PAID and a reference mean at the provider, for a row or an entity.
Backed(row) ==
    /\ row.ref # NULL => ledger[row.ref] # "none"
    /\ row.status = "PAID" => row.ref # NULL /\ ledger[row.ref] = "PAID"

RowGood(t) ==
    /\ txs[t].status = "none" => txs[t].ref = NULL /\ requests[t] = 0
    /\ requests[t] = 0 => ledger[t] = "none"
    /\ requests[t] <= 1
    /\ t[2] = "own" => txs[t].ref \in {NULL, t}
    /\ Backed(txs[t])

CallGood(x) ==
    /\ x \in Call
    /\ Backed(x.copy)
    /\ x.pc # "idle" =>
          /\ x.tx \in Txs
          /\ x.copy.status # "none"
          /\ x.tx[2] = "own" => x.copy.ref \in {NULL, x.tx}
    /\ x.pc \in {"insert", "provider"} =>
          /\ x.copy.ref = NULL
          /\ x.event = NULL
          /\ x.copy.direction = "REFUND" <=> x.tx[2] = "refund"
          /\ x.tx[2] = "refund" => ledger[Own(x.tx[1])] = "PAID"
    /\ x.pc \notin {"idle", "insert"} => txs[x.tx].status # "none"
    /\ x.pc = "provider" => requests[x.tx] = 0 /\ txs[x.tx].ref = NULL
    /\ x.pc \in Saving =>
          /\ txs[x.tx].ref # NULL => x.copy.ref = txs[x.tx].ref
          /\ x.event # NULL => x.event \in inbox
    /\ x.pc = "write" => ("ref" \in x.dirty <=> x.copy.ref # txs[x.tx].ref)
    /\ x.pc \in Loaded => x.copy.ref # NULL /\ x.copy.ref = txs[x.tx].ref
    /\ x.pc \in {"event_check", "event_save"} =>
          x.event \in sent /\ x.event.ref = x.copy.ref
    /\ x.pc = "query" => x.event = NULL

RowsGood == \A t \in Txs : RowGood(t)
CallsGood == \A c \in Calls : CallGood(calls[c])
SentGood ==
    \A e \in sent : /\ ledger[e.ref] # "none"
                    /\ e.status = "PAID" => ledger[e.ref] = "PAID"

\* Until a row has a reference, one call works on it.
OneSetter ==
    \A b, c \in Calls :
        /\ calls[b].pc \in Setting
        /\ calls[c].pc \in Setting
        /\ calls[b].tx = calls[c].tx
        /\ b # c
        => txs[calls[b].tx].ref # NULL

IInv ==
    /\ TypeOK /\ RowsGood /\ CallsGood /\ SentGood
    /\ OneSetter /\ OneApplier /\ RefundsArePaid
-----------------------------------------------------------------------------
(***************************************************************************)
(* Lemmas about the operators of the model.                                 *)
(***************************************************************************)
\* The names of a key's transaction and of its refund.
LEMMA Names ==
  /\ \A k \in Keys : /\ Own(k) \in Txs /\ Own(k)[2] = "own" /\ Own(k)[1] = k
                     /\ Refund(k) \in Txs /\ Refund(k)[2] = "refund"
                     /\ Refund(k)[1] = k
  /\ \A t \in Txs : t[1] \in Keys /\ t[2] \in {"own", "refund"}
  /\ \A t \in Txs : t[2] = "own" => t = Own(t[1])
  /\ \A t \in Txs : t[2] = "refund" => t = Refund(t[1])
  /\ NULL \notin Txs
  BY PaymentsNullAssumption DEF Txs, Own, Refund

\* What save() writes is a row, column by column.
LEMMA Saved ==
  ASSUME NEW row \in TxRow, NEW entity \in TxRow, NEW dirty
  PROVE  LET new == SavedRow(row, entity, dirty)
         IN  /\ new \in TxRow
             /\ new.status = IF "status" \in dirty THEN entity.status ELSE row.status
             /\ new.ref = IF "ref" \in dirty THEN entity.ref ELSE row.ref
  BY DEF SavedRow, TxRow

\* The reference is named in the UPDATE when it differs from the row's.
LEMMA RefIsDirty ==
  ASSUME NEW row \in TxRow, NEW entity \in TxRow
  PROVE  /\ DirtyColumns(entity, row) \in SUBSET DOMAIN NoTx
         /\ "ref" \in DirtyColumns(entity, row) <=> entity.ref # row.ref
  BY DEF DirtyColumns, TxRow, NoTx

(***************************************************************************)
(* The effect of a step of one call on the others.  References are given    *)
(* once and by a call that writes; money is asked for by a call at the      *)
(* provider; the provider forgets nothing and no payment.                   *)
(***************************************************************************)
LedgerGrows ==
    \A t \in Txs : /\ ledger[t] # "none" => ledger'[t] # "none"
                   /\ ledger[t] = "PAID" => ledger'[t] = "PAID"

RowsGrow(c) ==
    \A t \in Txs :
        /\ txs[t].status # "none" => txs'[t].status # "none"
        /\ \/ txs'[t].ref = txs[t].ref
           \/ /\ txs[t].ref = NULL
              /\ calls[c].pc \in Setting
              /\ calls[c].tx = t
        /\ \/ requests'[t] = requests[t]
           \/ calls[c].pc = "provider" /\ calls[c].tx = t

Grows(c) ==
    /\ LedgerGrows
    /\ RowsGrow(c)
    /\ sent \subseteq sent'
    /\ inbox \subseteq inbox'

\* What is backed stays backed.
LEMMA StaysBacked ==
  ASSUME NEW row \in TxRow, Backed(row), LedgerGrows
  PROVE  Backed(row)'
  BY DEF Backed, LedgerGrows, TxRow

\* A good call stays good when another call takes a step.
LEMMA StaysGood ==
  ASSUME IInv, NEW c \in Calls, NEW b \in Calls, b # c, Grows(c),
         NEW x, x = calls[b]
  PROVE  CallGood(x)'
<1>1. CallGood(x) /\ x \in Call /\ x.copy \in TxRow
  BY DEF IInv, CallsGood, CallGood, Call
<1>2. Backed(x.copy)'
  BY <1>1, StaysBacked DEF Grows, CallGood
<1>3. ASSUME x.pc # "idle" PROVE x.tx \in Txs
  BY <1>1, <1>3 DEF CallGood
<1>4. ASSUME x.pc \in Setting, calls[c].pc \in Setting, calls[c].tx = x.tx
      PROVE  txs[x.tx].ref # NULL
  BY <1>4 DEF IInv, OneSetter
<1>5. ASSUME x.pc \in Setting \cup Loaded PROVE txs'[x.tx].ref = txs[x.tx].ref
  <2>1. x.pc # "idle"
    BY <1>5 DEF Setting, Loaded
  <2>2. x.pc \in Loaded => txs[x.tx].ref # NULL
    BY <1>1 DEF CallGood
  <2> QED BY <1>3, <1>4, <1>5, <2>1, <2>2 DEF Grows, RowsGrow
<1>6. ASSUME x.pc = "provider" PROVE requests'[x.tx] = requests[x.tx]
  <2>1. txs[x.tx].ref = NULL /\ x.tx \in Txs
    BY <1>1, <1>6 DEF CallGood
  <2> QED BY <1>4, <1>6, <2>1 DEF Grows, RowsGrow, Setting
<1>7. ASSUME x.pc \notin {"idle", "insert"} PROVE txs'[x.tx].status # "none"
  BY <1>1, <1>3, <1>7 DEF CallGood, Grows, RowsGrow
<1>8. ASSUME x.pc \in {"insert", "provider"}, x.tx[2] = "refund"
      PROVE  ledger'[Own(x.tx[1])] = "PAID"
  BY <1>1, <1>3, <1>8, Names DEF CallGood, Grows, LedgerGrows
<1>9. (x.pc # "idle" =>
          /\ x.tx \in Txs
          /\ x.copy.status # "none"
          /\ x.tx[2] = "own" => x.copy.ref \in {NULL, x.tx})'
  BY <1>1 DEF CallGood
<1>10. (x.pc \in Saving =>
          /\ txs[x.tx].ref # NULL => x.copy.ref = txs[x.tx].ref
          /\ x.event # NULL => x.event \in inbox)'
  BY <1>1, <1>5 DEF CallGood, Saving, Setting, Grows
<1>11. (x.pc = "write" => ("ref" \in x.dirty <=> x.copy.ref # txs[x.tx].ref))'
  BY <1>1, <1>5 DEF CallGood, Setting
<1>12. (x.pc \in Loaded => x.copy.ref # NULL /\ x.copy.ref = txs[x.tx].ref)'
  BY <1>1, <1>5 DEF CallGood
<1>13. (x.pc \in {"event_check", "event_save"} =>
          x.event \in sent /\ x.event.ref = x.copy.ref)'
  BY <1>1 DEF CallGood, Grows
<1>14. (x.pc = "provider" => requests[x.tx] = 0 /\ txs[x.tx].ref = NULL)'
  BY <1>1, <1>5, <1>6 DEF CallGood, Setting
<1>15. (x.pc = "query" => x.event = NULL)'
  BY <1>1 DEF CallGood
<1>16. (x.pc \in {"insert", "provider"} =>
          /\ x.copy.ref = NULL
          /\ x.event = NULL
          /\ x.copy.direction = "REFUND" <=> x.tx[2] = "refund"
          /\ x.tx[2] = "refund" => ledger[Own(x.tx[1])] = "PAID")'
  BY <1>1, <1>8 DEF CallGood
<1> QED BY <1>1, <1>2, <1>7, <1>9, <1>10, <1>11, <1>12, <1>13, <1>14, <1>15, <1>16
        DEF CallGood

\* When one call becomes a good one, all calls are good.
LEMMA CallsStayGood ==
  ASSUME IInv, NEW c \in Calls, Grows(c), NEW new, Become(c, new),
         CallGood(new)'
  PROVE  CallsGood' /\ calls' \in [Calls -> Call]
<1>1. calls \in [Calls -> Call] /\ calls' = [calls EXCEPT ![c] = new]
  BY DEF IInv, TypeOK, Become
<1>2. new \in Call
  BY DEF CallGood
<1>3. ASSUME NEW b \in Calls PROVE CallGood(calls[b])'
  <2>1. CASE b = c
    <3>1. calls'[b] = new
      BY <1>1, <2>1
    <3> QED BY <3>1 DEF CallGood, Backed
  <2>2. CASE b # c
    <3>1. PICK x : x = calls[b]
      OBVIOUS
    <3>2. CallGood(x)'
      BY <2>2, <3>1, StaysGood
    <3>3. calls'[b] = x
      BY <1>1, <2>2, <3>1
    <3> QED BY <3>2, <3>3 DEF CallGood, Backed
  <2> QED BY <2>1, <2>2
<1> QED BY <1>1, <1>2, <1>3 DEF CallsGood

\* One setter remains when a call that becomes a setter was one already on
\* that row, or nobody is, or the row has its reference.
LEMMA SetterStays ==
  ASSUME IInv, NEW c \in Calls, Grows(c), NEW new \in Call, Become(c, new),
         new.pc \in Setting =>
            /\ new.tx \in Txs
            /\ \/ calls[c].pc \in Setting /\ calls[c].tx = new.tx
               \/ txs'[new.tx].ref # NULL
               \/ \A b \in Calls \ {c} :
                     ~(calls[b].pc \in Setting /\ calls[b].tx = new.tx)
  PROVE  OneSetter'
<1>1. calls \in [Calls -> Call] /\ calls' = [calls EXCEPT ![c] = new]
  BY DEF IInv, TypeOK, Become
<1>2. ASSUME NEW t \in Txs, txs[t].ref # NULL PROVE txs'[t].ref # NULL
  BY <1>2 DEF Grows, RowsGrow
<1>3. ASSUME NEW b \in Calls, calls[b].pc \in Setting PROVE calls[b].tx \in Txs
  BY <1>3 DEF IInv, CallsGood, CallGood, Setting
<1>4. ASSUME NEW b \in Calls, b # c, calls[b].pc \in Setting,
             new.pc \in Setting, calls[b].tx = new.tx
      PROVE  txs'[new.tx].ref # NULL
  BY <1>2, <1>4 DEF IInv, OneSetter
<1> SUFFICES ASSUME NEW a \in Calls, NEW b \in Calls, a # b,
                    calls'[a].pc \in Setting, calls'[b].pc \in Setting,
                    calls'[a].tx = calls'[b].tx
             PROVE  txs'[calls'[a].tx].ref # NULL
  BY DEF OneSetter
<1>5. CASE a # c /\ b # c
  BY <1>1, <1>2, <1>3, <1>5 DEF IInv, OneSetter
<1>6. CASE a = c
  BY <1>1, <1>4, <1>6
<1>7. CASE b = c
  BY <1>1, <1>4, <1>7
<1> QED BY <1>5, <1>6, <1>7

\* A callback keeps one applier when the call that begins to apply it has
\* just stored it.
LEMMA ApplierStays ==
  ASSUME IInv, NEW c \in Calls, NEW new \in Call, Become(c, new),
         (new.pc \in Saving /\ new.event # NULL) =>
            \/ calls[c].pc \in Saving /\ calls[c].event = new.event
            \/ new.event \notin inbox
  PROVE  OneApplier'
<1>1. calls \in [Calls -> Call] /\ calls' = [calls EXCEPT ![c] = new]
  BY DEF IInv, TypeOK, Become
<1>2. ASSUME NEW b \in Calls, b # c, calls[b].pc \in Saving, new.pc \in Saving,
             calls[b].event = new.event, new.event # NULL
      PROVE  FALSE
  <2>1. calls[b].event \in inbox
    BY <1>2 DEF IInv, CallsGood, CallGood
  <2> QED BY <1>2, <2>1 DEF IInv, OneApplier, Saving
<1> SUFFICES ASSUME NEW a \in Calls, NEW b \in Calls, a # b,
                    calls'[a].pc \in Saving, calls'[b].pc \in Saving,
                    calls'[a].event = calls'[b].event, calls'[a].event # NULL
             PROVE  FALSE
  BY DEF OneApplier, Saving
<1>3. CASE a # c /\ b # c
  BY <1>1, <1>3 DEF IInv, OneApplier, Saving
<1>4. CASE a = c
  BY <1>1, <1>2, <1>4
<1>5. CASE b = c
  BY <1>1, <1>2, <1>5
<1> QED BY <1>3, <1>4, <1>5

\* A step that changes no row and nothing at the provider, and turns one call
\* into a good one.
LEMMA QuietStep ==
  ASSUME IInv, NEW c \in Calls, NEW new, Become(c, new), CallGood(new)',
         UNCHANGED <<txs, ledger, sent, requests>>,
         inbox \subseteq inbox', inbox' \subseteq Event, acked' \subseteq Event,
         aborts' \in Nat, thrown' \in BOOLEAN,
         new.pc \in Setting =>
            \/ calls[c].pc \in Setting /\ calls[c].tx = new.tx
            \/ txs[new.tx].ref # NULL,
         (new.pc \in Saving /\ new.event # NULL) =>
            \/ calls[c].pc \in Saving /\ calls[c].event = new.event
            \/ new.event \notin inbox
  PROVE  IInv'
<1>1. Grows(c)
  BY DEF Grows, LedgerGrows, RowsGrow
<1>2. new \in Call /\ (new.pc \in Setting => new.tx \in Txs)
  BY DEF CallGood, Setting
<1>3. CallsGood' /\ calls' \in [Calls -> Call]
  BY <1>1, CallsStayGood
<1>4. OneSetter'
  BY <1>1, <1>2, SetterStays
<1>5. OneApplier'
  BY <1>2, ApplierStays
<1>6. TypeOK'
  BY <1>3 DEF IInv, TypeOK
<1>7. RowsGood'
  BY DEF IInv, RowsGood, RowGood, Backed
<1>8. SentGood' /\ RefundsArePaid'
  BY DEF IInv, SentGood, RefundsArePaid
<1> QED BY <1>3, <1>4, <1>5, <1>6, <1>7, <1>8 DEF IInv

\* So is a call that ends.
LEMMA QuietEnd ==
  ASSUME IInv, NEW c \in Calls, Become(c, Idle),
         UNCHANGED <<txs, ledger, sent, requests>>,
         inbox \subseteq inbox', inbox' \subseteq Event, acked' \subseteq Event,
         aborts' \in Nat, thrown' \in BOOLEAN
  PROVE  IInv'
<1>1. PICK new : new = Idle
  OBVIOUS
<1>2. new \in Call /\ new.pc = "idle" /\ new.copy = NoTx
  BY <1>1 DEF Idle, Call, PCs, NoTx, TxRow, TxStatuses, Directions
<1>3. NoTx.ref = NULL /\ NoTx.status = "none"
  BY DEF NoTx
<1>4. CallGood(new)'
  BY <1>2, <1>3 DEF CallGood, Backed, Saving, Loaded
<1>5. Become(c, new) /\ new.pc \notin Setting /\ new.pc \notin Saving
  BY <1>1, <1>2 DEF Setting, Saving
<1> QED BY <1>4, <1>5, QuietStep

(***************************************************************************)
(* What the steps make of a call.                                           *)
(***************************************************************************)
\* A slot with no call, and no row.
LEMMA Blank ==
  /\ Idle \in Call /\ Idle.pc = "idle" /\ Idle.event = NULL /\ Idle.copy = NoTx
  /\ NoTx \in TxRow /\ NoTx.ref = NULL /\ NoTx.status = "none"
  BY DEF Idle, Call, PCs, NoTx, TxRow, TxStatuses, Directions

\* handleCallback() and queryTransaction() put a new status into the entity.
Saves(call, status) == [call EXCEPT !.pc = "reload", !.copy.status = status]

\* Only its status, and where it stands, change.
LEMMA WithStatus ==
  ASSUME NEW call \in Call, NEW status \in TxStatuses
  PROVE  /\ Saves(call, status) \in Call
         /\ Saves(call, status).pc = "reload"
         /\ Saves(call, status).tx = call.tx
         /\ Saves(call, status).event = call.event
         /\ Saves(call, status).copy.status = status
         /\ Saves(call, status).copy.ref = call.copy.ref
<1>1. call.copy \in TxRow
  BY DEF Call
<1>2. PICK row : row = [call.copy EXCEPT !.status = status]
  OBVIOUS
<1>3. row \in TxRow /\ row.status = status /\ row.ref = call.copy.ref
  BY <1>1, <1>2 DEF TxRow
<1>4. Saves(call, status) = [call EXCEPT !.pc = "reload", !.copy = row]
  BY <1>2 DEF Call, Saves
<1> QED BY <1>3, <1>4 DEF Call, PCs

\* The provider's answer goes into the entity.
Answers(call, ref, status) ==
    [call EXCEPT !.pc = "reload", !.guarded = TRUE,
                 !.copy.ref = ref, !.copy.status = status]

\* Its reference and its status change.
LEMMA WithAnswer ==
  ASSUME NEW call \in Call, NEW ref \in Txs \cup {NULL}, NEW status \in TxStatuses
  PROVE  /\ Answers(call, ref, status) \in Call
         /\ Answers(call, ref, status).pc = "reload"
         /\ Answers(call, ref, status).tx = call.tx
         /\ Answers(call, ref, status).event = call.event
         /\ Answers(call, ref, status).copy.status = status
         /\ Answers(call, ref, status).copy.ref = ref
<1>1. call.copy \in TxRow
  BY DEF Call
<1>2. PICK row : row = [call.copy EXCEPT !.ref = ref, !.status = status]
  OBVIOUS
<1>3. row \in TxRow /\ row.status = status /\ row.ref = ref
  BY <1>1, <1>2 DEF TxRow
<1>4. Answers(call, ref, status)
        = [call EXCEPT !.pc = "reload", !.guarded = TRUE, !.copy = row]
  BY <1>2 DEF Call, Answers
<1> QED BY <1>3, <1>4 DEF Call, PCs

\* The catch block puts FAILED into the entity.
Fails(call) ==
    [call EXCEPT !.pc = "reload", !.guarded = FALSE, !.copy.status = "FAILED"]

\* Its reference stays what it was.
LEMMA WithFailure ==
  ASSUME NEW call \in Call
  PROVE  /\ Fails(call) \in Call
         /\ Fails(call).pc = "reload"
         /\ Fails(call).tx = call.tx
         /\ Fails(call).event = call.event
         /\ Fails(call).copy.status = "FAILED"
         /\ Fails(call).copy.ref = call.copy.ref
<1>1. call.copy \in TxRow
  BY DEF Call
<1>2. PICK row : row = [call.copy EXCEPT !.status = "FAILED"]
  OBVIOUS
<1>3. row \in TxRow /\ row.status = "FAILED" /\ row.ref = call.copy.ref
  BY <1>1, <1>2 DEF TxRow, TxStatuses
<1>4. Fails(call) = [call EXCEPT !.pc = "reload", !.guarded = FALSE, !.copy = row]
  BY <1>2 DEF Call, Fails
<1> QED BY <1>3, <1>4 DEF Call, PCs

\* What the invariant says of one call and of one row.
LEMMA OfCall ==
  ASSUME IInv, NEW c \in Calls
  PROVE  CallGood(calls[c]) /\ calls[c] \in Call /\ calls[c].copy \in TxRow
  BY DEF IInv, CallsGood, CallGood, Call

\* The invariant for one row.
LEMMA OfRow ==
  ASSUME IInv, NEW t \in Txs
  PROVE  /\ RowGood(t) /\ txs[t] \in TxRow
         /\ txs[t].status \in TxStatuses /\ txs[t].ref \in Txs \cup {NULL}
  BY DEF IInv, TypeOK, RowsGood, TxRow

-----------------------------------------------------------------------------
(***************************************************************************)
(* One lemma per action.                                                    *)
(***************************************************************************)
LEMMA InitGood == Init => IInv
<1> SUFFICES ASSUME Init PROVE IInv
  OBVIOUS
<1> USE DEF Init
<1>1. NoTx \in TxRow /\ NoTx.ref = NULL /\ NoTx.status = "none"
  BY DEF NoTx, TxRow, TxStatuses, Directions
<1>2. Idle \in Call /\ Idle.pc = "idle" /\ Idle.copy = NoTx /\ Idle.event = NULL
  BY DEF Idle, Call, PCs, NoTx, TxRow, TxStatuses, Directions
<1>3. TypeOK
  BY <1>1, <1>2 DEF TypeOK
<1>4. CallsGood
  BY <1>1, <1>2 DEF CallsGood, CallGood, Backed, Saving, Loaded
<1>5. RowsGood
  BY <1>1 DEF RowsGood, RowGood, Backed
<1>6. RefundsArePaid
  BY Names DEF RefundsArePaid
<1> QED BY <1>2, <1>3, <1>4, <1>5, <1>6
        DEF IInv, SentGood, OneSetter, OneApplier, Setting

\* A collection or a payout begins.
LEMMA InitiateGood ==
  ASSUME IInv, NEW c \in Calls, NEW k \in Keys,
         NEW direction \in {"COLLECTION", "PAYOUT"}, Initiate(c, k, direction)
  PROVE  IInv'
<1>1. PICK row : row = [NoTx EXCEPT !.status = "PENDING", !.direction = direction]
  OBVIOUS
<1>2. /\ row \in TxRow /\ row.status = "PENDING" /\ row.ref = NULL
      /\ row.direction = direction
  <2>1. "PENDING" \in TxStatuses /\ "REFUND_PENDING" \in TxStatuses
    BY DEF TxStatuses
  <2>2. "REFUND" \in Directions /\ {"COLLECTION", "PAYOUT"} \subseteq Directions
    BY DEF Directions
  <2> QED BY <1>1, <2>1, <2>2, Blank DEF TxRow
<1>3. PICK new : new = [Idle EXCEPT !.pc = "insert", !.tx = Own(k), !.copy = row]
  OBVIOUS
<1>4. /\ new \in Call /\ new.pc = "insert" /\ new.tx = Own(k)
      /\ new.copy = row /\ new.event = NULL
  <2>1. "insert" \in PCs
    BY DEF PCs
  <2> QED BY <1>2, <1>3, <2>1, Blank, Names DEF Call
<1>5. CallGood(new)'
  BY <1>2, <1>4, Names DEF CallGood, Backed, Saving, Loaded
<1>6. Become(c, new)
  BY <1>1, <1>3 DEF Initiate
<1>7. UNCHANGED <<txs, inbox, ledger, sent, acked, requests, aborts, thrown>>
  BY DEF Initiate
<1>8. new.pc \notin Setting /\ new.pc \notin Saving
  BY <1>4 DEF Setting, Saving
<1> QED BY <1>5, <1>6, <1>7, <1>8, QuietStep DEF IInv, TypeOK

\* The original of a refund is PAID under its own reference.
LEMMA RefundStartGood ==
  ASSUME IInv, NEW c \in Calls, NEW k \in Keys, RefundStart(c, k)
  PROVE  IInv'
<1>1. PICK row : row = [NoTx EXCEPT !.status = "REFUND_PENDING",
                                    !.direction = "REFUND"]
  OBVIOUS
<1>2. /\ row \in TxRow /\ row.status = "REFUND_PENDING" /\ row.ref = NULL
      /\ row.direction = "REFUND"
  <2>1. "PENDING" \in TxStatuses /\ "REFUND_PENDING" \in TxStatuses
    BY DEF TxStatuses
  <2>2. "REFUND" \in Directions /\ {"COLLECTION", "PAYOUT"} \subseteq Directions
    BY DEF Directions
  <2> QED BY <1>1, <2>1, <2>2, Blank DEF TxRow
<1>3. PICK new : new = [Idle EXCEPT !.pc = "insert", !.tx = Refund(k), !.copy = row]
  OBVIOUS
<1>4. /\ new \in Call /\ new.pc = "insert" /\ new.tx = Refund(k)
      /\ new.copy = row /\ new.event = NULL
  <2>1. "insert" \in PCs
    BY DEF PCs
  <2> QED BY <1>2, <1>3, <2>1, Blank, Names DEF Call
<1>5. ledger[Own(k)] = "PAID"
  BY OfRow, Names DEF RefundStart, RowGood, Backed
<1>6. UNCHANGED <<txs, inbox, ledger, sent, acked, requests, aborts, thrown>>
  BY DEF RefundStart
<1>7. CallGood(new)'
  BY <1>2, <1>4, <1>5, <1>6, Names DEF CallGood, Backed, Saving, Loaded
<1>8. Become(c, new)
  BY <1>1, <1>3 DEF RefundStart
<1>9. new.pc \notin Setting /\ new.pc \notin Saving
  BY <1>4 DEF Setting, Saving
<1> QED BY <1>6, <1>7, <1>8, <1>9, QuietStep DEF IInv, TypeOK

\* save() reads the row again.
LEMMA SaveReloadGood ==
  ASSUME IInv, NEW c \in Calls, SaveReload(c) PROVE IInv'
<1>1. PICK x : x = calls[c]
  OBVIOUS
<1>2. CallGood(x) /\ x \in Call /\ x.copy \in TxRow /\ x.pc = "reload"
  BY <1>1, OfCall DEF SaveReload, At
<1>3. x.tx \in Txs /\ txs[x.tx] \in TxRow
  BY <1>2, OfRow DEF CallGood
<1>4. PICK dirty : dirty = DirtyColumns(x.copy, txs[x.tx])
  OBVIOUS
<1>5. /\ dirty \in SUBSET DOMAIN NoTx
      /\ "ref" \in dirty <=> x.copy.ref # txs[x.tx].ref
  BY <1>2, <1>3, <1>4, RefIsDirty
<1>6. PICK new : new = [x EXCEPT !.pc = "write", !.dirty = dirty]
  OBVIOUS
<1>7. /\ new \in Call /\ new.pc = "write" /\ new.tx = x.tx
      /\ new.copy = x.copy /\ new.event = x.event /\ new.dirty = dirty
  <2>1. "write" \in PCs
    BY DEF PCs
  <2> QED BY <1>2, <1>5, <1>6, <2>1 DEF Call
<1>8. UNCHANGED <<txs, inbox, ledger, sent, acked, requests, aborts, thrown>>
  BY DEF SaveReload
<1>9. CallGood(new)'
  BY <1>2, <1>5, <1>7, <1>8 DEF CallGood, Backed, Saving, Loaded
<1>10. Become(c, new)
  BY <1>1, <1>4, <1>6 DEF SaveReload
<1>11. calls[c].pc \in Setting /\ calls[c].pc \in Saving
       /\ calls[c].tx = new.tx /\ calls[c].event = new.event
  BY <1>1, <1>2, <1>7 DEF Setting, Saving
<1> QED BY <1>8, <1>9, <1>10, <1>11, QuietStep DEF IInv, TypeOK

\* A save in the try block throws.
LEMMA SaveThrowsGood ==
  ASSUME IInv, NEW c \in Calls, SaveThrows(c) PROVE IInv'
<1>1. PICK x : x = calls[c]
  OBVIOUS
<1>2. CallGood(x) /\ x \in Call /\ x.copy \in TxRow /\ x.pc = "reload"
  BY <1>1, OfCall DEF SaveThrows, At
<1>3. PICK new : new = Fails(x)
  OBVIOUS
<1>4. /\ new \in Call /\ new.pc = "reload" /\ new.tx = x.tx
      /\ new.event = x.event
      /\ new.copy.status = "FAILED" /\ new.copy.ref = x.copy.ref
  BY <1>2, <1>3, WithFailure
<1>5. /\ UNCHANGED <<txs, inbox, ledger, sent, acked, requests>>
      /\ aborts' = aborts + 1 /\ thrown' = TRUE
  BY DEF SaveThrows
<1>6. CallGood(new)'
  BY <1>2, <1>4, <1>5 DEF CallGood, Backed, Saving, Loaded
<1>7. Become(c, new)
  BY <1>1, <1>3 DEF SaveThrows, Failed, Fails
<1>8. calls[c].pc \in Setting /\ calls[c].pc \in Saving
      /\ calls[c].tx = new.tx /\ calls[c].event = new.event
  BY <1>1, <1>2, <1>4 DEF Setting, Saving
<1> QED BY <1>5, <1>6, <1>7, <1>8, QuietStep DEF IInv, TypeOK

\* A call dies.
LEMMA AbortGood ==
  ASSUME IInv, NEW c \in Calls, Abort(c) PROVE IInv'
  BY QuietEnd DEF Abort, IInv, TypeOK

\* A callback finds the row that has its reference.
LEMMA CallbackFindGood ==
  ASSUME IInv, NEW c \in Calls, NEW e \in Event, CallbackFind(c, e) PROVE IInv'
<1>1. PICK t \in Txs :
        /\ txs[t].ref = e.ref
        /\ Become(c, [Idle EXCEPT !.pc = "event_check", !.tx = t,
                                  !.copy = txs[t], !.event = e])
  BY DEF CallbackFind
<1>2. PICK row : row = txs[t]
  OBVIOUS
<1>3. RowGood(t) /\ row \in TxRow
  BY <1>2, OfRow
<1>4. row.ref = e.ref /\ e.ref \in Txs /\ row.ref # NULL
  BY <1>1, <1>2, Names DEF Event
<1>5. PICK new : new = [Idle EXCEPT !.pc = "event_check", !.tx = t,
                                    !.copy = row, !.event = e]
  OBVIOUS
<1>6. /\ new \in Call /\ new.pc = "event_check" /\ new.tx = t
      /\ new.copy = row /\ new.event = e
  <2>1. "event_check" \in PCs
    BY DEF PCs
  <2> QED BY <1>3, <1>5, <2>1, Blank DEF Call
<1>7. e \in sent /\ UNCHANGED <<txs, inbox, ledger, sent, acked, requests, aborts, thrown>>
  BY DEF CallbackFind
<1>8. CallGood(new)'
  BY <1>2, <1>3, <1>4, <1>6, <1>7 DEF CallGood, RowGood, Backed, Saving, Loaded
<1>9. Become(c, new)
  BY <1>1, <1>2, <1>5
<1>10. new.pc \notin Setting /\ new.pc \notin Saving
  BY <1>6 DEF Setting, Saving
<1> QED BY <1>7, <1>8, <1>9, <1>10, QuietStep DEF IInv, TypeOK

\* A callback looks for its event.
LEMMA CallbackCheckGood ==
  ASSUME IInv, NEW c \in Calls, CallbackCheck(c) PROVE IInv'
<1>1. PICK x : x = calls[c]
  OBVIOUS
<1>2. CallGood(x) /\ x \in Call /\ x.pc = "event_check"
  BY <1>1, OfCall DEF CallbackCheck, At
<1>3. x.event \in Event /\ UNCHANGED <<txs, inbox, ledger, sent, requests, aborts, thrown>>
  BY <1>2 DEF CallbackCheck, CallGood, IInv, TypeOK
<1>4. CASE x.event \in inbox
  BY <1>1, <1>3, <1>4, QuietEnd DEF CallbackCheck, IInv, TypeOK
<1>5. CASE x.event \notin inbox
  <2>1. PICK new : new = [x EXCEPT !.pc = "event_save"]
    OBVIOUS
  <2>2. /\ new \in Call /\ new.pc = "event_save" /\ new.tx = x.tx
        /\ new.copy = x.copy /\ new.event = x.event
    <3>1. "event_save" \in PCs
      BY DEF PCs
    <3> QED BY <1>2, <2>1, <3>1 DEF Call
  <2>3. CallGood(new)'
    BY <1>2, <1>3, <2>2 DEF CallGood, Backed, Saving, Loaded
  <2>4. Become(c, new) /\ acked' = acked
    BY <1>1, <1>5, <2>1 DEF CallbackCheck
  <2>5. new.pc \notin Setting /\ new.pc \notin Saving
    BY <2>2 DEF Setting, Saving
  <2> QED BY <1>3, <2>3, <2>4, <2>5, QuietStep DEF IInv, TypeOK
<1> QED BY <1>4, <1>5

\* The status of a callback is one the provider's reference has.
LEMMA CallbackStoreGood ==
  ASSUME IInv, NEW c \in Calls, CallbackStore(c) PROVE IInv'
<1>1. PICK x : x = calls[c]
  OBVIOUS
<1>2. CallGood(x) /\ x \in Call /\ x.pc = "event_save"
  BY <1>1, OfCall DEF CallbackStore, At
<1>3. PICK e : e = x.event
  OBVIOUS
<1>4. e \in Event /\ e \in sent /\ e.ref = x.copy.ref
  BY <1>2, <1>3 DEF CallGood, IInv, TypeOK
<1>5. e.status \in {"PROCESSING", "PAID", "FAILED"}
  BY <1>4, NoticesAssumption DEF Event
<1>6. inbox' = inbox \cup {e} /\ UNCHANGED <<txs, ledger, sent, requests, aborts, thrown>>
  BY <1>1, <1>3 DEF CallbackStore
<1>7. inbox \subseteq inbox' /\ inbox' \subseteq Event /\ acked \subseteq Event
  BY <1>4, <1>6 DEF IInv, TypeOK
<1>8. CASE Become(c, Idle)
  <2>1. acked' = acked \/ acked' = acked \cup {e}
    BY <1>1, <1>3, <1>8 DEF CallbackStore
  <2> QED BY <1>4, <1>6, <1>7, <1>8, <2>1, QuietEnd DEF IInv, TypeOK
<1>9. CASE ~Become(c, Idle)
  <2>1. PICK new : new = Saves(x, e.status)
    OBVIOUS
  <2>2. Become(c, new) /\ acked' = acked /\ e \notin inbox
    BY <1>1, <1>3, <1>9, <2>1 DEF CallbackStore, Saves
  <2>3. /\ new \in Call /\ new.pc = "reload" /\ new.tx = x.tx
        /\ new.event = e
        /\ new.copy.status = e.status /\ new.copy.ref = x.copy.ref
    <3>1. e.status \in TxStatuses
      BY <1>5 DEF TxStatuses
    <3> QED BY <1>2, <1>3, <2>1, <3>1, WithStatus
  <2>4. e.status = "PAID" => ledger[e.ref] = "PAID"
    BY <1>4 DEF IInv, SentGood
  <2>5. CallGood(new)'
    BY <1>2, <1>4, <1>5, <1>6, <2>3, <2>4 DEF CallGood, Backed, Saving, Loaded
  <2>6. txs[new.tx].ref # NULL
    BY <1>2, <2>3 DEF CallGood, Loaded
  <2> QED BY <1>6, <1>7, <2>2, <2>3, <2>5, <2>6, QuietStep DEF IInv, TypeOK
<1> QED BY <1>8, <1>9

\* A query loads a row that has a reference.
LEMMA QueryFindGood ==
  ASSUME IInv, NEW c \in Calls, NEW t \in Txs, QueryFind(c, t) PROVE IInv'
<1>1. PICK row : row = txs[t]
  OBVIOUS
<1>2. RowGood(t) /\ row \in TxRow /\ row.ref # NULL
  BY <1>1, OfRow DEF QueryFind
<1>3. PICK new : new = [Idle EXCEPT !.pc = "query", !.tx = t, !.copy = row]
  OBVIOUS
<1>4. /\ new \in Call /\ new.pc = "query" /\ new.tx = t
      /\ new.copy = row /\ new.event = NULL
  <2>1. "query" \in PCs
    BY DEF PCs
  <2> QED BY <1>2, <1>3, <2>1, Blank DEF Call
<1>5. UNCHANGED <<txs, inbox, ledger, sent, acked, requests, aborts, thrown>>
  BY DEF QueryFind
<1>6. CallGood(new)'
  BY <1>1, <1>2, <1>4, <1>5 DEF CallGood, RowGood, Backed, Saving, Loaded
<1>7. Become(c, new)
  BY <1>1, <1>3 DEF QueryFind
<1>8. new.pc \notin Setting /\ new.pc \notin Saving
  BY <1>4 DEF Setting, Saving
<1> QED BY <1>5, <1>6, <1>7, <1>8, QuietStep DEF IInv, TypeOK

\* A query holds what the provider has.
LEMMA QueryProviderGood ==
  ASSUME IInv, NEW c \in Calls, QueryProvider(c) PROVE IInv'
<1>1. PICK x : x = calls[c]
  OBVIOUS
<1>2. CallGood(x) /\ x \in Call /\ x.pc = "query"
  BY <1>1, OfCall DEF QueryProvider, At
<1>3. PICK known : known = ledger[x.copy.ref]
  OBVIOUS
<1>4. x.copy.ref \in Txs
  <2>1. x.copy.ref # NULL
    BY <1>2 DEF CallGood, Loaded
  <2> QED BY <1>2, <2>1 DEF Call, TxRow
<1>5. known \in TxStatuses /\ known # "none"
  <2>1. known \in {"none", "PROCESSING", "PAID", "FAILED", "REFUNDED"}
    BY <1>3, <1>4 DEF IInv, TypeOK
  <2>2. known # "none"
    BY <1>2, <1>3, <1>4, Names DEF CallGood, Backed
  <2> QED BY <2>1, <2>2 DEF TxStatuses
<1>6. UNCHANGED <<txs, inbox, ledger, sent, acked, requests, aborts, thrown>>
  BY DEF QueryProvider
<1>7. CASE known = x.copy.status
  BY <1>1, <1>3, <1>6, <1>7, QuietEnd DEF QueryProvider, IInv, TypeOK
<1>8. CASE known # x.copy.status
  <2>1. PICK new : new = Saves(x, known)
    OBVIOUS
  <2>2. /\ new \in Call /\ new.pc = "reload" /\ new.tx = x.tx
        /\ new.event = x.event
        /\ new.copy.status = known /\ new.copy.ref = x.copy.ref
    BY <1>2, <1>5, <2>1, WithStatus
  <2>3. CallGood(new)'
    BY <1>2, <1>3, <1>5, <1>6, <2>2 DEF CallGood, Backed, Saving, Loaded
  <2>4. Become(c, new)
    BY <1>1, <1>3, <1>8, <2>1 DEF QueryProvider, Saves
  <2>5. txs[new.tx].ref # NULL /\ new.event = NULL
    BY <1>2, <2>2 DEF CallGood, Loaded
  <2> QED BY <1>6, <2>3, <2>4, <2>5, QuietStep DEF IInv, TypeOK
<1> QED BY <1>7, <1>8

\* A row nobody touches stays good.
LEMMA RowStays ==
  ASSUME IInv, LedgerGrows, NEW u \in Txs, txs'[u] = txs[u],
         requests'[u] = requests[u], ledger'[u] = ledger[u]
  PROVE  RowGood(u)'
<1>1. PICK row : row = txs[u]
  OBVIOUS
<1>2. Backed(row)'
  BY <1>1, OfRow, StaysBacked DEF RowGood
<1>3. Backed(txs[u])'
  BY <1>1, <1>2 DEF Backed
<1> QED BY <1>3, OfRow DEF RowGood

\* Callbacks sent before stay true.
LEMMA SentStays ==
  ASSUME IInv, LedgerGrows, sent' = sent PROVE SentGood'
  BY DEF IInv, TypeOK, SentGood, LedgerGrows, Event

\* A step that may write a row or move the provider's ledger, and turns one
\* call into a good one.
LEMMA BusyStep ==
  ASSUME IInv, NEW c \in Calls, Grows(c), NEW new, Become(c, new),
         CallGood(new)',
         UNCHANGED <<inbox, sent, aborts, thrown>>, acked' \subseteq Event,
         txs' \in [Txs -> TxRow],
         ledger' \in [Txs -> {"none", "PROCESSING", "PAID", "FAILED", "REFUNDED"}],
         requests' \in [Txs -> Nat],
         RowsGood', RefundsArePaid',
         new.pc \in Setting =>
            \/ calls[c].pc \in Setting /\ calls[c].tx = new.tx
            \/ \A b \in Calls \ {c} :
                  ~(calls[b].pc \in Setting /\ calls[b].tx = new.tx),
         new.pc \in Saving => new.event = NULL
  PROVE  IInv'
<1>1. new \in Call /\ (new.pc \in Setting => new.tx \in Txs)
  BY DEF CallGood, Setting
<1>2. CallsGood' /\ calls' \in [Calls -> Call]
  BY CallsStayGood
<1>3. OneSetter'
  BY <1>1, SetterStays
<1>4. OneApplier'
  BY <1>1, ApplierStays
<1>5. TypeOK'
  BY <1>2 DEF IInv, TypeOK
<1>6. SentGood'
  BY SentStays DEF Grows
<1> QED BY <1>2, <1>3, <1>4, <1>5, <1>6 DEF IInv

\* The unique index: a call that inserts a row finds nobody working on it.
LEMMA InsertGood ==
  ASSUME IInv, NEW c \in Calls, Insert(c) PROVE IInv'
<1>1. PICK x : x = calls[c]
  OBVIOUS
<1>2. CallGood(x) /\ x \in Call /\ x.copy \in TxRow /\ x.pc = "insert"
  BY <1>1, OfCall DEF Insert, At
<1>3. PICK t : t = x.tx
  OBVIOUS
<1>4. t \in Txs /\ RowGood(t) /\ txs \in [Txs -> TxRow]
  BY <1>2, <1>3, OfRow DEF CallGood, IInv, TypeOK
<1>5. UNCHANGED <<inbox, ledger, sent, acked, requests, aborts, thrown>>
  BY DEF Insert
<1>6. CASE txs[t].status # "none"
  BY <1>1, <1>3, <1>5, <1>6, QuietEnd DEF Insert, IInv, TypeOK
<1>7. CASE txs[t].status = "none"
  <2>1. PICK row : row = x.copy
    OBVIOUS
  <2>2. row \in TxRow /\ row.ref = NULL /\ row.status # "none" /\ Backed(row)
    BY <1>2, <2>1 DEF CallGood
  <2>3. txs' = [txs EXCEPT ![t] = row]
    BY <1>1, <1>3, <1>7, <2>1 DEF Insert
  <2>4. txs'[t] = row /\ \A u \in Txs : u # t => txs'[u] = txs[u]
    BY <1>4, <2>3
  <2>5. txs[t].ref = NULL /\ requests[t] = 0 /\ ledger[t] = "none"
    BY <1>4, <1>7 DEF RowGood
  <2>6. PICK new : new = [x EXCEPT !.pc = "provider"]
    OBVIOUS
  <2>7. /\ new \in Call /\ new.pc = "provider" /\ new.tx = t
        /\ new.copy = row /\ new.event = x.event
    <3>1. "provider" \in PCs
      BY DEF PCs
    <3> QED BY <1>2, <1>3, <2>1, <2>6, <3>1 DEF Call
  <2>8. Become(c, new)
    BY <1>1, <1>3, <1>7, <2>6 DEF Insert
  <2>9. LedgerGrows /\ Grows(c)
    BY <1>5, <2>2, <2>4, <2>5 DEF LedgerGrows, Grows, RowsGrow
  <2>10. CallGood(new)'
    BY <1>2, <1>3, <1>5, <2>1, <2>2, <2>4, <2>5, <2>7
       DEF CallGood, Backed, Saving, Loaded
  <2>11. RowGood(t)'
    BY <1>4, <1>5, <2>2, <2>4, <2>5 DEF RowGood, Backed
  <2>12. ASSUME NEW u \in Txs, u # t PROVE RowGood(u)'
    BY <1>5, <2>4, <2>9, <2>12, RowStays
  <2>13. ASSUME NEW b \in Calls, calls[b].pc \in Setting PROVE calls[b].tx # t
    BY <1>7, <2>13 DEF IInv, CallsGood, CallGood, Setting
  <2>14. RowsGood' /\ RefundsArePaid' /\ txs' \in [Txs -> TxRow]
    BY <1>4, <1>5, <2>2, <2>3, <2>11, <2>12 DEF RowsGood, RefundsArePaid, IInv
  <2>15. new.pc \notin Saving
    BY <2>7 DEF Saving
  <2> QED BY <1>5, <2>7, <2>8, <2>9, <2>10, <2>13, <2>14, <2>15, BusyStep
          DEF IInv, TypeOK
<1> QED BY <1>6, <1>7

\* The provider's answer, or its loss, to the one call that asks.
LEMMA ProviderTakesGood ==
  ASSUME IInv, NEW c \in Calls, ProviderTakes(c) PROVE IInv'
<1>1. PICK x : x = calls[c]
  OBVIOUS
<1>2. CallGood(x) /\ x \in Call /\ x.pc = "provider" /\ x.copy.direction # "REFUND"
  BY <1>1, OfCall DEF ProviderTakes, At
<1>3. PICK t : t = x.tx
  OBVIOUS
<1>4. /\ t \in Txs /\ RowGood(t) /\ t[2] = "own" /\ t # NULL
      /\ requests[t] = 0 /\ txs[t].ref = NULL /\ txs[t].status # "none"
      /\ x.copy.ref = NULL /\ x.event = NULL
  BY <1>2, <1>3, OfRow, Names DEF CallGood
<1>5. ledger[t] = "none"
  BY <1>4 DEF RowGood
<1>6. PICK status \in {"PROCESSING", "FAILED"} :
        /\ ledger' = [ledger EXCEPT ![t] = status]
        /\ Answered(c, t, status) \/ (LosesAnswers /\ Failed(c))
  BY <1>1, <1>3 DEF ProviderTakes
<1>7. /\ requests' = [requests EXCEPT ![t] = @ + 1]
      /\ UNCHANGED <<txs, inbox, sent, acked, aborts, thrown>>
  BY <1>1, <1>3 DEF ProviderTakes
<1>8. /\ ledger'[t] = status /\ \A u \in Txs : u # t => ledger'[u] = ledger[u]
      /\ requests'[t] = 1 /\ \A u \in Txs : u # t => requests'[u] = requests[u]
      /\ requests' \in [Txs -> Nat]
      /\ ledger' \in [Txs -> {"none", "PROCESSING", "PAID", "FAILED", "REFUNDED"}]
  BY <1>4, <1>6, <1>7 DEF IInv, TypeOK
<1>9. LedgerGrows
  BY <1>5, <1>6, <1>8 DEF LedgerGrows
<1>10. Grows(c)
  <2>1. calls[c].pc \in Setting /\ calls[c].pc = "provider" /\ calls[c].tx = t
    BY <1>1, <1>2, <1>3 DEF Setting
  <2> QED BY <1>7, <1>8, <1>9, <2>1 DEF Grows, RowsGrow
<1>11. PICK new : /\ new = Answers(x, t, status) \/ new = Fails(x)
                  /\ Become(c, new)
  BY <1>1, <1>6 DEF Answered, Failed, Answers, Fails
<1>12. /\ new \in Call /\ new.pc = "reload" /\ new.tx = t /\ new.event = NULL
       /\ new.copy.status \in {"PROCESSING", "FAILED"}
       /\ new.copy.ref \in {NULL, t}
  <2>1. status \in TxStatuses
    BY <1>6 DEF TxStatuses
  <2> QED BY <1>2, <1>3, <1>4, <1>6, <1>11, <2>1, WithAnswer, WithFailure
<1>13. CallGood(new)'
  BY <1>4, <1>6, <1>7, <1>8, <1>12 DEF CallGood, Backed, Saving, Loaded
<1>14. RowGood(t)'
  BY <1>4, <1>7, <1>8 DEF RowGood, Backed
<1>15. ASSUME NEW u \in Txs, u # t PROVE RowGood(u)'
  BY <1>7, <1>8, <1>9, <1>15, RowStays
<1>16. RowsGood'
  BY <1>14, <1>15 DEF RowsGood
<1>17. RefundsArePaid'
  <2> SUFFICES ASSUME NEW k \in Keys, requests'[Refund(k)] > 0
               PROVE  ledger'[Own(k)] = "PAID"
    BY DEF RefundsArePaid
  <2>1. Refund(k) # t
    BY <1>4, Names
  <2> QED BY <1>8, <1>9, <2>1, Names DEF IInv, RefundsArePaid, LedgerGrows
<1>18. calls[c].pc \in Setting /\ calls[c].tx = new.tx
  BY <1>1, <1>2, <1>3, <1>12 DEF Setting
<1> QED BY <1>7, <1>8, <1>10, <1>11, <1>12, <1>13, <1>16, <1>17, <1>18, BusyStep
        DEF IInv, TypeOK

\* A refund reaches a provider that has the original as paid.
LEMMA ProviderRefundsGood ==
  ASSUME IInv, NEW c \in Calls, ProviderRefunds(c) PROVE IInv'
<1>1. PICK x : x = calls[c]
  OBVIOUS
<1>2. CallGood(x) /\ x \in Call /\ x.pc = "provider" /\ x.copy.direction = "REFUND"
  BY <1>1, OfCall DEF ProviderRefunds, At
<1>3. PICK t : t = x.tx
  OBVIOUS
<1>4. /\ t \in Txs /\ RowGood(t) /\ t[2] = "refund" /\ t # NULL
      /\ requests[t] = 0 /\ txs[t].ref = NULL /\ txs[t].status # "none"
      /\ x.copy.ref = NULL /\ x.event = NULL
      /\ ledger[Own(t[1])] = "PAID"
  BY <1>2, <1>3, OfRow, Names DEF CallGood
<1>5. ledger[t] = "none"
  BY <1>4 DEF RowGood
<1>6. PICK original : original = txs[Own(t[1])].ref
  OBVIOUS
<1>7. /\ original \in Txs \cup {NULL}
      /\ original # NULL => ledger[original] # "none"
  <2>1. Own(t[1]) \in Txs
    BY <1>4, Names
  <2> QED BY <1>6, <2>1, OfRow DEF RowGood, Backed
<1>8. /\ requests' = [requests EXCEPT ![t] = @ + 1]
      /\ UNCHANGED <<txs, inbox, sent, acked, aborts, thrown>>
  BY <1>1, <1>3 DEF ProviderRefunds
<1>9. PICK new :
        /\ Become(c, new)
        /\ \/ /\ ledger' = [ledger EXCEPT ![t] = "REFUNDED"]
              /\ new = Answers(x, t, "REFUNDED") \/ new = Fails(x)
           \/ /\ ledger' = ledger
              /\ new = Answers(x, original, "FAILED")
  BY <1>1, <1>3, <1>6 DEF ProviderRefunds, Answered, Failed, Answers, Fails
<1>10. /\ ledger'[t] \in {"none", "REFUNDED"}
       /\ \A u \in Txs : u # t => ledger'[u] = ledger[u]
       /\ requests'[t] = 1 /\ \A u \in Txs : u # t => requests'[u] = requests[u]
       /\ requests' \in [Txs -> Nat]
       /\ ledger' \in [Txs -> {"none", "PROCESSING", "PAID", "FAILED", "REFUNDED"}]
  BY <1>4, <1>5, <1>8, <1>9 DEF IInv, TypeOK
<1>11. LedgerGrows
  BY <1>5, <1>10 DEF LedgerGrows
<1>12. Grows(c)
  <2>1. calls[c].pc \in Setting /\ calls[c].pc = "provider" /\ calls[c].tx = t
    BY <1>1, <1>2, <1>3 DEF Setting
  <2> QED BY <1>8, <1>10, <1>11, <2>1 DEF Grows, RowsGrow
<1>13. /\ new \in Call /\ new.pc = "reload" /\ new.tx = t /\ new.event = NULL
       /\ new.copy.status \in {"REFUNDED", "FAILED"}
       /\ new.copy.ref # NULL => ledger'[new.copy.ref] # "none"
  <2>1. "REFUNDED" \in TxStatuses /\ "FAILED" \in TxStatuses
    BY DEF TxStatuses
  <2>2. CASE ledger' = [ledger EXCEPT ![t] = "REFUNDED"] /\ new = Answers(x, t, "REFUNDED")
    <3>1. ledger'[t] = "REFUNDED"
      BY <1>4, <2>2 DEF IInv, TypeOK
    <3> QED BY <1>2, <1>3, <1>4, <2>1, <2>2, <3>1, WithAnswer
  <2>3. CASE new = Fails(x)
    BY <1>2, <1>3, <1>4, <2>3, WithFailure
  <2>4. CASE ledger' = ledger /\ new = Answers(x, original, "FAILED")
    BY <1>2, <1>3, <1>4, <1>7, <2>1, <2>4, WithAnswer
  <2> QED BY <1>9, <2>2, <2>3, <2>4
<1>14. CallGood(new)'
  BY <1>4, <1>8, <1>13 DEF CallGood, Backed, Saving, Loaded
<1>15. RowGood(t)'
  BY <1>4, <1>8, <1>10 DEF RowGood, Backed
<1>16. ASSUME NEW u \in Txs, u # t PROVE RowGood(u)'
  BY <1>8, <1>10, <1>11, <1>16, RowStays
<1>17. RowsGood'
  BY <1>15, <1>16 DEF RowsGood
<1>18. RefundsArePaid'
  <2> SUFFICES ASSUME NEW k \in Keys, requests'[Refund(k)] > 0
               PROVE  ledger'[Own(k)] = "PAID"
    BY DEF RefundsArePaid
  <2>1. CASE Refund(k) = t
    <3>1. Own(k) = Own(t[1]) /\ Own(k) \in Txs
      BY <2>1, Names
    <3> QED BY <1>4, <1>11, <3>1 DEF LedgerGrows
  <2>2. CASE Refund(k) # t
    BY <1>10, <1>11, <2>2, Names DEF IInv, RefundsArePaid, LedgerGrows
  <2> QED BY <2>1, <2>2
<1>19. calls[c].pc \in Setting /\ calls[c].tx = new.tx
  BY <1>1, <1>2, <1>3, <1>13 DEF Setting
<1> QED BY <1>8, <1>9, <1>10, <1>12, <1>13, <1>14, <1>17, <1>18, <1>19, BusyStep
        DEF IInv, TypeOK

\* A save sets the reference only of a row that has none, and then the status
\* of a PAID row is the saving call's own.
LEMMA SaveWriteGood ==
  ASSUME IInv, NEW c \in Calls, SaveWrite(c) PROVE IInv'
<1>1. PICK x : x = calls[c]
  OBVIOUS
<1>2. CallGood(x) /\ x \in Call /\ x.copy \in TxRow /\ x.pc = "write"
  BY <1>1, OfCall DEF SaveWrite, At
<1>3. PICK t : t = x.tx
  OBVIOUS
<1>4. /\ t \in Txs /\ RowGood(t) /\ txs[t] \in TxRow /\ txs \in [Txs -> TxRow]
      /\ txs[t].status # "none" /\ x.copy.status # "none"
      /\ Backed(x.copy) /\ Backed(txs[t])
      /\ t[2] = "own" => x.copy.ref \in {NULL, t}
      /\ txs[t].ref # NULL => x.copy.ref = txs[t].ref
      /\ "ref" \in x.dirty <=> x.copy.ref # txs[t].ref
  BY <1>2, <1>3, OfRow DEF CallGood, RowGood, Saving, IInv, TypeOK
<1>5. PICK row : row = SavedRow(txs[t], x.copy, x.dirty)
  OBVIOUS
<1>6. /\ row \in TxRow
      /\ row.status = IF "status" \in x.dirty THEN x.copy.status ELSE txs[t].status
      /\ row.ref = IF "ref" \in x.dirty THEN x.copy.ref ELSE txs[t].ref
  BY <1>2, <1>4, <1>5, Saved
<1>7. /\ txs' = [txs EXCEPT ![t] = row]
      /\ acked' = acked \cup ({x.event} \ {NULL})
      /\ Become(c, Idle)
      /\ UNCHANGED <<inbox, ledger, sent, requests, aborts, thrown>>
  BY <1>1, <1>3, <1>5 DEF SaveWrite
<1>8. txs'[t] = row /\ \A u \in Txs : u # t => txs'[u] = txs[u]
  BY <1>4, <1>7
<1>9. acked' \subseteq Event
  <2>1. x.event \in Event \cup {NULL}
    BY <1>2 DEF Call
  <2> QED BY <1>7, <2>1 DEF IInv, TypeOK
<1>10. LedgerGrows
  BY <1>7 DEF LedgerGrows
<1>11. Grows(c)
  <2>1. calls[c].pc \in Setting /\ calls[c].tx = t
    BY <1>1, <1>2, <1>3 DEF Setting
  <2>2. row.ref = txs[t].ref \/ txs[t].ref = NULL
    BY <1>4, <1>6
  <2>3. row.status # "none"
    BY <1>4, <1>6
  <2> QED BY <1>7, <1>8, <1>10, <2>1, <2>2, <2>3 DEF Grows, RowsGrow
<1>12. Backed(row)
  BY <1>4, <1>6 DEF Backed
<1>13. RowGood(t)'
  BY <1>4, <1>6, <1>7, <1>8, <1>12 DEF RowGood, Backed
<1>14. ASSUME NEW u \in Txs, u # t PROVE RowGood(u)'
  BY <1>7, <1>8, <1>10, <1>14, RowStays
<1>15. RowsGood' /\ RefundsArePaid' /\ txs' \in [Txs -> TxRow]
  BY <1>4, <1>6, <1>7, <1>13, <1>14 DEF RowsGood, RefundsArePaid, IInv
<1>16. PICK new : new = Idle
  OBVIOUS
<1>17. CallGood(new)' /\ new.pc \notin Setting /\ new.pc \notin Saving
  BY <1>16, Blank DEF CallGood, Backed, Setting, Saving, Loaded
<1> QED BY <1>7, <1>9, <1>11, <1>15, <1>16, <1>17, BusyStep DEF IInv, TypeOK

\* What the provider does on its own disturbs no call.
LEMMA ProviderStep ==
  ASSUME IInv, LedgerGrows, sent \subseteq sent', sent' \subseteq Event,
         UNCHANGED <<txs, inbox, calls, acked, requests, aborts, thrown>>,
         ledger' \in [Txs -> {"none", "PROCESSING", "PAID", "FAILED", "REFUNDED"}],
         \A t \in Txs : ledger[t] = "none" => ledger'[t] = "none",
         SentGood'
  PROVE  IInv'
<1>1. ASSUME NEW c \in Calls PROVE CallGood(calls[c])'
  <2>1. PICK x : x = calls[c]
    OBVIOUS
  <2>2. CallGood(x) /\ x \in Call /\ x.copy \in TxRow
    BY <2>1, OfCall
  <2>3. Backed(x.copy)'
    BY <2>2, StaysBacked DEF CallGood
  <2>4. ASSUME x.pc \in {"insert", "provider"}, x.tx[2] = "refund"
        PROVE  ledger'[Own(x.tx[1])] = "PAID"
    BY <2>2, <2>4, Names DEF CallGood, LedgerGrows
  <2>5. CallGood(x)'
    BY <2>2, <2>3, <2>4 DEF CallGood
  <2> QED BY <2>1, <2>5 DEF CallGood, Backed
<1>2. ASSUME NEW t \in Txs PROVE RowGood(t)'
  <2>1. PICK row : row = txs[t]
    OBVIOUS
  <2>2. Backed(row)'
    BY <2>1, OfRow, StaysBacked DEF RowGood
  <2>3. Backed(txs[t])'
    BY <2>1, <2>2 DEF Backed
  <2> QED BY <2>3, OfRow DEF RowGood
<1>3. CallsGood' /\ RowsGood'
  BY <1>1, <1>2 DEF CallsGood, RowsGood
<1>4. TypeOK'
  BY DEF IInv, TypeOK
<1>5. OneSetter' /\ OneApplier'
  BY DEF IInv, OneSetter, OneApplier
<1>6. RefundsArePaid'
  BY Names DEF IInv, RefundsArePaid, LedgerGrows
<1> QED BY <1>3, <1>4, <1>5, <1>6 DEF IInv

\* The provider settles what it took.
LEMMA ProviderSettlesGood ==
  ASSUME IInv, NEW t \in Txs, ProviderSettles(t) PROVE IInv'
<1>1. PICK status \in {"PAID", "FAILED"} : ledger' = [ledger EXCEPT ![t] = status]
  BY DEF ProviderSettles
<1>2. UNCHANGED <<txs, inbox, calls, sent, acked, requests, aborts, thrown>>
  BY DEF ProviderSettles
<1>3. /\ LedgerGrows
      /\ ledger' \in [Txs -> {"none", "PROCESSING", "PAID", "FAILED", "REFUNDED"}]
      /\ \A u \in Txs : ledger[u] = "none" => ledger'[u] = "none"
  BY <1>1 DEF ProviderSettles, LedgerGrows, IInv, TypeOK
<1>4. SentGood'
  BY <1>2, <1>3, SentStays
<1> QED BY <1>2, <1>3, <1>4, ProviderStep DEF IInv, TypeOK

\* The provider sends what its ledger says.
LEMMA ProviderNotifiesGood ==
  ASSUME IInv, NEW t \in Txs, ProviderNotifies(t) PROVE IInv'
<1>1. PICK e : e = [ref |-> t, status |-> ledger[t]]
  OBVIOUS
<1>2. /\ e \in Event /\ e.ref = t /\ e.status = ledger[t]
      /\ ledger[t] # "none"
  BY <1>1, NoticesAssumption DEF ProviderNotifies, Event
<1>3. /\ sent' = sent \cup {e}
      /\ UNCHANGED <<txs, inbox, calls, ledger, acked, requests, aborts, thrown>>
  BY <1>1 DEF ProviderNotifies
<1>4. SentGood'
  BY <1>2, <1>3 DEF IInv, SentGood
<1>5. LedgerGrows /\ sent \subseteq sent' /\ sent' \subseteq Event
  BY <1>2, <1>3 DEF LedgerGrows, IInv, TypeOK
<1> QED BY <1>3, <1>4, <1>5, ProviderStep DEF IInv, TypeOK

\* Nothing happens.
LEMMA StutterGood == ASSUME IInv, UNCHANGED vars PROVE IInv'
<1>1. LedgerGrows /\ SentGood'
  BY DEF LedgerGrows, vars, IInv, SentGood
<1> QED BY <1>1, ProviderStep DEF vars, IInv, TypeOK

-----------------------------------------------------------------------------
(***************************************************************************)
(* The invariant, and what it says of money.                                *)
(***************************************************************************)
\* Every step of every handler, of the provider and of the environment keeps
\* the invariant (payments.service.ts, whole).
LEMMA InvNext ==
  ASSUME IInv, [Next]_vars PROVE IInv'
<1>1. CASE \E c \in Calls, k \in Keys, direction \in {"COLLECTION", "PAYOUT"} :
             Initiate(c, k, direction)
  BY <1>1, InitiateGood
<1>2. CASE \E c \in Calls, k \in Keys : RefundStart(c, k)
  BY <1>2, RefundStartGood
<1>3. CASE \E c \in Calls, t \in Txs : QueryFind(c, t)
  BY <1>3, QueryFindGood
<1>4. CASE \E e \in Event : Deliver(e)
  BY <1>4, CallbackFindGood DEF Deliver
<1>5. ASSUME NEW c \in Calls, Step(c) PROVE IInv'
  BY <1>5, InsertGood, ProviderTakesGood, ProviderRefundsGood, SaveReloadGood,
     SaveWriteGood, CallbackCheckGood, CallbackStoreGood, QueryProviderGood
     DEF Step
<1>6. ASSUME NEW c \in Calls, SaveThrows(c) \/ Abort(c) PROVE IInv'
  BY <1>6, SaveThrowsGood, AbortGood
<1>7. CASE \E t \in Txs : ProviderSettles(t) \/ ProviderNotifies(t)
  BY <1>7, ProviderSettlesGood, ProviderNotifiesGood
<1>8. CASE UNCHANGED vars
  BY <1>8, StutterGood
<1> QED BY <1>1, <1>2, <1>3, <1>4, <1>5, <1>6, <1>7, <1>8 DEF Next

\* The invariant holds always.
LEMMA Invariance == Spec => []IInv
<1>1. Init => IInv
  BY InitGood
<1>2. IInv /\ [Next]_vars => IInv'
  BY InvNext
<1> QED BY <1>1, <1>2, PTL DEF Spec

\* The state of the payments service is typed.
THEOREM TypeCorrect == Spec => []TypeOK
<1>1. IInv => TypeOK
  BY DEF IInv
<1> QED BY <1>1, Invariance, PTL

\* The provider gets at most one request for money per transaction: the unique
\* index makes initiateCollection(), initiatePayout() and refundCollection()
\* safe to repeat and to overlap.
THEOREM MoneyIsRequestedOnce == Spec => []RequestedOnce
<1>1. IInv => RequestedOnce
  BY DEF IInv, RowsGood, RowGood, RequestedOnce
<1> QED BY <1>1, Invariance, PTL

\* Whatever stale entity a callback, a query or a catch block saves, a row
\* that says PAID names a reference the provider has as PAID.
THEOREM PaidIsPaidAtProvider == Spec => []PaidIsReal
<1>1. IInv => PaidIsReal
  BY DEF IInv, RowsGood, RowGood, Backed, PaidIsReal
<1> QED BY <1>1, Invariance, PTL

\* A refund is requested only when the provider has the original as PAID
\* (refundCollection()).
THEOREM RefundsAreOfPaid == Spec => []RefundsArePaid
<1>1. IInv => RefundsArePaid
  BY DEF IInv
<1> QED BY <1>1, Invariance, PTL

\* Of overlapping deliveries of one callback one applies it (handleCallback()).
THEOREM CallbackHasOneApplier == Spec => []OneApplier
<1>1. IInv => OneApplier
  BY DEF IInv
<1> QED BY <1>1, Invariance, PTL

-----------------------------------------------------------------------------
(***************************************************************************)
(* Paid is for good, while the provider's callbacks tell only its last word *)
(* and no save in the try block throws.  Then a row or an entity can be behind  *)
(* the provider, but it is never ahead of it: one whose reference is still  *)
(* PROCESSING there says so itself.  A call that saves a status over a row  *)
(* that has its reference therefore saves a last word, so it says PAID when *)
(* the row does, however long ago it read the row.                          *)
(***************************************************************************)
\* What a row or an entity says of a payment in progress.
Honest(row) ==
    row.ref # NULL /\ ledger[row.ref] = "PROCESSING" => row.status = "PROCESSING"

\* The words of the provider that it does not take back, beside PAID.
Refusals == {"FAILED", "REFUNDED"}

\* What a call may save.
LastWord(x) ==
    /\ Honest(x.copy)
    /\ x.pc \in Saving =>
          \/ txs[x.tx].ref = NULL
          \/ x.copy.status = "PAID"
          \/ ledger[x.copy.ref] \in Refusals
    /\ x.pc = "write" /\ txs[x.tx].ref = NULL =>
          ("status" \in x.dirty <=> x.copy.status # txs[x.tx].status)

RowsHonest == \A t \in Txs : Honest(txs[t])
SentFinal == \A e \in sent : e.status = "FAILED" => ledger[e.ref] = "FAILED"

Sticky ==
    /\ RowsHonest
    /\ \A c \in Calls : LastWord(calls[c])
    /\ SentFinal

\* The provider does not take back a last word, and begins only what is new.
LedgerSettles ==
    \A t \in Txs :
        /\ ledger[t] \in Refusals => ledger'[t] = ledger[t]
        /\ ledger'[t] = "PROCESSING" => ledger[t] \in {"none", "PROCESSING"}

\* Only an insert and the write of a save change a row.
RowsSettle(c) ==
    \A t \in Txs :
        \/ txs'[t] = txs[t]
        \/ txs[t].status = "none"
        \/ /\ calls[c].pc = "write" /\ calls[c].tx = t
           /\ txs[t].ref # NULL => txs'[t].ref = txs[t].ref

\* A row or an entity stays honest when the provider settles something.
LEMMA HonestStays ==
  ASSUME NEW row \in TxRow, Backed(row), Honest(row), LedgerSettles
  PROVE  Honest(row)'
  BY DEF Backed, Honest, LedgerSettles, TxRow

\* A call keeps its last word when another call takes a step.
LEMMA LastWordStays ==
  ASSUME IInv, NEW c \in Calls, NEW b \in Calls, b # c,
         LedgerSettles, RowsSettle(c), NEW x, x = calls[b], LastWord(x)
  PROVE  LastWord(x)'
<1>1. CallGood(x) /\ x \in Call /\ x.copy \in TxRow
  BY OfCall
<1>2. Honest(x.copy)'
  BY <1>1, HonestStays DEF LastWord, CallGood
<1>3. ASSUME x.pc \in Saving
      PROVE  /\ x.tx \in Txs
             /\ txs'[x.tx] = txs[x.tx]
                  \/ (txs[x.tx].ref # NULL /\ txs'[x.tx].ref = txs[x.tx].ref)
  <2>1. x.tx \in Txs /\ txs[x.tx].status # "none"
    BY <1>1, <1>3 DEF CallGood, Saving
  <2>2. ASSUME calls[c].pc = "write", calls[c].tx = x.tx
        PROVE  txs[x.tx].ref # NULL
    BY <1>3, <2>2 DEF IInv, OneSetter, Setting, Saving
  <2> QED BY <2>1, <2>2 DEF RowsSettle
<1>4. ASSUME x.pc \in Saving
      PROVE  \/ txs'[x.tx].ref = NULL
             \/ x.copy.status = "PAID"
             \/ ledger'[x.copy.ref] \in Refusals
  <2>1. CASE txs[x.tx].ref = NULL
    BY <1>3, <1>4, <2>1
  <2>2. CASE txs[x.tx].ref # NULL
    <3>1. x.copy.ref \in Txs
      BY <1>1, <1>3, <1>4, <2>2, OfRow DEF CallGood
    <3> QED BY <1>4, <2>2, <3>1 DEF LastWord, LedgerSettles
  <2> QED BY <2>1, <2>2
<1>5. ASSUME x.pc = "write", txs'[x.tx].ref = NULL
      PROVE  "status" \in x.dirty <=> x.copy.status # txs'[x.tx].status
  <2>1. x.pc \in Saving
    BY <1>5 DEF Saving
  <2>2. txs'[x.tx] = txs[x.tx]
    BY <1>3, <1>5, <2>1
  <2> QED BY <1>5, <2>2 DEF LastWord
<1> QED BY <1>2, <1>4, <1>5 DEF LastWord

\* When one call becomes one with a last word, everything is as it should be.
LEMMA StickyStep ==
  ASSUME IInv, Sticky, NEW c \in Calls, NEW new, Become(c, new), LastWord(new)',
         LedgerSettles, RowsSettle(c), RowsHonest', SentFinal'
  PROVE  Sticky'
<1>1. calls \in [Calls -> Call] /\ calls' = [calls EXCEPT ![c] = new]
  BY DEF IInv, TypeOK, Become
<1>2. ASSUME NEW b \in Calls PROVE LastWord(calls[b])'
  <2>1. CASE b = c
    <3>1. calls'[b] = new
      BY <1>1, <2>1
    <3> QED BY <3>1 DEF LastWord, Honest
  <2>2. CASE b # c
    <3>1. PICK x : x = calls[b]
      OBVIOUS
    <3>2. LastWord(x)
      BY <3>1 DEF Sticky
    <3>3. LastWord(x)'
      BY <2>2, <3>1, <3>2, LastWordStays
    <3>4. calls'[b] = x
      BY <1>1, <2>2, <3>1
    <3> QED BY <3>3, <3>4 DEF LastWord, Honest
  <2> QED BY <2>1, <2>2
<1> QED BY <1>2 DEF Sticky

\* Most steps change no row and nothing at the provider.
LEMMA StickyQuiet ==
  ASSUME IInv, Sticky, NEW c \in Calls, NEW new, Become(c, new), LastWord(new),
         UNCHANGED <<txs, ledger, sent>>
  PROVE  Sticky'
<1>1. LedgerSettles /\ RowsSettle(c)
  BY DEF LedgerSettles, RowsSettle
<1>2. RowsHonest' /\ SentFinal'
  BY DEF Sticky, RowsHonest, SentFinal, Honest
<1>3. LastWord(new)'
  BY DEF LastWord, Honest
<1> QED BY <1>1, <1>2, <1>3, StickyStep

\* A call that ends has nothing to say.
LEMMA IdleLastWord == LastWord(Idle)
  BY Blank DEF LastWord, Honest, Saving

\* What a call begins with.
LEMMA BeginsSticky ==
  ASSUME IInv, Sticky, NEW c \in Calls, NEW k \in Keys,
         \/ \E direction \in {"COLLECTION", "PAYOUT"} : Initiate(c, k, direction)
         \/ RefundStart(c, k)
  PROVE  Sticky'
<1>1. PICK t, status, direction :
        Become(c, [Idle EXCEPT !.pc = "insert", !.tx = t,
                     !.copy = [NoTx EXCEPT !.status = status,
                                           !.direction = direction]])
  BY DEF Initiate, RefundStart
<1>2. PICK row : row = [NoTx EXCEPT !.status = status, !.direction = direction]
  OBVIOUS
<1>3. row.ref = NULL
  BY <1>2 DEF NoTx
<1>4. PICK new : new = [Idle EXCEPT !.pc = "insert", !.tx = t, !.copy = row]
  OBVIOUS
<1>5. new.copy = row /\ new.pc = "insert"
  BY <1>4 DEF Idle
<1>6. Become(c, new) /\ UNCHANGED <<txs, ledger, sent>>
  BY <1>1, <1>2, <1>4 DEF Initiate, RefundStart
<1>7. LastWord(new)
  BY <1>3, <1>5 DEF LastWord, Honest, Saving
<1> QED BY <1>6, <1>7, StickyQuiet

\* A loaded row is honest.
LEMMA FindsSticky ==
  ASSUME IInv, Sticky, NEW c \in Calls,
         \/ \E e \in Event : CallbackFind(c, e)
         \/ \E t \in Txs : QueryFind(c, t)
  PROVE  Sticky'
<1>1. PICK t, new : /\ t \in Txs /\ Become(c, new)
                    /\ new.copy = txs[t] /\ new.pc \notin Saving
  <2>1. CASE \E e \in Event : CallbackFind(c, e)
    <3>1. PICK e \in Event, t \in Txs :
            Become(c, [Idle EXCEPT !.pc = "event_check", !.tx = t,
                                   !.copy = txs[t], !.event = e])
      BY <2>1 DEF CallbackFind
    <3>2. PICK new : new = [Idle EXCEPT !.pc = "event_check", !.tx = t,
                                        !.copy = txs[t], !.event = e]
      OBVIOUS
    <3>3. new.copy = txs[t] /\ new.pc = "event_check"
      BY <3>2 DEF Idle
    <3> QED BY <3>1, <3>2, <3>3 DEF Saving
  <2>2. CASE \E t \in Txs : QueryFind(c, t)
    <3>1. PICK t \in Txs :
            Become(c, [Idle EXCEPT !.pc = "query", !.tx = t, !.copy = txs[t]])
      BY <2>2 DEF QueryFind
    <3>2. PICK new : new = [Idle EXCEPT !.pc = "query", !.tx = t, !.copy = txs[t]]
      OBVIOUS
    <3>3. new.copy = txs[t] /\ new.pc = "query"
      BY <3>2 DEF Idle
    <3> QED BY <3>1, <3>2, <3>3 DEF Saving
  <2> QED BY <2>1, <2>2
<1>2. UNCHANGED <<txs, ledger, sent>>
  BY DEF CallbackFind, QueryFind
<1>3. LastWord(new)
  BY <1>1 DEF Sticky, RowsHonest, LastWord, Saving
<1> QED BY <1>1, <1>2, <1>3, StickyQuiet

\* The answer of the provider, or its loss, to a call whose row has no
\* reference yet.
LEMMA AnswerSticky ==
  ASSUME IInv, Sticky, NEW c \in Calls, ProviderTakes(c) \/ ProviderRefunds(c)
  PROVE  Sticky'
<1>1. PICK x : x = calls[c]
  OBVIOUS
<1>2. CallGood(x) /\ x \in Call /\ x.pc = "provider" /\ x.copy.ref = NULL
  BY <1>1, OfCall DEF ProviderTakes, ProviderRefunds, At, CallGood
<1>3. PICK t : t = x.tx
  OBVIOUS
<1>4. /\ t \in Txs /\ txs[t].ref = NULL /\ ledger[t] = "none"
      /\ x.copy.direction = "REFUND" =>
            Own(t[1]) \in Txs /\ ledger[Own(t[1])] = "PAID"
            /\ txs[Own(t[1])].ref \in {NULL, Own(t[1])}
  <2>1. t \in Txs /\ RowGood(t) /\ requests[t] = 0 /\ txs[t].ref = NULL
    BY <1>2, <1>3, OfRow DEF CallGood
  <2>2. ASSUME x.copy.direction = "REFUND"
        PROVE  /\ Own(t[1]) \in Txs /\ ledger[Own(t[1])] = "PAID"
               /\ txs[Own(t[1])].ref \in {NULL, Own(t[1])}
    <3>1. ledger[Own(t[1])] = "PAID"
      BY <1>2, <1>3, <2>2 DEF CallGood
    <3>2. Own(t[1]) \in Txs /\ Own(t[1])[2] = "own"
      BY <2>1, Names
    <3> QED BY <3>1, <3>2, OfRow DEF RowGood
  <2> QED BY <2>1, <2>2 DEF RowGood
<1>5. UNCHANGED <<txs, sent>>
  BY DEF ProviderTakes, ProviderRefunds
<1>6. PICK ref, status, new :
        /\ Become(c, new)
        /\ new = Answers(x, ref, status) \/ new = Fails(x)
        /\ \/ /\ ledger' = [ledger EXCEPT ![t] = status]
              /\ ref = t /\ status \in {"PROCESSING", "FAILED", "REFUNDED"}
           \/ ledger' = ledger /\ ref = NULL /\ status = "FAILED"
  <2>1. CASE ProviderTakes(c)
    BY <1>1, <1>3, <2>1 DEF ProviderTakes, Answered, Failed, Answers, Fails
  <2>2. CASE ProviderRefunds(c)
    <3>1. PICK original : original = txs[Own(t[1])].ref
      OBVIOUS
    <3>2. CASE ledger[original] = "PAID"
      BY <1>1, <1>3, <2>2, <3>1, <3>2
         DEF ProviderRefunds, Answered, Failed, Answers, Fails
    <3>3. CASE ledger[original] # "PAID"
      <4>1. ledger' = ledger /\ Become(c, Answers(x, original, "FAILED"))
        BY <1>1, <1>3, <2>2, <3>1, <3>3 DEF ProviderRefunds, Answered, Answers
      <4>2. x.copy.direction = "REFUND"
        BY <1>1, <2>2 DEF ProviderRefunds
      <4>3. original = NULL
        BY <1>4, <3>1, <3>3, <4>2
      <4> QED BY <4>1, <4>3
    <3> QED BY <3>2, <3>3
  <2> QED BY <2>1, <2>2
<1>7. /\ new.pc = "reload" /\ new.tx = t
      /\ \/ new.copy.ref = ref /\ new.copy.status = status
         \/ new.copy.ref = NULL
  <2>1. ref \in Txs \cup {NULL} /\ status \in TxStatuses
    BY <1>4, <1>6 DEF TxStatuses
  <2> QED BY <1>2, <1>3, <1>6, <2>1, WithAnswer, WithFailure
<1>8. /\ \A u \in Txs : u # t => ledger'[u] = ledger[u]
      /\ ledger'[t] = status \/ ledger'[t] = "none"
      /\ ref # NULL => ledger'[ref] = status
  BY <1>4, <1>6 DEF IInv, TypeOK
<1>9. LedgerSettles
  BY <1>4, <1>8 DEF LedgerSettles, Refusals
<1>10. RowsSettle(c)
  BY <1>5 DEF RowsSettle
<1>11. RowsHonest'
  <2> SUFFICES ASSUME NEW u \in Txs PROVE Honest(txs[u])'
    BY DEF RowsHonest
  <2>1. PICK row : row = txs[u]
    OBVIOUS
  <2>2. row \in TxRow /\ Backed(row) /\ Honest(row)
    BY <2>1, OfRow DEF RowGood, Sticky, RowsHonest
  <2>3. Honest(row)'
    BY <1>9, <2>2, HonestStays
  <2> QED BY <1>5, <2>1, <2>3 DEF Honest
<1>12. SentFinal'
  BY <1>5, <1>9 DEF IInv, TypeOK, Event, Sticky, SentFinal, LedgerSettles, Refusals
<1>13. LastWord(new)'
  BY <1>4, <1>5, <1>7, <1>8 DEF LastWord, Honest, Saving
<1> QED BY <1>6, <1>9, <1>10, <1>11, <1>12, <1>13, StickyStep

\* A row is inserted without a reference.
LEMMA InsertSticky ==
  ASSUME IInv, Sticky, NEW c \in Calls, Insert(c) PROVE Sticky'
<1>1. PICK x : x = calls[c]
  OBVIOUS
<1>2. /\ CallGood(x) /\ x \in Call /\ x.pc = "insert" /\ LastWord(x)
      /\ x.tx \in Txs /\ x.copy.ref = NULL
  BY <1>1, OfCall DEF Insert, At, Sticky, CallGood
<1>3. UNCHANGED <<ledger, sent>>
  BY DEF Insert
<1>4. CASE txs[x.tx].status # "none"
  BY <1>1, <1>3, <1>4, IdleLastWord, StickyQuiet DEF Insert
<1>5. CASE txs[x.tx].status = "none"
  <2>1. PICK new : new = [x EXCEPT !.pc = "provider"]
    OBVIOUS
  <2>2. new.pc = "provider" /\ new.copy = x.copy
    BY <1>2, <2>1 DEF Call
  <2>3. txs' = [txs EXCEPT ![x.tx] = x.copy] /\ Become(c, new)
    BY <1>1, <1>5, <2>1 DEF Insert
  <2>4. /\ txs'[x.tx] = x.copy
        /\ \A u \in Txs : u # x.tx => txs'[u] = txs[u]
    BY <1>2, <2>3 DEF IInv, TypeOK
  <2>5. LedgerSettles /\ RowsSettle(c) /\ SentFinal'
    BY <1>3, <1>5, <2>4 DEF LedgerSettles, RowsSettle, Sticky, SentFinal
  <2>6. RowsHonest'
    BY <1>2, <1>3, <2>4 DEF Sticky, RowsHonest, Honest
  <2>7. LastWord(new)'
    BY <1>2, <2>2 DEF LastWord, Honest, Saving
  <2> QED BY <2>3, <2>5, <2>6, <2>7, StickyStep
<1> QED BY <1>4, <1>5

\* The reload of a save keeps the word and finds what differs.
LEMMA SaveReloadSticky ==
  ASSUME IInv, Sticky, NEW c \in Calls, SaveReload(c) PROVE Sticky'
<1>1. PICK x : x = calls[c]
  OBVIOUS
<1>2. /\ CallGood(x) /\ x \in Call /\ x.copy \in TxRow
      /\ x.pc = "reload" /\ LastWord(x)
  BY <1>1, OfCall DEF SaveReload, At, Sticky
<1>3. x.tx \in Txs /\ txs[x.tx] \in TxRow
  BY <1>2, OfRow DEF CallGood
<1>4. PICK dirty : dirty = DirtyColumns(x.copy, txs[x.tx])
  OBVIOUS
<1>5. "status" \in dirty <=> x.copy.status # txs[x.tx].status
  BY <1>2, <1>3, <1>4 DEF DirtyColumns, TxRow
<1>6. PICK new : new = [x EXCEPT !.pc = "write", !.dirty = dirty]
  OBVIOUS
<1>7. /\ new.pc = "write" /\ new.tx = x.tx /\ new.copy = x.copy
      /\ new.dirty = dirty
  BY <1>2, <1>6 DEF Call
<1>8. Become(c, new) /\ UNCHANGED <<txs, ledger, sent>>
  BY <1>1, <1>4, <1>6 DEF SaveReload
<1>9. LastWord(new)
  BY <1>2, <1>5, <1>7 DEF LastWord, Saving
<1> QED BY <1>8, <1>9, StickyQuiet

\* What a save makes of a row: a PAID one stays PAID.
LEMMA SaveWriteSticky ==
  ASSUME IInv, Sticky, NEW c \in Calls, SaveWrite(c)
  PROVE  /\ Sticky'
         /\ \A t \in Txs : txs[t].status = "PAID" => txs'[t].status = "PAID"
<1>1. PICK x : x = calls[c]
  OBVIOUS
<1>2. /\ CallGood(x) /\ x \in Call /\ x.copy \in TxRow
      /\ x.pc = "write" /\ LastWord(x)
  BY <1>1, OfCall DEF SaveWrite, At, Sticky
<1>3. PICK t : t = x.tx
  OBVIOUS
<1>4. /\ t \in Txs /\ txs[t] \in TxRow /\ txs \in [Txs -> TxRow]
      /\ Backed(x.copy) /\ Backed(txs[t]) /\ Honest(txs[t])
      /\ txs[t].ref # NULL => x.copy.ref = txs[t].ref
      /\ "ref" \in x.dirty <=> x.copy.ref # txs[t].ref
  BY <1>2, <1>3, OfRow
     DEF CallGood, RowGood, Saving, IInv, TypeOK, Sticky, RowsHonest
<1>5. PICK row : row = SavedRow(txs[t], x.copy, x.dirty)
  OBVIOUS
<1>6. /\ row \in TxRow
      /\ row.status = IF "status" \in x.dirty THEN x.copy.status ELSE txs[t].status
      /\ row.ref = IF "ref" \in x.dirty THEN x.copy.ref ELSE txs[t].ref
  BY <1>2, <1>4, <1>5, Saved
<1>7. /\ txs' = [txs EXCEPT ![t] = row] /\ Become(c, Idle)
      /\ UNCHANGED <<ledger, sent>>
  BY <1>1, <1>3, <1>5 DEF SaveWrite
<1>8. txs'[t] = row /\ \A u \in Txs : u # t => txs'[u] = txs[u]
  BY <1>4, <1>7
<1>9. \/ txs[t].ref = NULL
      \/ x.copy.status = "PAID"
      \/ ledger[txs[t].ref] \in Refusals
  BY <1>2, <1>3, <1>4 DEF LastWord, Saving
<1>10. ASSUME txs[t].status = "PAID" PROVE row.status = "PAID"
  <2>1. txs[t].ref # NULL /\ ledger[txs[t].ref] = "PAID"
    BY <1>4, <1>10 DEF Backed
  <2>2. x.copy.status = "PAID"
    BY <1>9, <2>1 DEF Refusals
  <2> QED BY <1>6, <1>10, <2>2
<1>11. Honest(row)
  <2> SUFFICES ASSUME row.ref # NULL, ledger[row.ref] = "PROCESSING"
               PROVE  row.status = "PROCESSING"
    BY DEF Honest
  <2>1. row.ref = x.copy.ref
    BY <1>4, <1>6
  <2>2. x.copy.status = "PROCESSING"
    BY <1>2, <2>1 DEF LastWord, Honest
  <2>3. CASE txs[t].ref = NULL
    BY <1>2, <1>3, <1>6, <2>2, <2>3 DEF LastWord
  <2>4. CASE txs[t].ref # NULL
    BY <1>4, <1>9, <2>1, <2>2, <2>4 DEF Refusals
  <2> QED BY <2>3, <2>4
<1>12. RowsHonest'
  BY <1>7, <1>8, <1>11 DEF Sticky, RowsHonest, Honest
<1>13. LedgerSettles /\ SentFinal'
  BY <1>7 DEF LedgerSettles, Sticky, SentFinal
<1>14. RowsSettle(c)
  <2>1. calls[c].pc = "write" /\ calls[c].tx = t
    BY <1>1, <1>2, <1>3
  <2>2. txs[t].ref # NULL => row.ref = txs[t].ref
    BY <1>4, <1>6
  <2> QED BY <1>8, <2>1, <2>2 DEF RowsSettle
<1>15. PICK new : new = Idle
  OBVIOUS
<1>16. LastWord(new)'
  BY <1>15, Blank DEF LastWord, Honest, Saving
<1>17. Sticky'
  BY <1>7, <1>12, <1>13, <1>14, <1>15, <1>16, StickyStep
<1> QED BY <1>8, <1>10, <1>17

\* A callback or a query is about to save what the provider said last.
LEMMA LearnsSticky ==
  ASSUME IInv, Sticky, Steady, NEW c \in Calls,
         CallbackCheck(c) \/ CallbackStore(c) \/ QueryProvider(c)
  PROVE  Sticky'
<1>1. PICK x : x = calls[c]
  OBVIOUS
<1>2. /\ CallGood(x) /\ x \in Call /\ x.copy \in TxRow /\ LastWord(x)
      /\ x.pc \in Loaded
  BY <1>1, OfCall DEF CallbackCheck, CallbackStore, QueryProvider, At, Sticky, Loaded
<1>3. /\ x.copy.ref \in Txs /\ ledger[x.copy.ref] # "none"
      /\ UNCHANGED <<txs, ledger, sent>>
  BY <1>2, Names
     DEF CallGood, Backed, TxRow, CallbackCheck, CallbackStore, QueryProvider
<1>4. CASE Become(c, Idle)
  BY <1>3, <1>4, IdleLastWord, StickyQuiet
<1>5. CASE ~Become(c, Idle) /\ CallbackCheck(c)
  <2>1. PICK new : new = [x EXCEPT !.pc = "event_save"]
    OBVIOUS
  <2>2. new.pc = "event_save" /\ new.copy = x.copy
    BY <1>2, <2>1 DEF Call
  <2>3. Become(c, new)
    BY <1>1, <1>5, <2>1 DEF CallbackCheck
  <2>4. LastWord(new)
    BY <1>2, <2>2 DEF LastWord, Saving
  <2> QED BY <1>3, <2>3, <2>4, StickyQuiet
<1>6. CASE ~Become(c, Idle) /\ ~CallbackCheck(c)
  <2>1. PICK status, new :
          /\ new = Saves(x, status) /\ Become(c, new)
          /\ \/ status = "PAID" /\ ledger[x.copy.ref] = "PAID"
             \/ ledger[x.copy.ref] \in Refusals
          /\ status \in TxStatuses
    <3>1. CASE CallbackStore(c)
      <4>1. PICK e : e = x.event
        OBVIOUS
      <4>2. x.pc = "event_save"
        BY <1>1, <3>1 DEF CallbackStore, At
      <4>3. e \in sent /\ e.ref = x.copy.ref /\ e \in Event
        BY <1>2, <4>1, <4>2 DEF CallGood, IInv, TypeOK
      <4>4. e.status \in {"PAID", "FAILED"}
        BY <4>3, NoticesAssumption DEF Event, Steady
      <4>5. /\ e.status = "FAILED" => ledger[x.copy.ref] = "FAILED"
            /\ e.status = "PAID" => ledger[x.copy.ref] = "PAID"
        BY <4>3 DEF Sticky, SentFinal, IInv, SentGood
      <4>6. Become(c, Saves(x, e.status))
        BY <1>1, <1>6, <3>1, <4>1 DEF CallbackStore, Saves
      <4> QED BY <4>4, <4>5, <4>6 DEF Refusals, TxStatuses
    <3>2. CASE QueryProvider(c)
      <4>1. PICK known : known = ledger[x.copy.ref]
        OBVIOUS
      <4>2. known # x.copy.status /\ Become(c, Saves(x, known))
        BY <1>1, <1>6, <3>2, <4>1 DEF QueryProvider, Saves
      <4>3. known # "PROCESSING"
        BY <1>2, <1>3, <4>1, <4>2, Names DEF LastWord, Honest
      <4>4. known \in {"PAID", "FAILED", "REFUNDED"}
        BY <1>3, <4>1, <4>3 DEF IInv, TypeOK
      <4> QED BY <4>1, <4>2, <4>4 DEF Refusals, TxStatuses
    <3> QED BY <1>6, <3>1, <3>2
  <2>2. /\ new.pc = "reload" /\ new.tx = x.tx
        /\ new.copy.status = status /\ new.copy.ref = x.copy.ref
    BY <1>2, <2>1, WithStatus
  <2>3. ledger[x.copy.ref] # "PROCESSING"
    BY <2>1 DEF Refusals
  <2>4. LastWord(new)
    BY <1>3, <2>1, <2>2, <2>3 DEF LastWord, Honest, Saving
  <2> QED BY <1>3, <2>1, <2>4, StickyQuiet
<1> QED BY <1>4, <1>5, <1>6

\* What the provider does on its own.
LEMMA ProviderSticky ==
  ASSUME IInv, Sticky, NEW t \in Txs, ProviderSettles(t) \/ ProviderNotifies(t)
  PROVE  Sticky'
<1>1. UNCHANGED <<txs, calls>>
  BY DEF ProviderSettles, ProviderNotifies
<1>2. LedgerSettles
  BY DEF ProviderSettles, ProviderNotifies, LedgerSettles, Refusals, IInv, TypeOK
<1>3. SentFinal'
  <2>1. CASE ProviderSettles(t)
    BY <1>2, <2>1
       DEF ProviderSettles, IInv, TypeOK, Event, Sticky, SentFinal,
           LedgerSettles, Refusals
  <2>2. CASE ProviderNotifies(t)
    BY <2>2 DEF ProviderNotifies, Sticky, SentFinal
  <2> QED BY <2>1, <2>2
<1>4. ASSUME NEW row \in TxRow, Backed(row), Honest(row) PROVE Honest(row)'
  BY <1>2, <1>4, HonestStays
<1>5. RowsHonest'
  <2> SUFFICES ASSUME NEW u \in Txs PROVE Honest(txs[u])'
    BY DEF RowsHonest
  <2>1. PICK row : row = txs[u]
    OBVIOUS
  <2>2. row \in TxRow /\ Backed(row) /\ Honest(row)
    BY <2>1, OfRow DEF RowGood, Sticky, RowsHonest
  <2>3. Honest(row)'
    BY <1>4, <2>2
  <2> QED BY <1>1, <2>1, <2>3 DEF Honest
<1>6. ASSUME NEW c \in Calls PROVE LastWord(calls[c])'
  <2>1. PICK x : x = calls[c]
    OBVIOUS
  <2>2. CallGood(x) /\ x \in Call /\ x.copy \in TxRow /\ LastWord(x)
    BY <2>1, OfCall DEF Sticky
  <2>3. Honest(x.copy)'
    BY <1>4, <2>2 DEF CallGood, LastWord
  <2>4. ASSUME x.pc \in Saving, txs[x.tx].ref # NULL PROVE x.copy.ref \in Txs
    <3>1. x.tx \in Txs /\ x.copy.ref = txs[x.tx].ref
      BY <2>2, <2>4 DEF CallGood, Saving
    <3> QED BY <2>4, <3>1, OfRow
  <2>5. LastWord(x)'
    BY <1>1, <1>2, <2>2, <2>3, <2>4 DEF LastWord, LedgerSettles
  <2> QED BY <1>1, <2>1, <2>5 DEF LastWord, Honest
<1> QED BY <1>3, <1>5, <1>6 DEF Sticky

\* What has been steady was steady all along.
LEMMA SteadyBefore ==
  ASSUME [Next]_vars, Steady' PROVE Steady
<1>1. sent \subseteq sent'
  BY DEF Next, vars, Initiate, RefundStart, QueryFind, Deliver, CallbackFind,
         Step, Insert, ProviderTakes, ProviderRefunds, SaveReload, SaveWrite,
         CallbackCheck, CallbackStore, QueryProvider, SaveThrows, Abort,
         ProviderSettles, ProviderNotifies
<1>2. thrown' = thrown \/ thrown' = TRUE
  BY DEF Next, vars, Initiate, RefundStart, QueryFind, Deliver, CallbackFind,
         Step, Insert, ProviderTakes, ProviderRefunds, SaveReload, SaveWrite,
         CallbackCheck, CallbackStore, QueryProvider, SaveThrows, Abort,
         ProviderSettles, ProviderNotifies
<1>3. ~thrown' /\ \A e \in sent : e.status # "PROCESSING"
  BY <1>1 DEF Steady
<1>4. CASE thrown' = thrown
  BY <1>3, <1>4, Zenon DEF Steady
<1>5. CASE thrown' = TRUE
  BY <1>3, <1>5
<1> QED BY <1>2, <1>4, <1>5

\* With final callbacks and no save that throws, every step keeps Sticky.
LEMMA StickyNext ==
  ASSUME IInv, Sticky, [Next]_vars, Steady, Steady'
  PROVE  /\ Sticky'
         /\ \A t \in Txs : txs[t].status = "PAID" => txs'[t].status = "PAID"
<1>1. CASE UNCHANGED vars
  BY <1>1 DEF vars, Sticky, RowsHonest, SentFinal, LastWord, Honest
<1>2. CASE \E c \in Calls : SaveWrite(c)
  BY <1>2, SaveWriteSticky
<1>3. CASE ~(UNCHANGED vars) /\ ~\E c \in Calls : SaveWrite(c)
  <2>1. \A t \in Txs : txs[t].status = "PAID" => txs'[t].status = "PAID"
    <3>1. CASE \E c \in Calls : Insert(c)
      <4>1. PICK c \in Calls : Insert(c)
        BY <3>1
      <4>2. calls[c].tx \in Txs
        BY <4>1, OfCall DEF Insert, At, CallGood
      <4> QED BY <4>1, <4>2 DEF Insert, IInv, TypeOK
    <3>2. CASE ~\E c \in Calls : Insert(c)
      <4>1. txs' = txs
        BY <1>3, <3>2
           DEF Next, Initiate, RefundStart, QueryFind, Deliver, CallbackFind,
               Step, ProviderTakes, ProviderRefunds, SaveReload, CallbackCheck,
               CallbackStore, QueryProvider, SaveThrows, Abort,
               ProviderSettles, ProviderNotifies
      <4> QED BY <4>1
    <3> QED BY <3>1, <3>2
  <2>2. ASSUME NEW c \in Calls, NEW k \in Keys,
               NEW direction \in {"COLLECTION", "PAYOUT"}, Initiate(c, k, direction)
        PROVE  Sticky'
    BY <2>2, BeginsSticky
  <2>3. ASSUME NEW c \in Calls, NEW k \in Keys, RefundStart(c, k) PROVE Sticky'
    BY <2>3, BeginsSticky
  <2>4. ASSUME NEW c \in Calls, NEW t \in Txs, QueryFind(c, t) PROVE Sticky'
    BY <2>4, FindsSticky
  <2>5. ASSUME NEW c \in Calls, NEW e \in Event, CallbackFind(c, e) PROVE Sticky'
    BY <2>5, FindsSticky
  <2>6. ASSUME NEW c \in Calls, Step(c) PROVE Sticky'
    BY <1>3, <2>6, InsertSticky, AnswerSticky, SaveReloadSticky, LearnsSticky
       DEF Step
  <2>7. ASSUME NEW c \in Calls, Abort(c) PROVE Sticky'
    BY <2>7, IdleLastWord, StickyQuiet DEF Abort
  <2>8. ASSUME NEW t \in Txs, ProviderSettles(t) \/ ProviderNotifies(t)
        PROVE  Sticky'
    BY <2>8, ProviderSticky
  <2>9. ~\E c \in Calls : SaveThrows(c)
    BY DEF SaveThrows, Steady
  <2> QED BY <1>3, <2>1, <2>2, <2>3, <2>4, <2>5, <2>6, <2>7, <2>8, <2>9
          DEF Next, Deliver
<1> QED BY <1>1, <1>2, <1>3

\* Once PAID, a row stays PAID, whatever stale entity is saved last, as long as
\* callbacks only tell what is final and the save of a provider's answer does
\* not throw (handleCallback(), queryTransaction(), the try blocks around the
\* provider).
THEOREM PaidForGood == Spec => PaidSticks
<1>1. Init => Sticky
  <2>1. \A row : row.ref = NULL => Honest(row)
    BY DEF Honest
  <2> QED BY <2>1, Blank, IdleLastWord DEF Init, Sticky, RowsHonest, SentFinal
<1>. DEFINE Known == Steady => Sticky
<1>2. IInv /\ Known /\ [Next]_vars => Known'
  BY SteadyBefore, StickyNext
<1>3. IInv /\ Known /\ [Next]_vars
        => [\A t \in Txs : Steady' /\ txs[t].status = "PAID"
                            => txs'[t].status = "PAID"]_vars
  BY SteadyBefore, StickyNext
<1>4. Init => Known
  BY <1>1
<1>. HIDE DEF Known
<1> QED BY <1>2, <1>3, <1>4, Invariance, PTL DEF Spec, PaidSticks

=============================================================================
