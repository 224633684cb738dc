---------------------------- MODULE AccountsProps ----------------------------
(***************************************************************************)
(* What signing in promises, when up to n requests run at the same time.    *)
(***************************************************************************)
EXTENDS Accounts

\* A code is accepted once by each of the requests that may run at once, and
\* locked after MaxAttempts wrong tries, but for those that were read before
\* the lock and those that died before they took it: whatever expires, and
\* whatever becomes of older codes (requestOtp(), verifyOtp()).
CodeIsGuarded(n) ==
    \A k \in Codes :
        /\ tally.accepted[k] <= n
        /\ tally.wrong[k] <= MaxAttempts + (n - 1) + tally.deaths

\* Each time it is issued, a refresh token is good for one new pair of tokens,
\* or one for each of the requests that may run at once (refresh(),
\* issueTokens()).
TokenIsUsedOnce(n) == \A t \in Tokens : tally.used[t] <= n

=============================================================================
