------------------------------ MODULE TrustCaps ------------------------------
(***************************************************************************)
(* The declared value a driver of each trust level may carry                *)
(* (src/src/modules/trust/trust.service.ts): caps an administrator may      *)
(* change at any time, and the level that a parcel of some value requires.  *)
(***************************************************************************)
EXTENDS Integers, FiniteSetsExt

CONSTANTS
    Amounts,  \* declared values and caps
    Seed,     \* the caps seeded on first boot (DEFAULT_CONFIGS)
    NoCap     \* NULL

\* KYC_SIMPLE, REFERENCED and ENTERPRISE
Levels == 1..3

Caps == [Levels -> Amounts \cup {NoCap}]

ASSUME AmountsAssumption == Amounts \subseteq Nat /\ NoCap \notin Nat
ASSUME SeedAssumption == Seed \in Caps

VARIABLE caps  \* the trust_configs table

Covers(cap, amount) == cap = NoCap \/ amount <= cap

\* Mutant of RequiredLevel: the last level that covers it.
RequiredLevelLast(amount) ==
    LET fits == {l \in Levels : Covers(caps[l], amount)}
    IN  IF fits = {} THEN 1 ELSE Max(fits)

\* getRequiredTrustLevel(): the first level that covers the amount, else
\* ENTERPRISE.
RequiredLevel(amount) ==
    LET fits == {l \in Levels : Covers(caps[l], amount)}
    IN  IF fits = {} THEN 3 ELSE Min(fits)

\* onModuleInit()
CapsInit == caps = Seed

\* updateConfig(): load and save of one column, which nothing else writes.
UpdateConfig(level, cap) == caps' = [caps EXCEPT ![level] = cap]

CapsNext == \E level \in Levels, cap \in Amounts \cup {NoCap} : UpdateConfig(level, cap)

CapsSpec == CapsInit /\ [][CapsNext]_caps

\* Whatever caps the administrator enters, in whatever order, a parcel of more
\* value never asks for less trust than a cheaper one.
RequiredLevelGrows ==
    \A a, b \in Amounts : a <= b => RequiredLevel(a) <= RequiredLevel(b)

=============================================================================
