-------------------------- MODULE MCIdentityStore --------------------------
(* The vault with two identities and two sessions, whose profiles are under *)
(* the ceiling of an identity or over it; and the plan of evictions on      *)
(* every vault of three identities.                                        *)
EXTENDS IdentityStore

CONSTANTS i1, i2, s1, s2, Retention, MaxTotal, Unknown, Now

TwoIdentities == {i1, i2}
TwoSessions == {s1, s2}
SmallOrBig == {1, 3}

LOCAL E == INSTANCE Eviction WITH MaxOfOne <- MaxPerIdentity

Vaults == UNION {[is -> [bytes : 0..3, usage : 0..Now \cup {Unknown}]] : is \in SUBSET (1..3)}

\* Once the plan is applied, what is left is the newest that fits, within its retention: no
\* account goes because it is big, or because another one is (identity-store-pure.js:169-174).
ASSUME EvictsOldest ==
  \A vault \in Vaults :
    LET left == E!Evict(vault, E!PlanEviction(E!Measured(vault), Now), {})
    IN  E!Measured(left) = E!Kept(vault, Now)

\* An account whose last use is not known goes after all those known to be older than now
\* (identity-store-pure.js:176-178).
ASSUME EvictsUnknownLast ==
  \A vault \in Vaults :
    LET entries == E!Measured(vault)
        evict == E!PlanEviction(entries, Now).evict
    IN  (\E e \in evict : e.usage = Unknown) =>
          {e \in entries : e.usage \in 0..(Now - 1)} \subseteq evict

\* A removal that failed never costs an account the plan had kept: the next plan asks for
\* what stayed, or less.
ASSUME EvictsNoMore ==
  \A vault \in Vaults : \A stuck \in SUBSET DOMAIN vault :
    LET plan == E!PlanEviction(E!Measured(vault), Now)
        left == E!Evict(vault, plan, stuck)
        again == E!PlanEviction(E!Measured(left), Now)
    IN  again.evict \subseteq {e \in plan.evict : e.identity \in stuck}
=============================================================================
