------------------------------ MODULE Eviction ------------------------------
(***************************************************************************)
(* Which identities leave the vault (planEviction, src/identity-store-     *)
(* pure.js), from what is measured of it and by what removes them          *)
(* (mesurer, evincer, src/identity-store.js).  Nothing in the code calls   *)
(* them yet.  MCIdentityStore compares the plan with the reference below   *)
(* on every small vault.                                                   *)
(*                                                                         *)
(* An identity is a number, ordered as localeCompare orders its name; an   *)
(* entry says what it weighs and when it was last used.                    *)
(***************************************************************************)
EXTENDS Naturals, SequencesExt

CONSTANTS
  Retention,      \* retentionJours
  MaxTotal,       \* maxTotalMo
  MaxOfOne,       \* maxParIdentiteMo
  Unknown         \* the last use of an identity without its metadata

\* mesurer: one entry for each directory of an identity (what a cut snapshotRetour left beside
\* is not one)
Measured(vault) ==
  {[identity |-> i, bytes |-> vault[i].bytes, usage |-> vault[i].usage] : i \in DOMAIN vault}

\* what is not known to be old is taken as used now
Usage(e, now) == IF e.usage = Unknown THEN now ELSE e.usage

Retained(entries, now) == {e \in entries : now - Usage(e, now) <= Retention}

OldestFirst(entries, now) ==
  SetToSortSeq(entries, LAMBDA a, b :
    \/ Usage(a, now) < Usage(b, now)
    \/ Usage(a, now) = Usage(b, now) /\ a.identity < b.identity)

Total(entries) == MapThenSumSet(LAMBDA e : e.bytes, entries)

\* the loop over the survivors, oldest first: until the total fits
OverCeiling(entries, now) ==
  FoldLeft(LAMBDA r, e : IF r.total <= MaxTotal
                         THEN r
                         ELSE [total |-> r.total - e.bytes, out |-> r.out \cup {e}],
           [total |-> Total(entries), out |-> {}], OldestFirst(entries, now)).out

PlanEviction(entries, now) ==
  LET survivors == Retained(entries, now)
  IN  [evict  |-> (entries \ survivors) \cup OverCeiling(survivors, now),
       exceed |-> {e \in entries : e.bytes > MaxOfOne}]

\* evincer: what could not be removed stays, and is not said to be gone
Evict(vault, plan, stuck) ==
  LET gone == {e.identity : e \in plan.evict} \ stuck
  IN  [i \in DOMAIN vault \ gone |-> vault[i]]

---------------------------------------------------------------------------
(* What the plan should be.                                                *)

\* the newest entries that fit together, none skipped
Newest(entries, now) ==
  LET order == OldestFirst(entries, now)
      From(k) == {order[i] : i \in k..Len(order)}
      fits == {k \in 1..(Len(order) + 1) : Total(From(k)) <= MaxTotal}
  IN  From(Min(fits))

Kept(vault, now) == Newest(Retained(Measured(vault), now), now)
=============================================================================
