------------------------------ MODULE SortedSet ------------------------------
(***************************************************************************)
(* The Redis sorted set queue:{eventId}, as internal/scheduler and         *)
(* internal/api use it.  A sorted set is a set q of members with a score   *)
(* function.  Redis orders members by score and, at equal scores, by       *)
(* member name; a member name (a ticket's UUID) is a natural number here,  *)
(* so that "by name" is <.                                                 *)
(***************************************************************************)
EXTENDS Integers, FiniteSets

\* t is ordered before u: a smaller score, or the same score and a smaller name.
Before(score, t, u) == \/ score[t] < score[u]
                       \/ score[t] = score[u] /\ t < u

\* ZRANK: how many members are ordered before t.
Rank(score, q, t) == Cardinality({u \in q : Before(score, u, t)})

\* A mutant: ZPOPMAX, the n members of highest rank.
PopMax(score, q, n) == {t \in q : Cardinality({u \in q : Before(score, t, u)}) < n}

\* ZPOPMIN: the n members of lowest rank (all of them when there are fewer).
PopMin(score, q, n) == {t \in q : Rank(score, q, t) < n}

\* t is the member of q that ZPOPMIN returns first.
IsFirst(score, q, t) == /\ t \in q
                        /\ \A u \in q \ {t} : Before(score, t, u)

\* No member of q that stays behind is ordered before one of S.
FrontClosed(score, q, S) == \A t \in S, u \in q : Before(score, u, t) => u \in S

\* store.GetPosition: the rank, or -1 for a ticket that is not in the set.
GetPosition(score, q, t) == IF t \in q THEN Rank(score, q, t) ELSE -1
==============================================================================
