---------------------------- MODULE KeysetPaging ----------------------------
(* Keyset pagination, as the verification queue and the audit listing do   *)
(* it: a row is its key, a pair of time and id; a page is what follows a    *)
(* cursor, cut after the limit, and the cursor of the next page is the last *)
(* row of this one.  The query asks for one row more than the limit, which  *)
(* only tells whether there is a next page.                                 *)
EXTENDS Integers, FiniteSets

Keys == Int \X Int

(* (t, id) < (u, jd), as PostgreSQL compares rows *)
Precedes(k, l) == \/ k[1] < l[1]
                  \/ k[1] = l[1] /\ k[2] < l[2]

(* Mutations: the cursor's own row is returned again; rows of the cursor's  *)
(* time are taken for returned                                              *)
BugBeyondInclusive(K, cursor) == {k \in K : cursor = <<>> \/ ~Precedes(k, cursor)}
BugBeyondTime(K, cursor) == {k \in K : cursor = <<>> \/ cursor[1] < k[1]}

(* the rows beyond a cursor; <<>> is the cursor of the first page, which    *)
(* the code decodes to a key before, or after, every row                    *)
Beyond(K, cursor) == {k \in K : cursor = <<>> \/ Precedes(cursor, k)}

(* the number of a row in the order of the query *)
RowNumber(k, K) == Cardinality({l \in K : ~Precedes(k, l)})

(* rows[:limit] *)
Page(K, limit) == {k \in K : RowNumber(k, K) <= limit}

BugLastOfAll(K, limit) == {k \in K : RowNumber(k, K) = limit + 1}

(* rows[limit - 1], if there is a row after it *)
LastOfPage(K, limit) ==
    {k \in K : RowNumber(k, K) = limit /\ Cardinality(K) > limit}
=============================================================================
