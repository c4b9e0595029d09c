---------------------------- MODULE ResultStore ----------------------------
(***************************************************************************)
(* The store of a future's results (qresultstore.h and .cpp of             *)
(* src/src/corelib/thread): a map from the index of an item's first result *)
(* to the item, with a count of the results that are there without a gap.  *)
(* In filter mode an item that comes early is held back in pendingResults, *)
(* and the indices of the results that were kept close up.                 *)
(*                                                                         *)
(* A store is a record and the functions of the class are operators from   *)
(* one store to the next.  An item is [size, values]: a single result and  *)
(* a list of one are the same; an item without values is not valid, and    *)
(* stands for the size results that were filtered away.                    *)
(***************************************************************************)
EXTENDS Integers, SequencesExt

NoItem == <<>>

EmptyStore(filter) ==
  [results |-> NoItem, resultCount |-> 0, insertIndex |-> 0,
   filterMode |-> filter, pending |-> NoItem, filteredResults |-> 0]

IsValid(item) == item.values # <<>>

\* findResult: the last item that begins at i or before it, if it reaches i.
Before(map, i) == {k \in DOMAIN map : k <= i}
HasResult(map, i) ==
  /\ Before(map, i) # {}
  /\ LET k == Max(Before(map, i)) IN i - k < map[k].size
ResultAt(map, i) == LET k == Max(Before(map, i)) IN map[k].values[i - k + 1]

\* syncResultCount: whole items, as long as there is one at the count.
SyncResultCount(store) ==
  LET map == store.results
      count[c \in Nat] ==
        IF HasResult(map, c) THEN count[c + map[Max(Before(map, c))].size] ELSE c
  IN [store EXCEPT !.resultCount = count[@]]

InsertIfValid(store, index, item) ==
  IF IsValid(item)
  THEN SyncResultCount([store EXCEPT !.results = (index :> item) @@ @])
  ELSE [store EXCEPT !.filteredResults = @ + item.size]

\* Fault: a pending item is looked for once.
SyncFirstPending(store) ==
  LET k == store.resultCount + store.filteredResults
  IN IF k \in DOMAIN store.pending
     THEN [InsertIfValid(store, k - store.filteredResults, store.pending[k])
             EXCEPT !.pending = Restrict(@, DOMAIN @ \ {k})]
     ELSE store

\* syncPendingResults: in the order of their keys, up to the first that is
\* not next.
SyncPending(store) ==
  LET Step(s, k) ==
        IF k = s.resultCount + s.filteredResults /\ k = Min(DOMAIN s.pending)
        THEN [InsertIfValid(s, k - s.filteredResults, s.pending[k])
                EXCEPT !.pending = Restrict(@, DOMAIN @ \ {k})]
        ELSE s
  IN FoldLeft(Step, store, SetToSortSeq(DOMAIN store.pending, <))

\* insertResultItem with updateInsertIndex, for an index that is not -1.
InsertResultItem(store, index, item) ==
  SyncPending(
    IF store.filterMode /\ index > store.insertIndex
    THEN [store EXCEPT !.pending = (index :> item) @@ @]
    ELSE InsertIfValid([store EXCEPT !.insertIndex = Max({index + item.size, @})],
                       index - store.filteredResults, item))

\* containsValidResultItem: what addResult and addResults reject.
ContainsValid(store, index) ==
  LET map == IF store.filterMode /\ index > store.insertIndex
             THEN store.pending ELSE store.results
  IN /\ HasResult(map, index)
     /\ IsValid(map[Max(Before(map, index))])

\* addResults: total results from index on, of which values were kept; what
\* was filtered away follows as an item of its own.
AddResults(store, index, values, total) ==
  LET kept == Len(values)
      Some == InsertResultItem(store, index, [size |-> kept, values |-> values])
      Away == [size |-> total - kept, values |-> <<>>]
  IN IF kept = total THEN Some
     ELSE InsertResultItem(IF kept > 0 THEN Some ELSE store, index + kept, Away)

\* The results that are there without a gap.
Visible(store) ==
  [i \in 1..store.resultCount |-> ResultAt(store.results, i - 1)]
=============================================================================
