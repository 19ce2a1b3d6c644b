----------------------------- MODULE CatalogProofs -----------------------------
(***************************************************************************)
(* Theorems about Catalog, for every set of products, of requests and of   *)
(* options, every page size and every bound, whatever goes wrong and       *)
(* however requests and changes of the shop interleave.                    *)
(***************************************************************************)
EXTENDS Catalog, FiniteSetTheorems, NaturalExtrema

Syncing == {"fetch", "persist", "count", "delete"}
Indexing == {"read", "embed", "prune"}

\* What a request has in memory, by where it is.
Shape(r) ==
  /\ pc[r] \in Syncing => sync[r] \in Sync /\ sync[r].status # "completed"
  /\ pc[r] \in Indexing => sync[r] \in Sync /\ reindex[r] \in Reindex

\* What makes CompletedStoredAll inductive: the flag that FinalStatus looks at
\* is up as soon as one product that was read was not stored.
Flagged(m) ==
  /\ ~m.failed => m.seen \subseteq m.wrote
  /\ m.status = "completed" => ~m.failed

CatalogInv ==
  /\ TypeOK
  /\ \A r \in Requests : Shape(r)
  /\ \A r \in Requests : sync[r] \in Sync => Flagged(sync[r])

--------------------------------------------------------------------------------
(* Pages and slices.                                                       *)

\* The page that a request holds has a natural number of products.
LEMMA CountIsNat ==
  ASSUME NEW S \in SUBSET Products
  PROVE  Cardinality(S) \in Nat
BY FS_Subset, FS_CardinalityType, CatalogAssumption

LEMMA RowsType ==
  ASSUME NEW rows \in Rows, NEW page \in Rows, NEW S \in SUBSET Products
  PROVE  /\ NoPage \in Rows
         /\ In(rows) \in SUBSET Products
         /\ Restricted(rows, S) \in Rows /\ Without(rows, S) \in Rows
         /\ Overwritten(rows, page) \in Rows
BY DEF Rows, NoPage, In, Restricted, Without, Overwritten

--------------------------------------------------------------------------------
(* The results that the steps compute are well typed and flagged.          *)

LEMMA FreshType ==
  ASSUME NEW o \in Option
  PROVE  /\ FreshSync(o) \in Sync /\ Flagged(FreshSync(o))
         /\ FreshSync(o).status = "in_progress"
BY DEF FreshSync, Sync, Flagged, Rows, NoPage

LEMMA FreshIndexType == FreshReindex \in Reindex
BY DEF FreshReindex, Reindex, Rows, NoPage

LEMMA FinishedSync ==
  ASSUME NEW m \in Sync, Flagged(m), m.status # "completed"
  PROVE  Finished(m) \in Sync /\ Flagged(Finished(m))
BY DEF Finished, FinalStatus, Sync, Flagged, Rows, NoPage

LEMMA FinishedReindex ==
  ASSUME NEW m \in Reindex
  PROVE  Finished(m) \in Reindex
BY DEF Finished, FinalStatus, Reindex, Rows, NoPage

\* A failure is counted, with whatever page and status it leaves.
LEMMA CountedSync ==
  ASSUME NEW m \in Sync, Flagged(m), NEW page \in Rows,
         NEW status \in {"in_progress", "partial", "failed"}
  PROVE  LET n == [m EXCEPT !.errors = @ + 1, !.page = page, !.status = status]
         IN n \in Sync /\ Flagged(n) /\ n.status # "completed"
<1>1. m.errors + 1 \in Nat
  BY DEF Sync
<1> DEFINE e == m.errors + 1
           n == [m EXCEPT !.errors = e, !.page = page, !.status = status]
<1> HIDE DEF e
<1>2. e \in Nat
  BY <1>1 DEF e
<1>3. n \in Sync
  BY <1>2 DEF Sync
<1>4. n.failed = m.failed /\ n.seen = m.seen /\ n.wrote = m.wrote /\ n.status = status
  BY DEF Sync
<1>5. Flagged(n) /\ n.status # "completed"
  BY <1>4 DEF Flagged
<1> QED BY <1>3, <1>5 DEF e

LEMMA FailedSync ==
  ASSUME NEW m \in Sync, Flagged(m)
  PROVE  LET n == [m EXCEPT !.status = "failed", !.errors = @ + 1]
         IN n \in Sync /\ Flagged(n) /\ n.status # "completed"
<1>1. m.page \in Rows /\ [m EXCEPT !.status = "failed", !.errors = @ + 1] =
        [m EXCEPT !.errors = @ + 1, !.page = m.page, !.status = "failed"]
  BY DEF Sync
<1> QED BY <1>1, CountedSync

\* Report ends the synchronisation: the request indexes next, or is done.
LEMMA ReportStep ==
  ASSUME CatalogInv, NEW r \in Requests, NEW m \in Sync, Flagged(m),
         m.status # "completed", Report(r, m)
  PROVE  /\ sync' \in [Requests -> Sync \union {None}]
         /\ reindex' \in [Requests -> Reindex \union {None}]
         /\ pc' \in [Requests -> Idle \union Syncing \union Indexing]
         /\ \A q \in Requests : Shape(q)'
         /\ \A q \in Requests : sync'[q] \in Sync => Flagged(sync'[q])
<1>1. Finished(m) \in Sync /\ Flagged(Finished(m))
  BY FinishedSync
<1>2. FreshReindex \in Reindex
  BY FreshIndexType
<1> QED
  BY <1>1, <1>2 DEF Report, KeepIndex, Goto, CatalogInv, TypeOK, Shape, Syncing, Indexing, Idle

\* A step of the loop keeps the request in it.
LEMMA KeepStep ==
  ASSUME CatalogInv, NEW r \in Requests, NEW m \in Sync, Flagged(m),
         m.status # "completed", NEW label \in Syncing, Keep(r, m, label),
         UNCHANGED reindex
  PROVE  /\ sync' \in [Requests -> Sync \union {None}]
         /\ pc' \in [Requests -> Idle \union Syncing \union Indexing]
         /\ \A q \in Requests : Shape(q)'
         /\ \A q \in Requests : sync'[q] \in Sync => Flagged(sync'[q])
BY DEF Keep, Goto, CatalogInv, TypeOK, Shape, Syncing, Indexing, Idle

LEMMA KeepIndexStep ==
  ASSUME CatalogInv, NEW r \in Requests, pc[r] \in Indexing, NEW m \in Reindex,
         NEW label \in Indexing \union {"done"}, KeepIndex(r, m, label), UNCHANGED sync
  PROVE  /\ reindex' \in [Requests -> Reindex \union {None}]
         /\ pc' \in [Requests -> Idle \union Syncing \union Indexing]
         /\ \A q \in Requests : Shape(q)'
         /\ \A q \in Requests : sync'[q] \in Sync => Flagged(sync'[q])
BY DEF KeepIndex, Goto, CatalogInv, TypeOK, Shape, Syncing, Indexing, Idle

--------------------------------------------------------------------------------
(* Every action keeps the invariant.                                       *)

LEMMA TroubleType ==
  ASSUME NEW kind, NEW happens, Trouble(kind, happens), troubles \in Nat
  PROVE  troubles' \in Nat
BY DEF Trouble

LEMMA InitInv == Init => CatalogInv
BY CatalogAssumption, NoneAssumption DEF Init, CatalogInv, TypeOK, Shape, Syncing, Indexing, Idle, Rows, Row,
  NoPage, Product

LEMMA EditShopInv == CatalogInv /\ EditShop => CatalogInv'
<1> SUFFICES ASSUME CatalogInv, EditShop
             PROVE  CatalogInv'
  OBVIOUS
<1>1. PICK p \in Edited, b \in BOOLEAN, gone \in BOOLEAN :
        shop' = [shop EXCEPT ![p] = IF gone THEN None ELSE Product(edits + 1, b)]
  BY DEF EditShop
<1>2. Product(edits + 1, b) \in Row
  BY DEF Product, Row, CatalogInv, TypeOK
<1>3. shop' \in Rows
  BY <1>1, <1>2, CatalogAssumption DEF Rows, CatalogInv, TypeOK
<1>4. TypeOK'
  BY <1>3 DEF EditShop, CatalogInv, TypeOK, request
<1> QED
  BY <1>4 DEF EditShop, CatalogInv, Shape, request

LEMMA BeginInv == ASSUME CatalogInv, NEW r \in Requests, Begin(r) PROVE CatalogInv'
<1>1. PICK o \in Asks[r], down \in BOOLEAN :
        /\ Trouble("connect", down)
        /\ Keep(r, IF down THEN [FreshSync(o) EXCEPT !.status = "failed", !.errors = 1]
                           ELSE FreshSync(o),
                IF down THEN "done" ELSE "fetch")
  BY DEF Begin
<1>2. o \in Option
  BY CatalogAssumption
<1> DEFINE m == IF down THEN [FreshSync(o) EXCEPT !.status = "failed", !.errors = 1]
                        ELSE FreshSync(o)
           label == IF down THEN "done" ELSE "fetch"
<1>3. m \in Sync /\ Flagged(m) /\ m.status # "completed"
  <2>1. FreshSync(o) \in Sync /\ Flagged(FreshSync(o)) /\ FreshSync(o).status = "in_progress"
    BY <1>2, FreshType
  <2>2. CASE down
    BY <2>1, <2>2 DEF Sync, Flagged
  <2>3. CASE ~down
    BY <2>1, <2>3
  <2> QED BY <2>2, <2>3
<1>4. sync' = [sync EXCEPT ![r] = m] /\ pc' = [pc EXCEPT ![r] = label]
  BY <1>1 DEF Keep, Goto
<1> HIDE DEF m
<1>5. TypeOK'
  BY <1>1, <1>3, <1>4, TroubleType DEF Begin, CatalogInv, TypeOK, stores, Idle
<1>6. \A q \in Requests : Shape(q)'
  BY <1>3, <1>4 DEF Begin, CatalogInv, TypeOK, Shape, Syncing, Indexing
<1>7. \A q \in Requests : sync'[q] \in Sync => Flagged(sync'[q])
  BY <1>3, <1>4 DEF CatalogInv, TypeOK
<1> QED
  BY <1>5, <1>6, <1>7 DEF CatalogInv, Flagged

LEMMA FetchInv == ASSUME CatalogInv, NEW r \in Requests, Fetch(r) PROVE CatalogInv'
<1> DEFINE m == sync[r]
           raw == Slice(Listed(m.option), ById, m.offset, BatchSize)
<1>1. PICK kind \in {"none", "parse", "stock"}, bad \in SUBSET raw :
        LET page == [p \in Products |->
                      IF p \in raw \ bad THEN [shop[p] EXCEPT !.real = kind # "stock"] ELSE None]
        IN /\ Trouble(kind, kind # "none")
           /\ calm' = (IF kind = "none" THEN calm ELSE calm \ {r})
           /\ Keep(r, [m EXCEPT !.page = page], IF page = NoPage THEN "count" ELSE "persist")
  BY DEF Fetch
<1> DEFINE page == [p \in Products |->
                     IF p \in raw \ bad THEN [shop[p] EXCEPT !.real = kind # "stock"] ELSE None]
           n == [m EXCEPT !.page = page]
           label == IF page = NoPage THEN "count" ELSE "persist"
<1>2. page \in Rows
  <2>1. ASSUME NEW p \in raw \ bad
        PROVE  [shop[p] EXCEPT !.real = kind # "stock"] \in Row
    <3>1. p \in Products /\ shop[p] # None
      BY DEF Slice, Listed, In
    <3>2. shop[p] \in Row
      BY <3>1 DEF Rows, CatalogInv, TypeOK
    <3> QED BY <3>2 DEF Row
  <2> QED BY <2>1 DEF Rows
<1>3. m \in Sync /\ Flagged(m) /\ m.status # "completed"
  <2>1. pc[r] \in Syncing
    BY DEF Fetch, Syncing
  <2> QED BY <2>1 DEF CatalogInv, Shape
<1> HIDE DEF page, m
<1>4. n \in Sync /\ Flagged(n) /\ n.status # "completed" /\ label \in Syncing
  BY <1>2, <1>3 DEF Sync, Flagged, Syncing
<1> QED
  BY <1>1, <1>4, KeepStep, TroubleType
  DEF Fetch, CatalogInv, TypeOK, stores, page, m, Idle, Syncing, Indexing

\* The two ways in which a fetch fails.
LEMMA FetchFailsInv == ASSUME CatalogInv, NEW r \in Requests, FetchFails(r) PROVE CatalogInv'
<1> DEFINE m == [sync[r] EXCEPT !.errors = @ + 1, !.page = NoPage]
           n == [m EXCEPT !.status = "failed"]
<1>1. sync[r] \in Sync /\ Flagged(sync[r]) /\ sync[r].status # "completed"
  <2>1. pc[r] \in Syncing
    BY DEF FetchFails, Syncing
  <2> QED BY <2>1 DEF CatalogInv, Shape
<1>2. /\ m \in Sync /\ Flagged(m) /\ m.status # "completed"
      /\ n \in Sync /\ Flagged(n) /\ n.status # "completed"
  <2>1. NoPage \in Rows
    BY DEF Rows, NoPage
  <2> DEFINE k(status) == [sync[r] EXCEPT !.errors = @ + 1, !.page = NoPage, !.status = status]
  <2>2. sync[r].status \in {"in_progress", "partial", "failed"}
    BY <1>1 DEF Sync
  <2>3. m = k(sync[r].status) /\ n = k("failed")
    BY <1>1 DEF Sync
  <2>4. ASSUME NEW status \in {"in_progress", "partial", "failed"}
        PROVE  k(status) \in Sync /\ Flagged(k(status)) /\ k(status).status # "completed"
    BY <1>1, <2>1, CountedSync
  <2> HIDE DEF k, m, n
  <2> QED BY <2>2, <2>3, <2>4
<1>3. troubles' \in Nat
  BY TroubleType DEF FetchFails, CatalogInv, TypeOK
<1>4. (Keep(r, m, "count") /\ UNCHANGED reindex) \/ Report(r, n)
  BY DEF FetchFails
<1> HIDE DEF m, n
<1>5. CASE Keep(r, m, "count") /\ UNCHANGED reindex
  BY <1>2, <1>3, <1>5, KeepStep
  DEF FetchFails, CatalogInv, TypeOK, stores, Idle, Syncing, Indexing
<1>6. CASE Report(r, n)
  BY <1>2, <1>3, <1>6, ReportStep
  DEF FetchFails, CatalogInv, TypeOK, stores, Idle, Syncing, Indexing
<1> QED BY <1>4, <1>5, <1>6

\* After a page the loop goes on or ends, and the flag keeps.
LEMMA AfterPageStep ==
  ASSUME CatalogInv, NEW r \in Requests, NEW m \in Sync, Flagged(m),
         m.status # "completed", NEW late \in BOOLEAN, AfterPage(r, m, late),
         UNCHANGED reindex
  PROVE  /\ sync' \in [Requests -> Sync \union {None}]
         /\ pc' \in [Requests -> Idle \union Syncing \union Indexing]
         /\ \A q \in Requests : Shape(q)'
         /\ \A q \in Requests : sync'[q] \in Sync => Flagged(sync'[q])
<1>1. CASE m.errors >= MaxErrors
  <2> DEFINE n == [m EXCEPT !.status = "partial"]
  <2>1. n \in Sync /\ Flagged(n) /\ n.status # "completed"
    BY DEF Sync, Flagged
  <2>2. Keep(r, n, "count")
    BY <1>1 DEF AfterPage
  <2> HIDE DEF n
  <2> QED BY <2>1, <2>2, KeepStep DEF Syncing
<1>2. CASE ~(m.errors >= MaxErrors) /\ late
  <2> DEFINE n == [m EXCEPT !.status = "partial", !.errors = @ + 1]
  <2>1. n \in Sync /\ Flagged(n) /\ n.status # "completed"
    <3>1. m.page \in Rows /\ n = [m EXCEPT !.errors = @ + 1, !.page = m.page, !.status = "partial"]
      BY DEF Sync
    <3> QED BY <3>1, CountedSync
  <2>2. Keep(r, n, "count")
    BY <1>2 DEF AfterPage
  <2> HIDE DEF n
  <2> QED BY <2>1, <2>2, KeepStep DEF Syncing
<1>3. CASE ~(m.errors >= MaxErrors) /\ ~late /\ HasMore(m.page)
  <2> DEFINE n == [m EXCEPT !.offset = NextOffset(m)]
  <2>1. NextOffset(m) \in Nat
    <3>1. m.page \in Rows /\ m.offset \in Nat
      BY DEF Sync
    <3>2. Cardinality(In(m.page)) \in Nat
      BY <3>1, RowsType, CountIsNat
    <3> QED BY <3>1, <3>2 DEF NextOffset
  <2>2. n \in Sync /\ Flagged(n) /\ n.status # "completed"
    <3>1. n \in Sync
      BY <2>1 DEF Sync
    <3>2. n.failed = m.failed /\ n.seen = m.seen /\ n.wrote = m.wrote /\ n.status = m.status
      BY DEF Sync
    <3> QED BY <3>1, <3>2 DEF Flagged
  <2>3. Keep(r, n, "fetch")
    BY <1>3 DEF AfterPage
  <2> HIDE DEF n
  <2> QED BY <2>2, <2>3, KeepStep DEF Syncing
<1>4. CASE ~(m.errors >= MaxErrors) /\ ~late /\ ~HasMore(m.page)
  BY <1>4, KeepStep DEF AfterPage, Syncing
<1> QED BY <1>1, <1>2, <1>3, <1>4

LEMMA PersistInv == ASSUME CatalogInv, NEW r \in Requests, Persist(r) PROVE CatalogInv'
<1> DEFINE m == sync[r]
           here == In(m.page)
<1>1. PICK kind \in {"none", "transform", "persist", "timeout"}, bad \in SUBSET here :
        LET good == here \ bad
            fails == good # {} /\ (m.poisoned \/ kind = "persist")
            stored == IF fails THEN {} ELSE good
            n == [m EXCEPT !.seen = @ \union here,
                           !.kept = @ + Cardinality(here),
                           !.wrote = @ \union stored,
                           !.failed = @ \/ bad # {} \/ fails,
                           !.errors = @ + Cardinality(bad) + (IF fails THEN 1 ELSE 0),
                           !.poisoned = @ \/ fails]
        IN /\ Trouble(kind, kind # "none")
           /\ table' = Overwritten(table, Restricted(m.page, stored))
           /\ calm' = (IF stored = {} THEN calm ELSE calm \cap {r})
           /\ AfterPage(r, n, kind = "timeout")
  BY DEF Persist
<1> DEFINE good == here \ bad
           fails == good # {} /\ (m.poisoned \/ kind = "persist")
           stored == IF fails THEN {} ELSE good
           n == [m EXCEPT !.seen = @ \union here,
                          !.kept = @ + Cardinality(here),
                          !.wrote = @ \union stored,
                          !.failed = @ \/ bad # {} \/ fails,
                          !.errors = @ + Cardinality(bad) + (IF fails THEN 1 ELSE 0),
                          !.poisoned = @ \/ fails]
<1>2. m \in Sync /\ Flagged(m) /\ m.status # "completed"
  <2>1. pc[r] \in Syncing
    BY DEF Persist, Syncing
  <2> QED BY <2>1 DEF CatalogInv, Shape
<1>3. m.page \in Rows
  BY <1>2 DEF Sync
<1>4. here \in SUBSET Products /\ bad \in SUBSET Products
  BY <1>3, RowsType
<1>5. Cardinality(here) \in Nat /\ Cardinality(bad) \in Nat
  BY <1>4, CountIsNat
<1>6. table' \in Rows
  <2>1. stored \in SUBSET Products
    BY <1>4
  <2>2. Restricted(m.page, stored) \in Rows
    BY <2>1, <1>3, RowsType
  <2>3. table \in Rows
    BY DEF CatalogInv, TypeOK
  <2> QED BY <1>1, <2>2, <2>3, RowsType
<1>7. n \in Sync /\ Flagged(n) /\ n.status # "completed"
  <2> HIDE DEF m, here
  <2>1. n \in Sync
    <3> DEFINE seen == m.seen \union here
               kept == m.kept + Cardinality(here)
               wrote == m.wrote \union stored
               failed == m.failed \/ bad # {} \/ fails
               errors == m.errors + Cardinality(bad) + (IF fails THEN 1 ELSE 0)
               poisoned == m.poisoned \/ fails
    <3>1. seen \in SUBSET Products /\ wrote \in SUBSET Products
      BY <1>2, <1>4 DEF Sync
    <3>2. kept \in Nat /\ errors \in Nat
      BY <1>2, <1>5 DEF Sync
    <3>3. failed \in BOOLEAN /\ poisoned \in BOOLEAN
      OBVIOUS
    <3> HIDE DEF seen, kept, wrote, failed, errors, poisoned
    <3>4. [m EXCEPT !.seen = seen, !.kept = kept, !.wrote = wrote, !.failed = failed,
                    !.errors = errors, !.poisoned = poisoned] \in Sync
      BY <1>2, <3>1, <3>2, <3>3 DEF Sync
    <3> QED BY <3>4 DEF seen, kept, wrote, failed, errors, poisoned
  <2>2. ~n.failed => ~m.failed /\ bad = {} /\ ~fails
    BY <1>2 DEF Sync
  <2>3. ~n.failed => n.seen \subseteq n.wrote
    BY <1>2, <2>2 DEF Sync, Flagged
  <2>4. n.status # "completed"
    BY <1>2 DEF Sync
  <2> QED BY <2>1, <2>3, <2>4 DEF Flagged
<1>8. AfterPage(r, n, kind = "timeout") /\ UNCHANGED reindex
  BY <1>1 DEF Persist
<1>9. Trouble(kind, kind # "none") /\ calm' \subseteq Requests
  BY <1>1 DEF CatalogInv, TypeOK
<1> HIDE DEF n
<1>10. /\ sync' \in [Requests -> Sync \union {None}]
       /\ pc' \in [Requests -> Idle \union Syncing \union Indexing]
       /\ \A q \in Requests : Shape(q)'
       /\ \A q \in Requests : sync'[q] \in Sync => Flagged(sync'[q])
  BY <1>7, <1>8, AfterPageStep
<1> QED
  BY <1>6, <1>9, <1>10, TroubleType
  DEF Persist, CatalogInv, TypeOK, Idle, Syncing, Indexing

LEMMA CountProductsInv ==
  ASSUME CatalogInv, NEW r \in Requests, CountProducts(r) PROVE CatalogInv'
<1> DEFINE m == sync[r]
           failed == [m EXCEPT !.status = "failed", !.errors = @ + 1]
           counted == [m EXCEPT !.current = Cardinality(Active)]
<1>1. m \in Sync /\ Flagged(m) /\ m.status # "completed"
  <2>1. pc[r] \in Syncing
    BY DEF CountProducts, Syncing
  <2> QED BY <2>1 DEF CatalogInv, Shape
<1>2. failed \in Sync /\ Flagged(failed) /\ failed.status # "completed"
  BY <1>1, FailedSync
<1>3. counted \in Sync /\ Flagged(counted) /\ counted.status # "completed"
  <2>1. Active \in SUBSET Products
    BY DEF Active, In
  <2>2. Cardinality(Active) \in Nat
    BY <2>1, CountIsNat
  <2> DEFINE c == Cardinality(Active)
  <2> HIDE DEF c
  <2>3. c \in Nat
    BY <2>2 DEF c
  <2>4. [m EXCEPT !.current = c] \in Sync
    BY <1>1, <2>3 DEF Sync
  <2>5. counted.failed = m.failed /\ counted.seen = m.seen /\ counted.wrote = m.wrote
        /\ counted.status = m.status
    BY <1>1 DEF Sync
  <2> QED BY <1>1, <2>4, <2>5 DEF c, Flagged
<1>4. /\ Report(r, m) \/ Report(r, failed) \/ (Keep(r, counted, "delete") /\ UNCHANGED reindex)
      /\ \E h : Trouble("persist", h)
  BY DEF CountProducts
<1>5. troubles' \in Nat
  BY <1>4, TroubleType DEF CatalogInv, TypeOK
<1> HIDE DEF m, failed, counted
<1>6. CASE Report(r, m)
  BY <1>1, <1>5, <1>6, ReportStep
  DEF CountProducts, CatalogInv, TypeOK, stores, Idle, Syncing, Indexing
<1>7. CASE Report(r, failed)
  BY <1>2, <1>5, <1>7, ReportStep
  DEF CountProducts, CatalogInv, TypeOK, stores, Idle, Syncing, Indexing
<1>8. CASE Keep(r, counted, "delete") /\ UNCHANGED reindex
  BY <1>3, <1>5, <1>8, KeepStep
  DEF CountProducts, CatalogInv, TypeOK, stores, Idle, Syncing, Indexing
<1> QED BY <1>4, <1>6, <1>7, <1>8

LEMMA DeleteProductsInv ==
  ASSUME CatalogInv, NEW r \in Requests, DeleteProducts(r) PROVE CatalogInv'
<1> DEFINE m == sync[r]
           failed == [m EXCEPT !.status = "failed", !.errors = @ + 1]
<1>1. m \in Sync /\ Flagged(m) /\ m.status # "completed"
  <2>1. pc[r] \in Syncing
    BY DEF DeleteProducts, Syncing
  <2> QED BY <2>1 DEF CatalogInv, Shape
<1>2. failed \in Sync /\ Flagged(failed) /\ failed.status # "completed"
  BY <1>1, FailedSync
<1>3. /\ Report(r, m) \/ Report(r, failed)
      /\ \E h : Trouble("persist", h)
      /\ table' \in {table, Without(table, In(table) \ m.seen)}
      /\ calm' \in {calm, calm \cap {r}}
  BY DEF DeleteProducts
<1>4. troubles' \in Nat /\ calm' \subseteq Requests
  BY <1>3, TroubleType DEF CatalogInv, TypeOK
<1>5. table' \in Rows
  BY <1>3, RowsType DEF CatalogInv, TypeOK
<1> HIDE DEF m, failed
<1>6. /\ sync' \in [Requests -> Sync \union {None}]
      /\ reindex' \in [Requests -> Reindex \union {None}]
      /\ pc' \in [Requests -> Idle \union Syncing \union Indexing]
      /\ \A q \in Requests : Shape(q)'
      /\ \A q \in Requests : sync'[q] \in Sync => Flagged(sync'[q])
  BY <1>1, <1>2, <1>3, ReportStep
<1> QED
  BY <1>4, <1>5, <1>6 DEF DeleteProducts, CatalogInv, TypeOK, Idle, Syncing, Indexing

LEMMA ReadPageInv == ASSUME CatalogInv, NEW r \in Requests, ReadPage(r) PROVE CatalogInv'
<1> DEFINE m == reindex[r]
           failed == [m EXCEPT !.status = "failed", !.errors = @ + 1]
           read(page) == [m EXCEPT !.page = page]
<1>1. m \in Reindex /\ pc[r] \in Indexing
  BY DEF ReadPage, CatalogInv, Shape, Indexing
<1>2. failed \in Reindex
  <2> DEFINE e == m.errors + 1
  <2>1. e \in Nat
    BY <1>1 DEF Reindex
  <2> HIDE DEF e
  <2>2. [m EXCEPT !.status = "failed", !.errors = e] \in Reindex
    BY <1>1, <2>1 DEF Reindex
  <2> QED BY <2>2 DEF e
<1>3. \A page \in Rows : read(page) \in Reindex
  BY <1>1 DEF Reindex
<1>4. PICK fails \in BOOLEAN, rank \in NameOrders :
        LET page == Restricted(table, Slice(Active, rank, m.offset, BatchSize))
        IN /\ Trouble("read", fails)
           /\ IF fails THEN KeepIndex(r, Finished(failed), "done")
                       ELSE KeepIndex(r, read(page), IF page = NoPage THEN "prune" ELSE "embed")
  BY DEF ReadPage
<1> DEFINE page == Restricted(table, Slice(Active, rank, m.offset, BatchSize))
<1>5. page \in Rows
  BY RowsType DEF Slice, Active, In, CatalogInv, TypeOK
<1>6. troubles' \in Nat
  BY <1>4, TroubleType DEF CatalogInv, TypeOK
<1> HIDE DEF m, failed, read, page
<1>7. PICK n \in Reindex, label \in Indexing \union {"done"} : KeepIndex(r, n, label)
  <2>1. CASE fails
    BY <1>2, <1>4, <2>1, FinishedReindex
  <2>2. CASE ~fails
    BY <1>3, <1>4, <1>5, <2>2 DEF page, Indexing
  <2> QED BY <2>1, <2>2
<1> QED
  BY <1>1, <1>6, <1>7, KeepIndexStep
  DEF ReadPage, CatalogInv, TypeOK, stores, Idle, Syncing, Indexing

LEMMA IndexPageInv == ASSUME CatalogInv, NEW r \in Requests, IndexPage(r) PROVE CatalogInv'
<1> DEFINE m == reindex[r]
           here == In(m.page)
<1>1. m \in Reindex /\ pc[r] \in Indexing
  BY DEF IndexPage, CatalogInv, Shape, Indexing
<1>2. PICK kind \in {"none", "prepare", "store"}, bad \in SUBSET here :
        LET stored == IF kind = "store" THEN {} ELSE here \ bad
            n == [m EXCEPT !.indexed = @ \union stored,
                           !.failed = @ \/ kind # "none",
                           !.errors = @ + Cardinality(bad) + (IF kind = "store" THEN 1 ELSE 0)]
        IN /\ Trouble(kind, kind # "none")
           /\ docs' = Overwritten(docs, Restricted(m.page, stored))
           /\ calm' = (IF stored = {} THEN calm ELSE calm \cap {r})
           /\ IF n.errors >= MaxErrors
                THEN KeepIndex(r, [n EXCEPT !.status = "partial"], "prune")
                ELSE KeepIndex(r, [n EXCEPT !.offset = NextPage(@)],
                               IF LastPage(m.page) THEN "prune" ELSE "read")
  BY DEF IndexPage
<1> DEFINE stored == IF kind = "store" THEN {} ELSE here \ bad
           errors == m.errors + Cardinality(bad) + (IF kind = "store" THEN 1 ELSE 0)
           failed == m.failed \/ kind # "none"
           n == [m EXCEPT !.indexed = @ \union stored, !.failed = failed, !.errors = errors]
           next == [n EXCEPT !.offset = NextPage(@)]
           partial == [n EXCEPT !.status = "partial"]
<1>3. m.page \in Rows
  BY <1>1 DEF Reindex
<1>4. here \in SUBSET Products /\ bad \in SUBSET Products
  BY <1>3, RowsType
<1>5. stored \in SUBSET Products
  BY <1>4
<1>6. errors \in Nat
  <2>1. Cardinality(bad) \in Nat
    BY <1>4, CountIsNat
  <2> QED BY <1>1, <2>1 DEF Reindex
<1>7. docs' \in Rows
  <2>1. Restricted(m.page, stored) \in Rows
    BY <1>3, <1>5, RowsType
  <2>2. docs \in Rows
    BY DEF CatalogInv, TypeOK
  <2> QED BY <1>2, <2>1, <2>2, RowsType
<1>8. n \in Reindex
  <2>1. failed \in BOOLEAN
    OBVIOUS
  <2> HIDE DEF m, stored, errors, failed
  <2> QED BY <1>1, <1>5, <1>6, <2>1 DEF Reindex
<1>9. Trouble(kind, kind # "none") /\ calm' \subseteq Requests
  BY <1>2 DEF CatalogInv, TypeOK
<1>10. KeepIndex(r, partial, "prune") \/ \E label \in {"prune", "read"} : KeepIndex(r, next, label)
  BY <1>2
<1> HIDE DEF n
<1>11. partial \in Reindex /\ next \in Reindex
  <2>1. partial \in Reindex
    BY <1>8 DEF Reindex
  <2> DEFINE offset == NextPage(n.offset)
  <2>2. offset \in Nat
    BY <1>8, CatalogAssumption DEF NextPage, Reindex
  <2> HIDE DEF offset
  <2>3. [n EXCEPT !.offset = offset] \in Reindex
    BY <1>8, <2>2 DEF Reindex
  <2> QED BY <2>1, <2>3 DEF offset
<1> HIDE DEF next, partial
<1>12. PICK k \in Reindex, label \in Indexing \union {"done"} : KeepIndex(r, k, label)
  BY <1>10, <1>11 DEF Indexing
<1> QED
  BY <1>1, <1>7, <1>9, <1>12, KeepIndexStep, TroubleType
  DEF IndexPage, CatalogInv, TypeOK, Idle, Syncing, Indexing

LEMMA PruneInv == ASSUME CatalogInv, NEW r \in Requests, Prune(r) PROVE CatalogInv'
<1> DEFINE m == reindex[r]
<1>1. m \in Reindex /\ pc[r] \in Indexing
  BY DEF Prune, CatalogInv, Shape, Indexing
<1>2. PICK fails \in BOOLEAN :
        LET stale == IF sync[r].option.prune /\ m.indexed # {} /\ ~fails
                       THEN In(docs) \ m.indexed ELSE {}
        IN /\ Trouble("store", fails)
           /\ docs' = Without(docs, stale)
           /\ calm' = (IF stale = {} THEN calm ELSE calm \cap {r})
           /\ KeepIndex(r, [Finished(m) EXCEPT !.deleted = Cardinality(stale)], "done")
  BY DEF Prune
<1> DEFINE stale == IF sync[r].option.prune /\ m.indexed # {} /\ ~fails
                      THEN In(docs) \ m.indexed ELSE {}
           deleted == Cardinality(stale)
           n == [Finished(m) EXCEPT !.deleted = deleted]
<1>3. stale \in SUBSET Products
  BY DEF In
<1>4. deleted \in Nat
  BY <1>3, CountIsNat
<1>5. docs' \in Rows
  BY <1>2, <1>3, RowsType DEF CatalogInv, TypeOK
<1>6. n \in Reindex
  <2>1. Finished(m) \in Reindex
    BY <1>1, FinishedReindex
  <2> HIDE DEF deleted, m
  <2> QED BY <1>4, <2>1 DEF Reindex
<1>7. Trouble("store", fails) /\ calm' \subseteq Requests /\ KeepIndex(r, n, "done")
  BY <1>2 DEF CatalogInv, TypeOK
<1> HIDE DEF n
<1> QED
  BY <1>1, <1>5, <1>6, <1>7, KeepIndexStep, TroubleType
  DEF Prune, CatalogInv, TypeOK, Idle, Syncing, Indexing

LEMMA CrashInv == ASSUME CatalogInv, NEW r \in Requests, Crash(r) PROVE CatalogInv'
<1>1. TypeOK'
  BY TroubleType DEF Crash, Goto, CatalogInv, TypeOK, stores, Idle
<1>2. \A q \in Requests : Shape(q)'
  BY DEF Crash, Goto, CatalogInv, TypeOK, Shape, Syncing, Indexing
<1>3. \A q \in Requests : sync'[q] \in Sync => Flagged(sync'[q])
  BY NoneAssumption DEF Crash, CatalogInv, TypeOK
<1> QED BY <1>1, <1>2, <1>3 DEF CatalogInv, Flagged

LEMMA NextInv == CatalogInv /\ [Next]_vars => CatalogInv'
<1> SUFFICES ASSUME CatalogInv, [Next]_vars
             PROVE  CatalogInv'
  OBVIOUS
<1>1. CASE EditShop
  BY <1>1, EditShopInv
<1>2. ASSUME NEW r \in Requests, Begin(r) \/ Handle(r) \/ Crash(r)
      PROVE  CatalogInv'
  BY <1>2, BeginInv, FetchInv, FetchFailsInv, PersistInv, CountProductsInv, DeleteProductsInv,
     ReadPageInv, IndexPageInv, PruneInv, CrashInv DEF Handle
<1>3. CASE UNCHANGED vars
  BY <1>3 DEF vars, stores, request, CatalogInv, TypeOK, Shape, Flagged
<1> QED BY <1>1, <1>2, <1>3 DEF Next

--------------------------------------------------------------------------------
(* The theorems.                                                           *)

\* In every reachable state the strengthening holds.
THEOREM CatalogInvariant == Spec => []CatalogInv
BY InitInv, NextInv, PTL DEF Spec

\* Type correctness of the catalogue: rows, pages and results.
THEOREM TypeCorrect == Spec => []TypeOK
<1>1. CatalogInv => TypeOK
  BY DEF CatalogInv
<1> QED BY <1>1, CatalogInvariant, PTL

\* A synchronisation that reports COMPLETED stored every product that it read,
\* whatever failed on the way and whoever else was at work.
THEOREM CompletedRunsStoreAll == Spec => []CompletedStoredAll
<1>1. CatalogInv => CompletedStoredAll
  BY DEF CatalogInv, TypeOK, CompletedStoredAll, Flagged
<1> QED BY <1>1, CatalogInvariant, PTL

--------------------------------------------------------------------------------
(* Prefixes of an ordered list and the page that comes next.               *)

\* T is the first products of S, in the order of their ranks.
Prefix(T, S, rank) ==
  T \subseteq S /\ \A p \in T, q \in S : rank[q] < rank[p] => q \in T

\* What reading the next page of at most limit products does to a prefix.
Advances(T, page, S, rank, limit) ==
  /\ page \in SUBSET S /\ Prefix(T \union page, S, rank)
  /\ Cardinality(T \union page) = Cardinality(T) + Cardinality(page)
  /\ Cardinality(page) \in 0 .. limit
  /\ Cardinality(page) < limit => T \union page = S

\* Nothing is between the products of a prefix and the slice that starts where
\* it ends; if that slice is short, nothing comes after it.
LEMMA NextSlice ==
  ASSUME NEW S \in SUBSET Products, NEW rank \in [Products -> Nat],
         \A p, q \in Products : rank[p] = rank[q] => p = q,
         NEW T, Prefix(T, S, rank), NEW limit \in Nat \ {0}
  PROVE  Advances(T, Slice(S, rank, Cardinality(T), limit), S, rank, limit)
<1> DEFINE n == Cardinality(T)
           Before(p) == {q \in S : rank[q] < rank[p]}
           c(p) == Cardinality(Before(p))
           page == Slice(S, rank, n, limit)
           all == T \union page
<1>1. /\ IsFiniteSet(S) /\ IsFiniteSet(T) /\ n \in Nat /\ T \in SUBSET S
      /\ \A p \in S : IsFiniteSet(Before(p)) /\ c(p) \in Nat
  <2>1. IsFiniteSet(S)
    BY FS_Subset, CatalogAssumption
  <2>2. T \in SUBSET S
    BY DEF Prefix
  <2>3. \A p \in S : Before(p) \in SUBSET S
    OBVIOUS
  <2> HIDE DEF Before
  <2> QED BY <2>1, <2>2, <2>3, FS_Subset, FS_CardinalityType
<1>2. page = {p \in S : n <= c(p) /\ c(p) < n + limit}
  BY <1>1 DEF Slice
<1>3. ASSUME NEW p \in T
      PROVE  c(p) < n
  <2>1. Before(p) \in SUBSET T /\ p \in T \ Before(p)
    BY DEF Prefix
  <2> HIDE DEF Before
  <2>2. Cardinality(Before(p)) <= Cardinality(T)
        /\ (Cardinality(T) = Cardinality(Before(p)) => T = Before(p))
    BY <1>1, <2>1, FS_Subset
  <2>3. c(p) # n
    BY <2>1, <2>2
  <2> QED BY <1>1, <2>2, <2>3
<1>4. ASSUME NEW p \in S \ T
      PROVE  n <= c(p)
  <2>1. T \in SUBSET Before(p)
    <3>1. \A q \in T : q # p /\ ~(rank[p] < rank[q])
      BY DEF Prefix
    <3>2. \A q \in T : rank[q] \in Nat /\ rank[p] \in Nat /\ rank[q] # rank[p] /\ q \in S
      BY <1>1, <3>1
    <3> QED BY <3>1, <3>2
  <2> HIDE DEF Before
  <2> QED BY <1>1, <2>1, FS_Subset
<1>5. ASSUME NEW p \in S, NEW q \in S, rank[q] < rank[p]
      PROVE  c(q) < c(p)
  <2>1. Before(q) \in SUBSET Before(p) /\ q \in Before(p) \ Before(q)
    <3>1. rank[q] \in Nat /\ rank[p] \in Nat
      OBVIOUS
    <3>2. \A x \in S : rank[x] < rank[q] => rank[x] < rank[p]
      BY <1>5, <3>1
    <3> QED BY <1>5, <3>1, <3>2
  <2> HIDE DEF Before
  <2>2. c(q) <= c(p) /\ (c(q) = c(p) => Before(q) = Before(p))
    BY <1>1, <2>1, FS_Subset
  <2> QED BY <1>1, <2>1, <2>2
<1> HIDE DEF n, Before, c, page
<1>6. page \in SUBSET S /\ all = {p \in S : c(p) < n + limit}
  <2>1. \A p \in S : p \in page <=> n <= c(p) /\ c(p) < n + limit
    BY <1>2
  <2>2. \A p \in S : p \in T => c(p) < n + limit
    BY <1>1, <1>3
  <2>3. page \in SUBSET S
    BY <1>2
  <2> QED BY <1>1, <1>4, <2>1, <2>2, <2>3
<1>7. Prefix(all, S, rank)
  <2>1. ASSUME NEW p \in all, NEW q \in S, rank[q] < rank[p]
        PROVE  q \in all
    <3>1. p \in S /\ c(p) < n + limit
      BY <1>6
    <3>2. c(q) < c(p) /\ c(q) \in Nat /\ c(p) \in Nat
      BY <1>1, <1>5, <2>1, <3>1
    <3> QED BY <1>1, <1>6, <3>1, <3>2
  <2> QED BY <1>6, <2>1 DEF Prefix
<1>8. IsFiniteSet(page) /\ Cardinality(page) \in Nat /\ Cardinality(all) = n + Cardinality(page)
  <2>1. T \cap page = {}
    BY <1>1, <1>2, <1>3
  <2>2. IsFiniteSet(page) /\ Cardinality(page) \in Nat
    BY <1>1, <1>6, FS_Subset, FS_CardinalityType
  <2>3. Cardinality(all) = Cardinality(T) + Cardinality(page) - Cardinality(T \cap page)
    BY <1>1, <2>2, FS_Union
  <2>4. Cardinality(T \cap page) = 0
    BY <2>1, FS_EmptySet
  <2>5. Cardinality(T) \in Nat
    BY <1>1 DEF n
  <2> QED BY <2>2, <2>3, <2>4, <2>5 DEF n
<1>9. ASSUME Cardinality(page) < limit
      PROVE  all = S
  <2> SUFFICES ASSUME all # S
               PROVE  FALSE
    OBVIOUS
  <2> DEFINE ranks == {rank[p] : p \in S \ all}
  <2>1. ranks \in SUBSET Nat /\ ranks # {}
    BY <1>6
  <2>2. PICK x \in ranks : \A y \in ranks : x <= y
    BY <2>1, MinExists
  <2>3. PICK p \in S \ all : x = rank[p]
    OBVIOUS
  <2>4. Before(p) = all
    <3>1. \A q \in S \ all : rank[p] <= rank[q]
      BY <2>2, <2>3
    <3>2. \A q \in all : q # p /\ ~(rank[p] < rank[q])
      BY <1>7, <2>3 DEF Prefix
    <3>3. \A q \in S : rank[q] \in Nat /\ rank[p] \in Nat
      OBVIOUS
    <3>4. \A q \in all : q \in S /\ rank[q] # rank[p]
      BY <1>6, <3>2
    <3>5. \A q \in S : rank[q] < rank[p] <=> q \in all
      BY <3>1, <3>2, <3>3, <3>4
    <3> QED BY <1>6, <3>5 DEF Before
  <2>5. c(p) = n + Cardinality(page)
    BY <1>8, <2>4 DEF c
  <2>6. ~(c(p) < n + limit)
    BY <1>6, <2>3
  <2> QED BY <1>1, <1>8, <1>9, <2>5, <2>6
<1>10. Cardinality(page) <= limit
  <2> DEFINE places == n .. (n + limit - 1)
             place == [p \in page |-> c(p)]
  <2>1. place \in [page -> places]
    BY <1>1, <1>2
  <2>2. ASSUME NEW p \in page, NEW q \in page, place[p] = place[q]
        PROVE  p = q
    <3>1. /\ p \in S /\ q \in S /\ rank[p] \in Nat /\ rank[q] \in Nat
          /\ c(p) \in Nat /\ c(p) = c(q)
      BY <1>1, <1>6, <2>2
    <3>2. ~(rank[p] < rank[q]) /\ ~(rank[q] < rank[p])
      BY <1>5, <3>1
    <3> QED BY <3>1, <3>2
  <2>3. IsFiniteSet(places) /\ Cardinality(places) = limit
    BY <1>1, FS_Interval
  <2> HIDE DEF place, places
  <2>4. ~(Cardinality(places) < Cardinality(page))
    BY <1>8, <2>1, <2>2, <2>3, FS_PigeonHole
  <2> QED BY <1>8, <2>3, <2>4
<1> QED
  BY <1>6, <1>7, <1>8, <1>9, <1>10 DEF n, page, Advances

--------------------------------------------------------------------------------
(* The strengthening: pages read so far.                                   *)

\* The shop lists a product with its real quantity.
ShopReal == \A p \in In(shop) : shop[p].real

\* What was written was read, and a request indexes only if it wrote.
Wrote(r) ==
  /\ sync[r] \in Sync => sync[r].wrote \subseteq sync[r].seen
  /\ pc[r] \in Indexing => sync[r].wrote # {}

\* No error has been seen by the synchronisation of r, and nobody interfered.
Clean(r) ==
  /\ r \in calm /\ pc[r] \in Syncing
  /\ sync[r].status = "in_progress" /\ sync[r].errors = 0 /\ ~sync[r].failed

\* What makes CompletedMirrors inductive: the pages read so far are the first
\* products of the list, they are in the table as the shop has them, and the
\* next page starts where they end.
Reading(r) ==
  LET m == sync[r]
      listed == Listed(m.option)
  IN Clean(r) =>
       /\ Prefix(m.seen, listed, ById)
       /\ \A p \in m.seen : table[p] = shop[p]
       /\ pc[r] \in {"fetch", "persist"} => m.offset = Cardinality(m.seen)
       /\ pc[r] = "persist" =>
            m.page = Restricted(shop, Slice(listed, ById, m.offset, BatchSize))
       /\ pc[r] \in {"count", "delete"} => m.seen = listed

\* The table stays the mirror while it is indexed.
Mirrored(r) ==
  r \in calm /\ pc[r] \in Indexing /\ sync[r].status = "completed" /\ sync[r].errors = 0
    => Mirrors(r)

PageInv ==
  /\ CatalogInv /\ ShopReal
  /\ \A r \in Requests : Wrote(r) /\ Reading(r) /\ Mirrored(r)

\* The same of the pages of the table that were indexed.
Indexed(r) ==
  LET m == reindex[r]
  IN r \in calm /\ pc[r] \in Indexing /\ m.status = "in_progress" /\ ~m.failed =>
       /\ Prefix(m.indexed, Active, NameOf)
       /\ \A p \in m.indexed : docs[p] = table[p]
       /\ pc[r] \in {"read", "embed"} => m.offset = Cardinality(m.indexed)
       /\ pc[r] = "embed" =>
            m.page = Restricted(table, Slice(Active, NameOf, m.offset, BatchSize))
       /\ pc[r] = "prune" => m.indexed = Active

--------------------------------------------------------------------------------
(* Who else moves.                                                         *)

LEMMA NothingWritten ==
  ASSUME NEW rows \in Rows, NEW page
  PROVE  Overwritten(rows, Restricted(page, {})) = rows /\ Without(rows, {}) = rows
BY DEF Rows, Overwritten, Restricted, Without

\* What r has and what it is about are the same after the step.
Unmoved(r) ==
  /\ r \in calm /\ UNCHANGED stores
  /\ pc'[r] = pc[r] /\ sync'[r] = sync[r] /\ reindex'[r] = reindex[r]

\* A request does nothing to the memory of another one.
LEMMA OthersMemory ==
  ASSUME CatalogInv, NEW q \in Requests, NEW r \in Requests, r # q,
         Begin(q) \/ Handle(q) \/ Crash(q)
  PROVE  pc'[r] = pc[r] /\ sync'[r] = sync[r] /\ reindex'[r] = reindex[r]
<1> USE DEF CatalogInv, TypeOK
<1>0. ASSUME NEW m, Report(q, m)
      PROVE  pc'[r] = pc[r] /\ sync'[r] = sync[r] /\ reindex'[r] = reindex[r]
  BY <1>0 DEF Report, KeepIndex, Goto
<1>1. CASE Begin(q)
  <2>1. \E m, label : Keep(q, m, label) /\ UNCHANGED reindex
    BY <1>1 DEF Begin
  <2> QED BY <2>1 DEF Keep, Goto
<1>6. CASE Crash(q)
  BY <1>6 DEF Crash, Goto
<1>2. CASE Fetch(q)
  BY <1>2 DEF Fetch, Keep, Goto
<1>3. CASE FetchFails(q) \/ CountProducts(q) \/ DeleteProducts(q)
  <2>1. (\E m : Report(q, m)) \/ (\E m, label : Keep(q, m, label) /\ UNCHANGED reindex)
    BY <1>3 DEF FetchFails, CountProducts, DeleteProducts
  <2> QED BY <1>0, <2>1 DEF Keep, Goto
<1>4. CASE Persist(q)
  <2>1. \E m, label : Keep(q, m, label) /\ UNCHANGED reindex
    BY <1>4 DEF Persist, AfterPage
  <2> QED BY <2>1 DEF Keep, Goto
<1>5. CASE ReadPage(q) \/ IndexPage(q) \/ Prune(q)
  <2>1. (\E m, label : KeepIndex(q, m, label)) /\ UNCHANGED sync
    <3>1. CASE ReadPage(q)
      BY <3>1 DEF ReadPage
    <3>2. CASE IndexPage(q)
      BY <3>2 DEF IndexPage
    <3>3. CASE Prune(q)
      BY <3>3 DEF Prune
    <3> QED BY <1>5, <3>1, <3>2, <3>3
  <2> QED BY <2>1 DEF KeepIndex, Goto
<1> QED BY <1>1, <1>2, <1>3, <1>4, <1>5, <1>6 DEF Handle

\* What another request does to the table or to the documents ends the calm.
LEMMA OthersCalm ==
  ASSUME CatalogInv, NEW q \in Requests, NEW r \in Requests, r # q,
         Begin(q) \/ Handle(q) \/ Crash(q), r \in calm'
  PROVE  r \in calm /\ UNCHANGED stores
<1>0. table \in Rows /\ docs \in Rows
  BY DEF CatalogInv, TypeOK
<1>1. CASE Begin(q) \/ Crash(q) \/ Fetch(q) \/ FetchFails(q) \/ CountProducts(q) \/ ReadPage(q)
  BY <1>1 DEF Begin, Crash, Fetch, FetchFails, CountProducts, ReadPage
<1>2. CASE Persist(q)
  <2>1. PICK page, stored :
          /\ table' = Overwritten(table, Restricted(page, stored))
          /\ calm' = (IF stored = {} THEN calm ELSE calm \cap {q})
    BY <1>2 DEF Persist
  <2>2. stored = {} /\ r \in calm
    BY <2>1
  <2>3. table' = table
    BY <1>0, <2>1, <2>2, NothingWritten
  <2> QED BY <1>2, <2>2, <2>3 DEF Persist, stores
<1>3. CASE DeleteProducts(q)
  <2>1. r \in calm
    BY <1>3 DEF DeleteProducts
  <2>2. table' = table \/ table' = Without(table, {})
    BY <1>3 DEF DeleteProducts
  <2> QED BY <1>0, <1>3, <2>1, <2>2, NothingWritten DEF DeleteProducts, stores
<1>4. CASE IndexPage(q)
  <2>1. PICK page, stored :
          /\ docs' = Overwritten(docs, Restricted(page, stored))
          /\ calm' = (IF stored = {} THEN calm ELSE calm \cap {q})
    BY <1>4 DEF IndexPage
  <2>2. stored = {} /\ r \in calm
    BY <2>1
  <2>3. docs' = docs
    BY <1>0, <2>1, <2>2, NothingWritten
  <2> QED BY <1>4, <2>2, <2>3 DEF IndexPage, stores
<1>5. CASE Prune(q)
  <2>1. PICK stale :
          /\ docs' = Without(docs, stale)
          /\ calm' = (IF stale = {} THEN calm ELSE calm \cap {q})
    BY <1>5 DEF Prune
  <2>2. stale = {} /\ r \in calm
    BY <2>1
  <2>3. docs' = docs
    BY <1>0, <2>1, <2>2, NothingWritten
  <2> QED BY <1>5, <2>2, <2>3 DEF Prune, stores
<1> QED BY <1>1, <1>2, <1>3, <1>4, <1>5 DEF Handle

LEMMA UnmovedKeeps ==
  ASSUME NEW r \in Requests, Unmoved(r), Reading(r) /\ Mirrored(r)
  PROVE  Reading(r)' /\ Mirrored(r)' /\ (Indexed(r) => Indexed(r)')
BY DEF Unmoved, Reading, Clean, Mirrored, Mirrors, Refused, Listed, In, Indexed, Active, stores

\* The step of another request keeps what is said of r.
LEMMA OthersKeep ==
  ASSUME CatalogInv, NEW q \in Requests, NEW r \in Requests, r # q,
         Begin(q) \/ Handle(q) \/ Crash(q), Wrote(r), Reading(r), Mirrored(r)
  PROVE  Wrote(r)' /\ Reading(r)' /\ Mirrored(r)' /\ (Indexed(r) => Indexed(r)')
<1>1. pc'[r] = pc[r] /\ sync'[r] = sync[r] /\ reindex'[r] = reindex[r]
  BY OthersMemory
<1>2. CASE r \in calm'
  BY <1>1, <1>2, OthersCalm, UnmovedKeeps DEF Unmoved, Wrote
<1>3. CASE r \notin calm'
  BY <1>1, <1>3 DEF Wrote, Reading, Clean, Mirrored, Indexed
<1> QED BY <1>2, <1>3

--------------------------------------------------------------------------------
(* What a step of r does to what is said of r: the synchronisation.        *)

\* Pages of a table that holds rows.
LEMMA PageOf ==
  ASSUME NEW rows \in Rows, NEW S \in SUBSET In(rows)
  PROVE  /\ In(Restricted(rows, S)) = S
         /\ Restricted(rows, S) = NoPage => S = {}
         /\ \A p \in S : Restricted(rows, S)[p] = rows[p]
BY DEF Rows, In, Restricted, NoPage

LEMMA ListedType ==
  ASSUME TypeOK, NEW o
  PROVE  Listed(o) \in SUBSET Products /\ Listed(o) \in SUBSET In(shop)
BY DEF Listed, In

\* The next page of the shop.
LEMMA NextOfShop ==
  ASSUME TypeOK, NEW o, NEW T, Prefix(T, Listed(o), ById)
  PROVE  Advances(T, Slice(Listed(o), ById, Cardinality(T), BatchSize), Listed(o), ById,
                  BatchSize)
<1>1. Listed(o) \in SUBSET Products
  BY ListedType
<1>2. ById \in [Products -> Nat] /\ \A p, q \in Products : ById[p] = ById[q] => p = q
  BY CatalogAssumption DEF ById
<1>3. BatchSize \in Nat \ {0}
  BY CatalogAssumption
<1> QED BY <1>1, <1>2, <1>3, NextSlice

LEMMA BeginOwn ==
  ASSUME CatalogInv, NEW r \in Requests, Begin(r)
  PROVE  Wrote(r)' /\ Reading(r)' /\ Mirrored(r)' /\ Indexed(r)'
<1>1. PICK o \in Asks[r], down \in BOOLEAN :
        Keep(r, IF down THEN [FreshSync(o) EXCEPT !.status = "failed", !.errors = 1]
                        ELSE FreshSync(o),
             IF down THEN "done" ELSE "fetch")
  BY DEF Begin
<1>2. CASE down
  <2>1. /\ sync'[r] = [FreshSync(o) EXCEPT !.status = "failed", !.errors = 1]
        /\ pc'[r] = "done"
    BY <1>1, <1>2 DEF Keep, Goto, CatalogInv, TypeOK
  <2> QED BY <2>1 DEF Wrote, Reading, Clean, Mirrored, Indexed, FreshSync, Syncing, Indexing
<1>3. CASE ~down
  <2>1. sync'[r] = FreshSync(o) /\ pc'[r] = "fetch"
    BY <1>1, <1>3 DEF Keep, Goto, CatalogInv, TypeOK
  <2>2. Cardinality({}) = 0
    BY FS_EmptySet
  <2>3. sync'[r].seen = {} /\ sync'[r].wrote = {} /\ sync'[r].offset = 0
    BY <2>1 DEF FreshSync
  <2> QED BY <2>1, <2>2, <2>3 DEF Wrote, Reading, Prefix, Mirrored, Indexed, Indexing
<1> QED BY <1>2, <1>3

\* A step of r that leaves what it wrote and does not go on to index.
LEMMA StaysIn ==
  ASSUME CatalogInv, NEW r \in Requests, NEW m \in Sync, m.wrote \subseteq m.seen,
         NEW label \in Syncing, Keep(r, m, label)
  PROVE  Wrote(r)' /\ Mirrored(r)' /\ Indexed(r)' /\ sync'[r] = m /\ pc'[r] = label
<1>1. sync'[r] = m /\ pc'[r] = label
  BY DEF Keep, Goto, CatalogInv, TypeOK
<1> QED BY <1>1 DEF Wrote, Mirrored, Indexed, Syncing, Indexing

LEMMA FetchOwn ==
  ASSUME PageInv, NEW r \in Requests, Fetch(r)
  PROVE  Wrote(r)' /\ Reading(r)' /\ Mirrored(r)' /\ Indexed(r)'
<1> DEFINE m == sync[r]
           listed == Listed(m.option)
           raw == Slice(listed, ById, m.offset, BatchSize)
<1>1. PICK kind \in {"none", "parse", "stock"}, bad \in SUBSET raw :
        LET page == [p \in Products |->
                      IF p \in raw \ bad THEN [shop[p] EXCEPT !.real = kind # "stock"] ELSE None]
        IN /\ kind = "parse" <=> bad # {}
           /\ calm' = (IF kind = "none" THEN calm ELSE calm \ {r})
           /\ Keep(r, [m EXCEPT !.page = page], IF page = NoPage THEN "count" ELSE "persist")
  BY DEF Fetch
<1> DEFINE page == [p \in Products |->
                     IF p \in raw \ bad THEN [shop[p] EXCEPT !.real = kind # "stock"] ELSE None]
           n == [m EXCEPT !.page = page]
           label == IF page = NoPage THEN "count" ELSE "persist"
<1>2. TypeOK /\ pc[r] = "fetch" /\ m \in Sync
  BY DEF Fetch, PageInv, CatalogInv, Shape, Syncing
<1>3. raw \in SUBSET Products /\ raw \in SUBSET In(shop)
  BY <1>2, ListedType DEF Slice
<1>4. page \in Rows
  <2>1. ASSUME NEW p \in raw \ bad
        PROVE  [shop[p] EXCEPT !.real = kind # "stock"] \in Row
    <3>1. shop[p] \in Row
      BY <1>2, <1>3 DEF Rows, In, TypeOK
    <3> QED BY <3>1 DEF Row
  <2> QED BY <2>1 DEF Rows
<1>5. Keep(r, n, label) /\ label \in Syncing
  BY <1>1 DEF Syncing
<1>6. n \in Sync /\ n.page = page
  <2> HIDE DEF page, m
  <2> QED BY <1>2, <1>4 DEF Sync
<1>7. /\ n.seen = m.seen /\ n.wrote = m.wrote /\ n.status = m.status /\ n.errors = m.errors
      /\ n.failed = m.failed /\ n.offset = m.offset /\ n.option = m.option
  BY <1>2 DEF Sync
<1>8. m.wrote \subseteq m.seen
  BY <1>2 DEF PageInv, Wrote
<1> HIDE DEF n
<1>9. Wrote(r)' /\ Mirrored(r)' /\ Indexed(r)' /\ sync'[r] = n /\ pc'[r] = label
  BY <1>5, <1>6, <1>7, <1>8, StaysIn DEF PageInv
<1>10. ASSUME Clean(r)'
       PROVE  /\ Clean(r) /\ page = Restricted(shop, raw)
              /\ Prefix(m.seen, listed, ById) /\ \A p \in m.seen : table[p] = shop[p]
              /\ m.offset = Cardinality(m.seen)
  <2>1. r \in calm /\ kind = "none" /\ bad = {}
    BY <1>1, <1>10 DEF Clean
  <2>2. Clean(r)
    BY <1>2, <1>7, <1>9, <1>10, <2>1 DEF Clean, Syncing
  <2>3. ASSUME NEW p \in raw
        PROVE  [shop[p] EXCEPT !.real = kind # "stock"] = shop[p]
    <3>1. shop[p] \in Row /\ shop[p].real = TRUE
      BY <1>2, <1>3 DEF Rows, Row, In, TypeOK, PageInv, ShopReal
    <3>2. [shop[p] EXCEPT !.real = TRUE] = shop[p]
      BY <3>1 DEF Row
    <3> QED BY <2>1, <3>2
  <2>4. page = Restricted(shop, raw)
    BY <2>1, <2>3 DEF Restricted
  <2> QED BY <1>2, <2>2, <2>4 DEF PageInv, Reading
<1>11. (\A o : Listed(o)' = Listed(o)) /\ shop' = shop /\ table' = table
  BY DEF Fetch, stores, Listed, In
<1>12. Reading(r)'
  <2> SUFFICES ASSUME Clean(r)'
               PROVE  Reading(r)'
    BY DEF Reading
  <2>1. n.page = Restricted(shop, Slice(Listed(n.option), ById, n.offset, BatchSize))
    BY <1>6, <1>7, <1>10
  <2>2. page = NoPage => n.seen = Listed(n.option)
    <3> SUFFICES ASSUME page = NoPage
                 PROVE  n.seen = listed
      BY <1>7
    <3>1. raw = {}
      BY <1>2, <1>3, <1>10, PageOf DEF TypeOK
    <3>2. Cardinality(raw) < BatchSize
      BY <3>1, FS_EmptySet, CatalogAssumption
    <3>3. Advances(m.seen, raw, listed, ById, BatchSize)
      BY <1>2, <1>10, NextOfShop
    <3>4. m.seen \union raw = listed
      BY <3>2, <3>3 DEF Advances
    <3> QED BY <1>7, <3>1, <3>4
  <2>3. /\ Prefix(n.seen, Listed(n.option), ById) /\ \A p \in n.seen : table[p] = shop[p]
        /\ n.offset = Cardinality(n.seen)
    BY <1>7, <1>10
  <2> HIDE DEF page, raw, listed, m
  <2> QED
    BY <1>9, <1>11, <2>1, <2>2, <2>3 DEF Reading
<1> QED BY <1>9, <1>12

\* What a request that reports goes on with.
LEMMA ReportOwn ==
  ASSUME CatalogInv, NEW r \in Requests, NEW m \in Sync, m.wrote \subseteq m.seen,
         Report(r, m)
  PROVE  /\ Wrote(r)' /\ Reading(r)' /\ Indexed(r)'
         /\ sync'[r] = Finished(m) /\ pc'[r] \in {"read", "done"}
<1>1. sync'[r] = Finished(m)
  BY DEF Report, CatalogInv, TypeOK
<1>2. Finished(m).wrote = m.wrote /\ Finished(m).seen = m.seen
  BY DEF Finished, Sync
<1>3. CASE m.option.reindex /\ m.wrote # {}
  <2>1. pc'[r] = "read" /\ reindex'[r] = FreshReindex
    BY <1>3 DEF Report, KeepIndex, Goto, CatalogInv, TypeOK
  <2>2. Wrote(r)' /\ Reading(r)'
    BY <1>1, <1>2, <1>3, <2>1 DEF Wrote, Reading, Clean, Syncing
  <2>3. Indexed(r)'
    <3>1. FreshReindex.indexed = {} /\ FreshReindex.offset = 0
      BY DEF FreshReindex
    <3>2. Prefix({}, Active', NameOf) /\ Cardinality({}) = 0
      BY FS_EmptySet DEF Prefix
    <3> QED BY <2>1, <3>1, <3>2 DEF Indexed
  <2> QED BY <1>1, <2>1, <2>2, <2>3
<1>4. CASE ~(m.option.reindex /\ m.wrote # {})
  <2>1. pc'[r] = "done"
    BY <1>4 DEF Report, KeepIndex, Goto, CatalogInv, TypeOK
  <2> QED BY <1>1, <1>2, <2>1 DEF Wrote, Reading, Clean, Indexed, Syncing, Indexing
<1> QED BY <1>3, <1>4

\* What a request reads of its memory while it synchronises.
LEMMA InSync ==
  ASSUME PageInv, NEW r \in Requests, pc[r] \in Syncing
  PROVE  /\ sync[r] \in Sync /\ sync[r].status # "completed"
         /\ sync[r].wrote \subseteq sync[r].seen
BY DEF PageInv, CatalogInv, Shape, Wrote

\* A failure is counted: the synchronisation is not clean any more.
LEMMA FetchFailsOwn ==
  ASSUME PageInv, NEW r \in Requests, FetchFails(r)
  PROVE  /\ Wrote(r)' /\ Reading(r)' /\ Mirrored(r)' /\ Indexed(r)'
         /\ sync'[r].status # "completed"
<1> DEFINE m == [sync[r] EXCEPT !.errors = @ + 1, !.page = NoPage]
           n == [m EXCEPT !.status = "failed"]
<1>1. /\ sync[r] \in Sync /\ sync[r].wrote \subseteq sync[r].seen
      /\ sync[r].status # "completed"
  BY InSync DEF FetchFails, Syncing
<1>2. m \in Sync /\ n \in Sync /\ m.errors \in Nat /\ m.errors # 0
  <2> DEFINE e == sync[r].errors + 1
  <2>1. e \in Nat /\ e # 0
    BY <1>1 DEF Sync
  <2> HIDE DEF e
  <2>2. NoPage \in Rows
    BY DEF Rows, NoPage
  <2>3. /\ [sync[r] EXCEPT !.errors = e, !.page = NoPage] \in Sync
        /\ [[sync[r] EXCEPT !.errors = e, !.page = NoPage] EXCEPT !.status = "failed"] \in Sync
        /\ [sync[r] EXCEPT !.errors = e, !.page = NoPage].errors = e
    BY <1>1, <2>1, <2>2 DEF Sync
  <2> QED BY <2>1, <2>3 DEF e
<1>3. /\ m.wrote \subseteq m.seen /\ n.wrote \subseteq n.seen /\ n.status = "failed"
      /\ m.status = sync[r].status
  BY <1>1 DEF Sync
<1>4. (Keep(r, m, "count") /\ UNCHANGED reindex) \/ Report(r, n)
  BY DEF FetchFails
<1> HIDE DEF m, n
<1>5. CASE Keep(r, m, "count") /\ UNCHANGED reindex
  <2>1. Wrote(r)' /\ Mirrored(r)' /\ Indexed(r)' /\ sync'[r] = m /\ pc'[r] = "count"
    BY <1>2, <1>3, <1>5, StaysIn DEF PageInv, Syncing
  <2> QED BY <1>1, <1>2, <1>3, <2>1 DEF Reading, Clean
<1>6. CASE Report(r, n)
  <2>1. Wrote(r)' /\ Reading(r)' /\ Indexed(r)' /\ sync'[r] = Finished(n)
    BY <1>2, <1>3, <1>6, ReportOwn DEF PageInv
  <2>2. Finished(n).status = "failed"
    BY <1>2, <1>3 DEF Finished, FinalStatus, Sync
  <2> QED BY <2>1, <2>2 DEF Mirrored
<1> QED BY <1>4, <1>5, <1>6

\* The ways on after a page.
LEMMA AfterPageCases ==
  ASSUME NEW r, NEW m \in Sync, NEW late \in BOOLEAN, AfterPage(r, m, late)
  PROVE  \/ /\ HasMore(m.page) /\ ~late
            /\ Keep(r, [m EXCEPT !.offset = NextOffset(m)], "fetch")
         \/ ~HasMore(m.page) /\ ~late /\ Keep(r, m, "count")
         \/ \E n \in Sync : /\ Keep(r, n, "count") /\ n.status = "partial"
                            /\ n.seen = m.seen /\ n.wrote = m.wrote
<1>1. CASE m.errors >= MaxErrors
  <2> DEFINE n == [m EXCEPT !.status = "partial"]
  <2>1. n \in Sync /\ n.status = "partial" /\ n.seen = m.seen /\ n.wrote = m.wrote
    BY DEF Sync
  <2>2. Keep(r, n, "count")
    BY <1>1 DEF AfterPage
  <2> HIDE DEF n
  <2> QED BY <2>1, <2>2
<1>2. CASE ~(m.errors >= MaxErrors) /\ late
  <2> DEFINE e == m.errors + 1
             n == [m EXCEPT !.status = "partial", !.errors = e]
  <2>1. e \in Nat
    BY DEF Sync
  <2>2. Keep(r, n, "count")
    BY <1>2 DEF AfterPage
  <2> HIDE DEF e
  <2>3. n \in Sync /\ n.status = "partial" /\ n.seen = m.seen /\ n.wrote = m.wrote
    BY <2>1 DEF Sync
  <2> HIDE DEF n
  <2> QED BY <2>2, <2>3
<1>3. CASE ~(m.errors >= MaxErrors) /\ ~late
  BY <1>3 DEF AfterPage
<1> QED BY <1>1, <1>2, <1>3

\* What persisting a page makes of a result.
Persisted(m, n, stored) ==
  LET here == In(m.page)
  IN /\ n \in Sync /\ stored \in SUBSET here
     /\ n.page = m.page /\ n.offset = m.offset /\ n.option = m.option /\ n.status = m.status
     /\ n.seen = m.seen \union here /\ n.wrote = m.wrote \union stored
     /\ ~n.failed => ~m.failed /\ stored = here
     /\ n.errors = 0 => m.errors = 0

LEMMA PersistStep ==
  ASSUME PageInv, NEW r \in Requests, Persist(r)
  PROVE  \E n, stored : \E late \in BOOLEAN :
           /\ Persisted(sync[r], n, stored) /\ AfterPage(r, n, late)
           /\ table' = Overwritten(table, Restricted(sync[r].page, stored))
<1> DEFINE m == sync[r]
           here == In(m.page)
<1>1. PICK kind \in {"none", "transform", "persist", "timeout"}, bad \in SUBSET here :
        LET good == here \ bad
            fails == good # {} /\ (m.poisoned \/ kind = "persist")
            stored == IF fails THEN {} ELSE good
            n == [m EXCEPT !.seen = @ \union here,
                           !.kept = @ + Cardinality(here),
                           !.wrote = @ \union stored,
                           !.failed = @ \/ bad # {} \/ fails,
                           !.errors = @ + Cardinality(bad) + (IF fails THEN 1 ELSE 0),
                           !.poisoned = @ \/ fails]
        IN /\ Trouble(kind, kind # "none")
           /\ table' = Overwritten(table, Restricted(m.page, stored))
           /\ calm' = (IF stored = {} THEN calm ELSE calm \cap {r})
           /\ AfterPage(r, n, kind = "timeout")
  BY DEF Persist
<1> DEFINE good == here \ bad
           fails == good # {} /\ (m.poisoned \/ kind = "persist")
           stored == IF fails THEN {} ELSE good
           seen == m.seen \union here
           kept == m.kept + Cardinality(here)
           wrote == m.wrote \union stored
           failed == m.failed \/ bad # {} \/ fails
           errors == m.errors + Cardinality(bad) + (IF fails THEN 1 ELSE 0)
           poisoned == m.poisoned \/ fails
           n == [m EXCEPT !.seen = seen, !.kept = kept, !.wrote = wrote, !.failed = failed,
                          !.errors = errors, !.poisoned = poisoned]
<1>2. m \in Sync
  BY InSync DEF Persist, Syncing
<1>3. here \in SUBSET Products /\ bad \in SUBSET Products
  BY <1>2, RowsType DEF Sync
<1>4. Cardinality(here) \in Nat /\ Cardinality(bad) \in Nat
  BY <1>3, CountIsNat
<1>5. seen \in SUBSET Products /\ wrote \in SUBSET Products /\ stored \in SUBSET here
  BY <1>2, <1>3 DEF Sync
<1>6. kept \in Nat /\ errors \in Nat /\ (errors = 0 => m.errors = 0)
  BY <1>2, <1>4 DEF Sync
<1>7. failed \in BOOLEAN /\ poisoned \in BOOLEAN /\ (~failed => ~m.failed /\ stored = here)
  BY <1>2 DEF Sync
<1>8. Persisted(m, n, stored)
  <2> HIDE DEF m, here, stored, seen, kept, wrote, failed, errors, poisoned
  <2>1. /\ n \in Sync /\ n.page = m.page /\ n.offset = m.offset /\ n.option = m.option
        /\ n.status = m.status /\ n.seen = seen /\ n.wrote = wrote /\ n.failed = failed
        /\ n.errors = errors
    BY <1>2, <1>5, <1>6, <1>7 DEF Sync
  <2> HIDE DEF n
  <2> QED BY <1>5, <1>6, <1>7, <2>1 DEF Persisted, here, seen, wrote
<1>9. /\ table' = Overwritten(table, Restricted(m.page, stored))
      /\ AfterPage(r, n, kind = "timeout")
  BY <1>1
<1> HIDE DEF n, stored
<1> QED BY <1>8, <1>9

LEMMA PersistOwn ==
  ASSUME PageInv, NEW r \in Requests, Persist(r)
  PROVE  /\ Wrote(r)' /\ Reading(r)' /\ Mirrored(r)' /\ Indexed(r)'
         /\ sync'[r].status # "completed"
<1> DEFINE m == sync[r]
           here == In(m.page)
           listed == Listed(m.option)
<1>1. PICK n, stored : \E late \in BOOLEAN :
        /\ Persisted(m, n, stored) /\ AfterPage(r, n, late)
        /\ table' = Overwritten(table, Restricted(m.page, stored))
  BY PersistStep
<1>2. /\ TypeOK /\ pc[r] = "persist" /\ m \in Sync /\ m.status # "completed"
      /\ m.wrote \subseteq m.seen
  BY InSync DEF Persist, Syncing, PageInv, CatalogInv
<1>3. n \in Sync /\ n.wrote \subseteq n.seen /\ n.status # "completed"
  <2> HIDE DEF m
  <2> QED BY <1>1, <1>2 DEF Persisted
<1>4. /\ r \in calm' => r \in calm
      /\ shop' = shop /\ \A o : Listed(o)' = Listed(o)
  BY DEF Persist, Listed, In
<1>5. ASSUME r \in calm', n.status = "in_progress", n.errors = 0, ~n.failed
      PROVE  /\ Prefix(n.seen, listed, ById)
             /\ \A p \in n.seen : table'[p] = shop[p]
             /\ n.offset + Cardinality(here) = Cardinality(n.seen)
             /\ Cardinality(here) \in 0 .. BatchSize
             /\ Cardinality(here) < BatchSize => n.seen = listed
  <2>1. Clean(r) /\ stored = here /\ n.seen = m.seen \union here /\ n.offset = m.offset
    BY <1>1, <1>2, <1>4, <1>5 DEF Clean, Syncing, Persisted
  <2> DEFINE page == Slice(listed, ById, m.offset, BatchSize)
  <2>2. /\ Prefix(m.seen, listed, ById) /\ \A p \in m.seen : table[p] = shop[p]
        /\ m.offset = Cardinality(m.seen) /\ m.page = Restricted(shop, page)
    BY <1>2, <2>1 DEF PageInv, Reading
  <2>3. page \in SUBSET In(shop)
    BY <1>2, ListedType DEF Slice
  <2>4. here = page /\ \A p \in page : m.page[p] = shop[p]
    BY <1>2, <2>2, <2>3, PageOf DEF TypeOK
  <2>5. Advances(m.seen, page, listed, ById, BatchSize)
    BY <1>2, <2>2, NextOfShop
  <2>6. ASSUME NEW p \in n.seen
        PROVE  table'[p] = shop[p]
    <3>1. p \in Products
      BY <1>2, <2>1, <2>3, <2>4 DEF Sync, In
    <3>2. table' = Overwritten(table, Restricted(m.page, here))
      BY <1>1, <2>1
    <3>3. CASE p \in here
      BY <2>4, <3>1, <3>2, <3>3 DEF Overwritten, Restricted, In
    <3>4. CASE p \notin here
      BY <2>1, <2>2, <3>1, <3>2, <3>4 DEF Overwritten, Restricted
    <3> QED BY <3>3, <3>4
  <2> HIDE DEF page, here, listed, m
  <2> QED BY <2>1, <2>2, <2>4, <2>5, <2>6 DEF Advances
<1>6. /\ n.page = m.page /\ n.option = m.option
      /\ HasMore(n.page) <=> Cardinality(here) = BatchSize
      /\ NextOffset(n) = n.offset + Cardinality(here)
  BY <1>1 DEF Persisted, HasMore, NextOffset
<1>7. CASE /\ HasMore(n.page)
           /\ Keep(r, [n EXCEPT !.offset = NextOffset(n)], "fetch")
  <2> DEFINE offset == NextOffset(n)
             k == [n EXCEPT !.offset = offset]
  <2>1. offset \in Nat
    BY <1>2, <1>3, <1>6, RowsType, CountIsNat DEF Sync
  <2> HIDE DEF offset
  <2>2. /\ k \in Sync /\ k.seen = n.seen /\ k.wrote = n.wrote /\ k.status = n.status
        /\ k.errors = n.errors /\ k.failed = n.failed /\ k.offset = offset
        /\ k.option = n.option
    BY <1>3, <2>1 DEF Sync
  <2>3. Keep(r, k, "fetch")
    BY <1>7 DEF offset
  <2> HIDE DEF k
  <2>4. Wrote(r)' /\ Mirrored(r)' /\ Indexed(r)' /\ sync'[r] = k /\ pc'[r] = "fetch"
    BY <1>3, <2>2, <2>3, StaysIn DEF PageInv, Syncing
  <2>5. Reading(r)'
    BY <1>4, <1>5, <1>6, <2>2, <2>4 DEF Reading, Clean, offset
  <2> QED BY <1>3, <2>2, <2>4, <2>5
<1>8. CASE ~HasMore(n.page) /\ Keep(r, n, "count")
  <2>1. Wrote(r)' /\ Mirrored(r)' /\ Indexed(r)' /\ sync'[r] = n /\ pc'[r] = "count"
    BY <1>3, <1>8, StaysIn DEF PageInv, Syncing
  <2>2. Cardinality(here) \in 0 .. BatchSize => Cardinality(here) < BatchSize
    BY <1>6, <1>8, CatalogAssumption
  <2>3. Reading(r)'
    BY <1>4, <1>5, <1>6, <2>1, <2>2 DEF Reading, Clean
  <2> QED BY <1>3, <2>1, <2>3
<1>9. ASSUME NEW k \in Sync, Keep(r, k, "count"), k.status = "partial",
             k.seen = n.seen, k.wrote = n.wrote
      PROVE  /\ Wrote(r)' /\ Reading(r)' /\ Mirrored(r)' /\ Indexed(r)'
             /\ sync'[r].status # "completed"
  <2>1. Wrote(r)' /\ Mirrored(r)' /\ Indexed(r)' /\ sync'[r] = k /\ pc'[r] = "count"
    BY <1>3, <1>9, StaysIn DEF PageInv, Syncing
  <2> QED BY <1>9, <2>1 DEF Reading, Clean
<1> QED
  BY <1>1, <1>3, <1>7, <1>8, <1>9, AfterPageCases

\* A request that reports COMPLETED and no error, with nobody interfering, was
\* clean until then and had read the whole list.
LEMMA ReportedClean ==
  ASSUME PageInv, NEW r \in Requests, pc[r] \in {"count", "delete"}, r \in calm,
         Finished(sync[r]).status = "completed", Finished(sync[r]).errors = 0
  PROVE  /\ Finished(sync[r]).option = sync[r].option
         /\ Finished(sync[r]).seen = sync[r].seen
         /\ Refused(Finished(sync[r])) = Refused(sync[r])
         /\ sync[r].seen = Listed(sync[r].option)
         /\ \A p \in Listed(sync[r].option) : table[p] = shop[p]
<1> DEFINE m == sync[r]
<1>1. m \in Sync /\ m.status # "completed"
  BY InSync DEF Syncing
<1>2. /\ Finished(m).option = m.option /\ Finished(m).seen = m.seen
      /\ Finished(m).kept = m.kept /\ Finished(m).current = m.current
      /\ Finished(m).errors = m.errors /\ Finished(m).status = FinalStatus(m)
  BY <1>1 DEF Finished, Sync
<1>3. m.status = "in_progress" /\ ~m.failed
  BY <1>1, <1>2 DEF FinalStatus
<1>4. Clean(r)
  BY <1>2, <1>3 DEF Clean, Syncing
<1>5. m.seen = Listed(m.option) /\ \A p \in m.seen : table[p] = shop[p]
  BY <1>4 DEF PageInv, Reading
<1> QED BY <1>2, <1>5 DEF Refused

\* A synchronisation that fails at its end does not report COMPLETED.
LEMMA FailedReport ==
  ASSUME PageInv, NEW r \in Requests, pc[r] \in Syncing,
         Report(r, [sync[r] EXCEPT !.status = "failed", !.errors = @ + 1])
  PROVE  Wrote(r)' /\ Reading(r)' /\ Indexed(r)' /\ sync'[r].status # "completed"
<1> DEFINE m == sync[r]
           e == m.errors + 1
           n == [m EXCEPT !.status = "failed", !.errors = e]
<1>1. m \in Sync /\ m.wrote \subseteq m.seen /\ Report(r, n)
  BY InSync
<1>2. e \in Nat
  BY <1>1 DEF Sync
<1> HIDE DEF m, e
<1>3. n \in Sync /\ n.wrote \subseteq n.seen /\ n.status = "failed"
  BY <1>1, <1>2 DEF Sync
<1> HIDE DEF n
<1>4. Wrote(r)' /\ Reading(r)' /\ Indexed(r)' /\ sync'[r] = Finished(n)
  BY <1>1, <1>3, ReportOwn DEF PageInv
<1>5. Finished(n).status = "failed"
  BY <1>3 DEF Finished, FinalStatus, Sync
<1> QED BY <1>4, <1>5

\* What a step of r owes when it ends the synchronisation.
Reports(r) ==
  sync'[r].status = "completed" /\ sync'[r].errors = 0 /\ r \in calm => Mirrors(r)'

LEMMA CountProductsOwn ==
  ASSUME PageInv, NEW r \in Requests, CountProducts(r)
  PROVE  Wrote(r)' /\ Reading(r)' /\ Reports(r) /\ Indexed(r)'
<1> DEFINE m == sync[r]
           c == Cardinality(Active)
           counted == [m EXCEPT !.current = c]
<1>1. /\ m \in Sync /\ m.wrote \subseteq m.seen /\ m.status # "completed"
      /\ pc[r] = "count" /\ CatalogInv
  BY InSync DEF CountProducts, Syncing, PageInv
<1>2. /\ UNCHANGED stores /\ calm' = calm
      /\ \/ Report(r, m) /\ ~(m.option.delete /\ m.seen # {})
         \/ Report(r, [m EXCEPT !.status = "failed", !.errors = @ + 1])
         \/ Keep(r, counted, "delete") /\ UNCHANGED reindex
  BY DEF CountProducts
<1>3. \A o : Listed(o)' = Listed(o)
  BY <1>2 DEF stores, Listed, In
<1>4. CASE Report(r, m) /\ ~(m.option.delete /\ m.seen # {})
  <2>1. Wrote(r)' /\ Reading(r)' /\ Indexed(r)' /\ sync'[r] = Finished(m)
    BY <1>1, <1>4, ReportOwn
  <2>2. Reports(r)
    BY <1>1, <1>2, <1>3, <1>4, <2>1, ReportedClean DEF Reports, Mirrors, stores
  <2> QED BY <2>1, <2>2
<1>5. CASE Report(r, [m EXCEPT !.status = "failed", !.errors = @ + 1])
  BY <1>1, <1>5, FailedReport DEF Reports, Syncing
<1>6. CASE Keep(r, counted, "delete") /\ UNCHANGED reindex
  <2>1. c \in Nat
    <3>1. Active \in SUBSET Products
      BY DEF Active, In
    <3> QED BY <3>1, CountIsNat
  <2> HIDE DEF c
  <2>2. /\ counted \in Sync /\ counted.seen = m.seen /\ counted.wrote = m.wrote
        /\ counted.option = m.option /\ counted.status = m.status
        /\ counted.errors = m.errors /\ counted.failed = m.failed
    BY <1>1, <2>1 DEF Sync
  <2> HIDE DEF counted
  <2>3. Wrote(r)' /\ Indexed(r)' /\ sync'[r] = counted /\ pc'[r] = "delete"
    BY <1>1, <1>6, <2>2, StaysIn DEF Syncing
  <2>4. Clean(r)' => Clean(r)
    BY <1>1, <1>2, <2>2, <2>3 DEF Clean, Syncing
  <2>5. Reading(r)'
    BY <1>1, <1>2, <1>3, <2>2, <2>3, <2>4 DEF PageInv, Reading, stores
  <2> QED BY <1>1, <2>2, <2>3, <2>5 DEF Reports
<1> QED BY <1>2, <1>4, <1>5, <1>6

LEMMA DeleteProductsOwn ==
  ASSUME PageInv, NEW r \in Requests, DeleteProducts(r)
  PROVE  Wrote(r)' /\ Reading(r)' /\ Reports(r) /\ Indexed(r)'
<1> DEFINE m == sync[r]
<1>1. /\ m \in Sync /\ m.wrote \subseteq m.seen /\ m.status # "completed"
      /\ pc[r] = "delete" /\ CatalogInv
  BY InSync DEF DeleteProducts, Syncing, PageInv
<1>2. /\ shop' = shop
      /\ \/ Refused(m) /\ Report(r, m) /\ table' = table
         \/ /\ Report(r, m) /\ table' = Without(table, In(table) \ m.seen)
         \/ Report(r, [m EXCEPT !.status = "failed", !.errors = @ + 1])
  BY DEF DeleteProducts
<1>3. \A o : Listed(o)' = Listed(o)
  BY <1>2 DEF Listed, In
<1>4. CASE Report(r, m) /\ \/ Refused(m) /\ table' = table
                           \/ table' = Without(table, In(table) \ m.seen)
  <2>1. Wrote(r)' /\ Reading(r)' /\ Indexed(r)' /\ sync'[r] = Finished(m)
    BY <1>1, <1>4, ReportOwn
  <2> SUFFICES ASSUME Finished(m).status = "completed", Finished(m).errors = 0, r \in calm
               PROVE  Mirrors(r)'
    BY <2>1 DEF Reports
  <2>2. /\ Finished(m).option = m.option /\ Finished(m).seen = m.seen
        /\ Refused(Finished(m)) = Refused(m) /\ m.seen = Listed(m.option)
        /\ \A p \in Listed(m.option) : table[p] = shop[p]
    BY <1>1, ReportedClean
  <2>3. CASE Refused(m) /\ table' = table
    BY <1>2, <1>3, <2>1, <2>2, <2>3 DEF Mirrors, Refused
  <2>4. CASE table' = Without(table, In(table) \ m.seen)
    <3> DEFINE listed == Listed(m.option)
    <3>1. listed \in SUBSET Products
      BY <1>1, ListedType DEF CatalogInv
    <3>2. \A p \in Products : table'[p] = IF p \in listed THEN table[p] ELSE None
      BY <2>2, <2>4 DEF Without, Restricted, In
    <3>3. (\A p \in listed : table'[p] = shop'[p]) /\ \A p \in Products \ listed : table'[p] = None
      BY <1>2, <2>2, <3>1, <3>2
    <3>4. listed = Listed(sync[r].option)'
      BY <1>3, <2>1, <2>2
    <3> HIDE DEF listed
    <3> QED BY <3>3, <3>4 DEF Mirrors
  <2> QED BY <1>4, <2>3, <2>4
<1>5. CASE Report(r, [m EXCEPT !.status = "failed", !.errors = @ + 1])
  BY <1>1, <1>5, FailedReport DEF Reports, Syncing
<1> QED BY <1>2, <1>4, <1>5

--------------------------------------------------------------------------------
(* The steps of the index leave the mirror alone.                          *)

\* While r indexes, neither its synchronisation nor the table changes.
LEMMA IndexingOwn ==
  ASSUME PageInv, NEW r \in Requests, ReadPage(r) \/ IndexPage(r) \/ Prune(r)
  PROVE  Wrote(r)' /\ Reading(r)' /\ Mirrored(r)' /\ UNCHANGED sync
<1>1. /\ pc[r] \in Indexing /\ UNCHANGED <<shop, table, sync>>
      /\ r \in calm' => r \in calm
  BY DEF ReadPage, IndexPage, Prune, Indexing, stores
<1>2. pc'[r] \in Indexing \union {"done"}
  <2> USE DEF KeepIndex, Goto, PageInv, CatalogInv, TypeOK, Indexing
  <2>1. CASE ReadPage(r)
    BY <2>1 DEF ReadPage
  <2>2. CASE IndexPage(r)
    BY <2>2 DEF IndexPage
  <2>3. CASE Prune(r)
    BY <2>3 DEF Prune
  <2> QED BY <2>1, <2>2, <2>3
<1>3. Reading(r)'
  BY <1>2 DEF Reading, Clean, Syncing, Indexing
<1>4. Wrote(r)' /\ Mirrored(r)'
  BY <1>1, <1>2 DEF PageInv, Wrote, Mirrored, Mirrors, Refused, Listed, In, Indexing
<1> QED BY <1>1, <1>3, <1>4

LEMMA CrashOwn ==
  ASSUME PageInv, NEW r \in Requests, Crash(r)
  PROVE  Wrote(r)' /\ Reading(r)' /\ Mirrored(r)' /\ Indexed(r)' /\ sync'[r] = None
<1>1. pc'[r] = "dead" /\ sync'[r] = None
  BY DEF Crash, Goto, PageInv, CatalogInv, TypeOK
<1> QED
  BY <1>1, NoneAssumption DEF Wrote, Reading, Clean, Mirrored, Indexed, Syncing, Indexing

LEMMA EditShopPages ==
  ASSUME PageInv, EditShop
  PROVE  ShopReal' /\ \A r \in Requests : Wrote(r)' /\ Reading(r)' /\ Mirrored(r)' /\ Indexed(r)'
<1>1. ShopReal'
  <2>1. PICK p \in Edited, b \in BOOLEAN, gone \in BOOLEAN :
          shop' = [shop EXCEPT ![p] = IF gone THEN None ELSE Product(edits + 1, b)]
    BY DEF EditShop
  <2>2. Product(edits + 1, b).real = TRUE
    BY DEF Product
  <2>3. shop \in Rows
    BY DEF PageInv, CatalogInv, TypeOK
  <2> QED BY <2>1, <2>2, <2>3 DEF PageInv, ShopReal, In, Rows
<1>2. calm' = {} /\ UNCHANGED request
  BY DEF EditShop
<1> QED
  BY <1>1, <1>2 DEF PageInv, Wrote, Reading, Clean, Mirrored, Indexed, request

LEMMA ShopKept ==
  ASSUME NEW r, Begin(r) \/ Handle(r) \/ Crash(r)
  PROVE  shop' = shop
BY DEF Handle, Begin, Fetch, FetchFails, Persist, CountProducts, DeleteProducts, ReadPage,
  IndexPage, Prune, Crash, stores

\* Every step of r keeps what is said of r, and it reports what is true.
LEMMA OwnStep ==
  ASSUME PageInv, NEW r \in Requests, Begin(r) \/ Handle(r) \/ Crash(r)
  PROVE  /\ Wrote(r)' /\ Reading(r)' /\ Mirrored(r)'
         /\ sync'[r] # sync[r] /\ sync'[r] # None => Reports(r)
<1>1. CASE Begin(r)
  <2>1. sync'[r] # None => sync'[r].status # "completed"
    <3>1. PICK o \in Asks[r], down \in BOOLEAN :
            sync' = [sync EXCEPT ![r] = IF down THEN [FreshSync(o) EXCEPT !.status = "failed",
                                                                          !.errors = 1]
                                                ELSE FreshSync(o)]
      BY <1>1 DEF Begin, Keep
    <3>2. CASE down
      BY <3>1, <3>2 DEF FreshSync, PageInv, CatalogInv, TypeOK
    <3>3. CASE ~down
      BY <3>1, <3>3 DEF FreshSync, PageInv, CatalogInv, TypeOK
    <3> QED BY <3>2, <3>3
  <2> QED BY <1>1, <2>1, BeginOwn DEF Reports, PageInv
<1>2. CASE Fetch(r)
  <2>1. sync'[r].status # "completed"
    <3>1. PICK page : sync' = [sync EXCEPT ![r] = [sync[r] EXCEPT !.page = page]]
      BY <1>2 DEF Fetch, Keep
    <3>2. sync[r] \in Sync /\ sync[r].status # "completed"
      BY <1>2, InSync DEF Fetch, Syncing
    <3>3. sync'[r].status = sync[r].status
      BY <3>1, <3>2 DEF PageInv, CatalogInv, TypeOK, Sync
    <3> QED BY <3>2, <3>3
  <2> QED BY <1>2, <2>1, FetchOwn DEF Reports
<1>3. CASE FetchFails(r)
  BY <1>3, FetchFailsOwn DEF Reports
<1>4. CASE Persist(r)
  BY <1>4, PersistOwn DEF Reports
<1>5. CASE CountProducts(r) \/ DeleteProducts(r)
  <2>1. Wrote(r)' /\ Reading(r)' /\ Reports(r)
    BY <1>5, CountProductsOwn, DeleteProductsOwn
  <2>2. calm' \subseteq calm
    BY <1>5 DEF CountProducts, DeleteProducts
  <2>3. Mirrored(r)'
    BY <2>1, <2>2 DEF Reports, Mirrored
  <2> QED BY <2>1, <2>3
<1>6. CASE ReadPage(r) \/ IndexPage(r) \/ Prune(r)
  BY <1>6, IndexingOwn
<1>7. CASE Crash(r)
  BY <1>7, CrashOwn
<1> QED BY <1>1, <1>2, <1>3, <1>4, <1>5, <1>6, <1>7 DEF Handle

LEMMA InitPages == Init => PageInv
<1> SUFFICES ASSUME Init PROVE PageInv
  OBVIOUS
<1>1. CatalogInv
  BY InitInv
<1>2. ShopReal
  BY DEF Init, ShopReal, In, Product
<1>3. \A r \in Requests : pc[r] = "idle" /\ sync[r] = None
  BY DEF Init
<1> QED
  BY <1>1, <1>2, <1>3, NoneAssumption
  DEF PageInv, Wrote, Reading, Clean, Mirrored, Syncing, Indexing

LEMMA NextPages ==
  ASSUME PageInv, [Next]_vars
  PROVE  PageInv'
<1>1. CatalogInv'
  BY NextInv DEF PageInv
<1>2. CASE EditShop
  BY <1>1, <1>2, EditShopPages DEF PageInv
<1>3. ASSUME NEW q \in Requests, Begin(q) \/ Handle(q) \/ Crash(q)
      PROVE  PageInv'
  <2>1. ShopReal'
    BY <1>3, ShopKept DEF PageInv, ShopReal, In
  <2>2. ASSUME NEW r \in Requests
        PROVE  Wrote(r)' /\ Reading(r)' /\ Mirrored(r)'
    BY <1>3, <2>2, OthersKeep, OwnStep DEF PageInv
  <2> QED BY <1>1, <2>1, <2>2 DEF PageInv
<1>4. CASE UNCHANGED vars
  BY <1>1, <1>4 DEF vars, stores, request, PageInv, ShopReal, Wrote, Reading, Clean, Mirrored,
     Mirrors, Refused, Listed, In
<1> QED BY <1>2, <1>3, <1>4 DEF Next

\* In every reachable state the strengthening holds.
THEOREM PageInvariant == Spec => []PageInv
BY InitPages, NextPages, PTL DEF Spec

\* CompletedMirrors of one request and one step.
MirrorsStep ==
  \A r \in calm : Completes(sync[r], sync'[r]) /\ sync'[r].errors = 0 => Mirrors(r)'

\* A synchronisation that reports COMPLETED and no error left the table a mirror
\* of the shop, if neither the shop nor the table was changed by anybody else.
THEOREM SynchronisationMirrors == Spec => CompletedMirrors
<1>1. ASSUME PageInv, [Next]_vars
      PROVE  [MirrorsStep]_vars
  <2> SUFFICES ASSUME NEW r \in calm, Completes(sync[r], sync'[r]), sync'[r].errors = 0
               PROVE  Mirrors(r)'
    BY DEF MirrorsStep
  <2>1. r \in Requests
    BY <1>1 DEF PageInv, CatalogInv, TypeOK
  <2>2. sync'[r] # sync[r] /\ sync'[r] # None /\ sync'[r].status = "completed"
    BY DEF Completes
  <2>3. PICK q \in Requests : Begin(q) \/ Handle(q) \/ Crash(q)
    <3>1. ~EditShop /\ ~UNCHANGED vars
      BY <2>2 DEF EditShop, request, vars
    <3> QED BY <1>1, <3>1 DEF Next
  <2>4. q = r
    BY <1>1, <2>1, <2>2, <2>3, OthersMemory DEF PageInv
  <2> QED BY <1>1, <2>1, <2>2, <2>3, <2>4, OwnStep DEF Reports
<1>2. Spec => [][MirrorsStep]_vars
  BY <1>1, PageInvariant, PTL DEF Spec
<1> QED BY <1>2 DEF CompletedMirrors, MirrorsStep

--------------------------------------------------------------------------------
(* The pages of the table that are indexed, if no two names are equal.     *)

\* No two products of the tenant have one name.  The source does not promise it:
\* with equal names a product can be missed between two pages.
DistinctNames == \A p, q \in Products : NameOf[p] = NameOf[q] => p = q

\* Without equal names there is one order by name.
LEMMA OneOrder ==
  ASSUME DistinctNames, NEW rank \in NameOrders, NEW S \in SUBSET Products,
         NEW offset, NEW limit
  PROVE  Slice(S, rank, offset, limit) = Slice(S, NameOf, offset, limit)
<1>1. NameOf \in [Products -> Nat]
  BY CatalogAssumption
<1>2. /\ rank \in [Products -> 1 .. Cardinality(Products)]
      /\ \A p, q \in Products : NameOf[p] < NameOf[q] => rank[p] < rank[q]
  BY DEF NameOrders
<1>3. Cardinality(Products) \in Nat
  BY FS_CardinalityType, CatalogAssumption
<1>4. ASSUME NEW p \in Products, NEW q \in Products
      PROVE  rank[q] < rank[p] <=> NameOf[q] < NameOf[p]
  <2>1. /\ NameOf[p] \in Nat /\ NameOf[q] \in Nat
        /\ rank[p] \in Nat /\ rank[q] \in Nat
    BY <1>1, <1>2, <1>3
  <2>2. NameOf[p] < NameOf[q] => rank[p] < rank[q]
    BY <1>2
  <2>3. NameOf[q] < NameOf[p] => rank[q] < rank[p]
    BY <1>2
  <2>4. NameOf[p] = NameOf[q] => p = q
    BY DEF DistinctNames
  <2> QED BY <2>1, <2>2, <2>3, <2>4
<1>5. \A p \in S : {q \in S : rank[q] < rank[p]} = {q \in S : NameOf[q] < NameOf[p]}
  BY <1>4
<1> QED BY <1>5 DEF Slice

\* The next page of the table.
LEMMA NextOfTable ==
  ASSUME DistinctNames, NEW T, Prefix(T, Active, NameOf)
  PROVE  Advances(T, Slice(Active, NameOf, Cardinality(T), BatchSize), Active, NameOf,
                  BatchSize)
<1>1. Active \in SUBSET Products
  BY DEF Active, In
<1>2. NameOf \in [Products -> Nat] /\ \A p, q \in Products : NameOf[p] = NameOf[q] => p = q
  BY CatalogAssumption DEF DistinctNames
<1>3. BatchSize \in Nat \ {0}
  BY CatalogAssumption
<1> QED BY <1>1, <1>2, <1>3, NextSlice

\* What r says while it indexes without a failure.
Whole(r) ==
  r \in calm /\ pc[r] \in Indexing /\ reindex[r].status = "in_progress" /\ ~reindex[r].failed

LEMMA ReadPageOwn ==
  ASSUME DistinctNames, PageInv, NEW r \in Requests, Indexed(r), ReadPage(r)
  PROVE  Indexed(r)' /\ ~Completes(reindex[r], reindex'[r])
<1> DEFINE m == reindex[r]
           failed == [m EXCEPT !.status = "failed", !.errors = @ + 1]
<1>1. PICK fails \in BOOLEAN, rank \in NameOrders :
        LET page == Restricted(table, Slice(Active, rank, m.offset, BatchSize))
        IN /\ Trouble("read", fails)
           /\ IF fails THEN KeepIndex(r, Finished(failed), "done")
                       ELSE KeepIndex(r, [m EXCEPT !.page = page],
                                      IF page = NoPage THEN "prune" ELSE "embed")
  BY DEF ReadPage
<1>2. /\ m \in Reindex /\ pc[r] = "read" /\ table \in Rows /\ UNCHANGED stores /\ calm' = calm
      /\ pc \in [Requests -> Idle \union Syncing \union Indexing]
      /\ reindex \in [Requests -> Reindex \union {None}]
  BY DEF ReadPage, PageInv, CatalogInv, Shape, TypeOK, Indexing, Syncing, Idle
<1> DEFINE slice == Slice(Active, NameOf, m.offset, BatchSize)
           page == Restricted(table, slice)
           n == [m EXCEPT !.page = page]
<1>3. Active \in SUBSET Products /\ slice \in SUBSET Active /\ slice \in SUBSET In(table)
  BY DEF Active, In, Slice
<1>4. Active' = Active
  BY <1>2 DEF Active, In, stores
<1>5. CASE fails
  <2>1. KeepIndex(r, Finished(failed), "done")
    BY <1>1, <1>5
  <2>2. pc'[r] = "done" /\ reindex'[r] = Finished(failed)
    BY <1>2, <2>1 DEF KeepIndex, Goto
  <2>3. failed.status = "failed"
    BY <1>2 DEF Reindex
  <2>4. Finished(failed).status = FinalStatus(failed)
    BY <1>2 DEF Finished, Reindex
  <2>5. FinalStatus(failed) = "failed"
    BY <2>3 DEF FinalStatus
  <2> QED BY <2>2, <2>4, <2>5 DEF Indexed, Indexing, Completes
<1>6. CASE ~fails
  <2>1. Restricted(table, Slice(Active, rank, m.offset, BatchSize)) = page
    BY <1>3, OneOrder
  <2>2. KeepIndex(r, n, IF page = NoPage THEN "prune" ELSE "embed")
    BY <1>1, <1>6, <2>1
  <2>3. reindex'[r] = n /\ pc'[r] = (IF page = NoPage THEN "prune" ELSE "embed")
    BY <1>2, <2>2 DEF KeepIndex, Goto
  <2>4. /\ n.page = page /\ n.offset = m.offset /\ n.indexed = m.indexed
        /\ n.status = m.status /\ n.failed = m.failed
    BY <1>2 DEF Reindex
  <2> HIDE DEF n, page, slice
  <2>5. ASSUME Whole(r)'
        PROVE  /\ Prefix(m.indexed, Active, NameOf) /\ \A p \in m.indexed : docs[p] = table[p]
               /\ m.offset = Cardinality(m.indexed)
               /\ page = NoPage => m.indexed = Active
    <3>1. Whole(r)
      BY <1>2, <2>3, <2>4, <2>5 DEF Whole, Indexing
    <3>2. /\ Prefix(m.indexed, Active, NameOf) /\ \A p \in m.indexed : docs[p] = table[p]
          /\ m.offset = Cardinality(m.indexed)
      BY <1>2, <3>1 DEF Whole, Indexed
    <3>3. ASSUME page = NoPage
          PROVE  m.indexed = Active
      <4>1. slice = {}
        BY <1>2, <1>3, <3>3, PageOf DEF page
      <4>2. Cardinality(slice) < BatchSize
        BY <4>1, FS_EmptySet, CatalogAssumption
      <4>3. Advances(m.indexed, slice, Active, NameOf, BatchSize)
        BY <3>2, NextOfTable DEF slice
      <4>4. m.indexed \union slice = Active
        BY <4>2, <4>3 DEF Advances
      <4> QED BY <4>1, <4>4
    <3> QED BY <3>2, <3>3
  <2>6. table' = table /\ docs' = docs
    BY <1>2 DEF stores
  <2>7. Indexed(r)'
    BY <1>4, <2>3, <2>4, <2>5, <2>6 DEF Indexed, Whole, page, slice
  <2>8. ~Completes(m, reindex'[r])
    BY <2>3, <2>4 DEF Completes
  <2> QED BY <2>7, <2>8
<1> QED BY <1>5, <1>6

\* What indexing a page makes of a result, if the run does not end with it.
IndexedMore(m, n, stored) ==
  LET here == In(m.page)
  IN /\ n \in Reindex /\ stored \in SUBSET here
     /\ n.page = m.page /\ n.status = m.status
     /\ n.indexed = m.indexed \union stored
     /\ n.offset = NextPage(m.offset)
     /\ ~n.failed => ~m.failed /\ stored = here

LEMMA IndexPageStep ==
  ASSUME PageInv, NEW r \in Requests, IndexPage(r)
  PROVE  \/ \E n \in Reindex : KeepIndex(r, n, "prune") /\ n.status = "partial"
         \/ \E n, stored :
              /\ IndexedMore(reindex[r], n, stored)
              /\ docs' = Overwritten(docs, Restricted(reindex[r].page, stored))
              /\ KeepIndex(r, n, IF LastPage(reindex[r].page) THEN "prune" ELSE "read")
<1> DEFINE m == reindex[r]
           here == In(m.page)
<1>1. PICK kind \in {"none", "prepare", "store"}, bad \in SUBSET here :
        LET stored == IF kind = "store" THEN {} ELSE here \ bad
            n == [m EXCEPT !.indexed = @ \union stored,
                           !.failed = @ \/ kind # "none",
                           !.errors = @ + Cardinality(bad) + (IF kind = "store" THEN 1 ELSE 0)]
        IN /\ kind = "prepare" <=> bad # {}
           /\ docs' = Overwritten(docs, Restricted(m.page, stored))
           /\ IF n.errors >= MaxErrors
                THEN KeepIndex(r, [n EXCEPT !.status = "partial"], "prune")
                ELSE KeepIndex(r, [n EXCEPT !.offset = NextPage(@)],
                               IF LastPage(m.page) THEN "prune" ELSE "read")
  BY DEF IndexPage
<1> DEFINE stored == IF kind = "store" THEN {} ELSE here \ bad
           indexed == m.indexed \union stored
           errors == m.errors + Cardinality(bad) + (IF kind = "store" THEN 1 ELSE 0)
           failed == m.failed \/ kind # "none"
           offset == NextPage(m.offset)
           n == [m EXCEPT !.indexed = indexed, !.failed = failed, !.errors = errors]
           next == [n EXCEPT !.offset = NextPage(@)]
           partial == [n EXCEPT !.status = "partial"]
           label == IF LastPage(m.page) THEN "prune" ELSE "read"
<1>2. m \in Reindex
  BY DEF IndexPage, PageInv, CatalogInv, Shape, Indexing
<1>3. here \in SUBSET Products /\ bad \in SUBSET Products
  BY <1>2, RowsType DEF Reindex
<1>4. errors \in Nat
  <2>1. Cardinality(bad) \in Nat
    BY <1>3, CountIsNat
  <2> QED BY <1>2, <2>1 DEF Reindex
<1>5. indexed \in SUBSET Products /\ stored \in SUBSET here
  BY <1>2, <1>3 DEF Reindex
<1>6. failed \in BOOLEAN /\ (~failed => ~m.failed /\ stored = here)
  <2>1. failed \in BOOLEAN
    OBVIOUS
  <2>2. ~failed => ~m.failed /\ kind = "none"
    OBVIOUS
  <2>3. kind = "none" => bad = {}
    BY <1>1
  <2> QED BY <2>1, <2>2, <2>3
<1>7. offset \in Nat
  BY <1>2, CatalogAssumption DEF NextPage, Reindex
<1>8. docs' = Overwritten(docs, Restricted(m.page, stored))
  BY <1>1
<1>9. KeepIndex(r, partial, "prune") \/ KeepIndex(r, next, label)
  BY <1>1
<1>10. partial \in Reindex /\ partial.status = "partial" /\ IndexedMore(m, next, stored)
  <2> DEFINE k == [m EXCEPT !.indexed = indexed, !.failed = failed, !.errors = errors,
                            !.offset = offset]
             p == [m EXCEPT !.indexed = indexed, !.failed = failed, !.errors = errors,
                            !.status = "partial"]
  <2>1. next = k /\ partial = p
    BY <1>2 DEF Reindex
  <2>2. /\ k \in Reindex /\ k.page = m.page /\ k.status = m.status /\ k.indexed = indexed
        /\ k.offset = offset /\ k.failed = failed
        /\ p \in Reindex /\ p.status = "partial"
    <3> HIDE DEF m, indexed, failed, errors, offset
    <3> QED BY <1>2, <1>4, <1>5, <1>6, <1>7 DEF Reindex
  <2> HIDE DEF k, p, failed, stored, m, next, partial, n
  <2> QED BY <1>5, <1>6, <2>1, <2>2 DEF IndexedMore
<1> HIDE DEF n, next, partial, stored
<1> QED BY <1>8, <1>9, <1>10

LEMMA IndexPageOwn ==
  ASSUME DistinctNames, PageInv, NEW r \in Requests, Indexed(r), IndexPage(r)
  PROVE  Indexed(r)' /\ ~Completes(reindex[r], reindex'[r])
<1> DEFINE m == reindex[r]
           here == In(m.page)
           label == IF LastPage(m.page) THEN "prune" ELSE "read"
           page == Slice(Active, NameOf, m.offset, BatchSize)
<1>1. /\ m \in Reindex /\ pc[r] = "embed" /\ table \in Rows /\ docs \in Rows /\ table' = table
      /\ r \in calm' => r \in calm
      /\ pc \in [Requests -> Idle \union Syncing \union Indexing]
      /\ reindex \in [Requests -> Reindex \union {None}]
  BY DEF IndexPage, PageInv, CatalogInv, Shape, TypeOK, Indexing, Syncing, Idle
<1>2. Active' = Active
  BY <1>1 DEF Active, In
<1>3. page \in SUBSET Active /\ page \in SUBSET In(table)
  BY DEF Active, In, Slice
<1>4. ASSUME NEW n \in Reindex, KeepIndex(r, n, "prune"), n.status = "partial"
      PROVE  Indexed(r)' /\ ~Completes(reindex[r], reindex'[r])
  <2>1. reindex'[r] = n
    BY <1>1, <1>4 DEF KeepIndex
  <2> QED BY <1>4, <2>1 DEF Indexed, Completes
<1>5. ASSUME NEW n, NEW stored, IndexedMore(m, n, stored),
             docs' = Overwritten(docs, Restricted(m.page, stored)),
             KeepIndex(r, n, label)
      PROVE  Indexed(r)' /\ ~Completes(reindex[r], reindex'[r])
  <2>1. reindex'[r] = n /\ pc'[r] = label
    BY <1>1, <1>5 DEF KeepIndex, Goto
  <2>2. n.status = m.status /\ n.indexed = m.indexed \union stored /\ n.offset = NextPage(m.offset)
    BY <1>5 DEF IndexedMore
  <2>3. ~Completes(m, reindex'[r])
    BY <2>1, <2>2 DEF Completes
  <2>4. ASSUME Whole(r)'
        PROVE  /\ Prefix(n.indexed, Active, NameOf) /\ \A p \in n.indexed : docs'[p] = table[p]
               /\ label = "read" => n.offset = Cardinality(n.indexed)
               /\ label = "prune" => n.indexed = Active
    <3>1. Whole(r) /\ stored = here
      BY <1>1, <1>5, <2>1, <2>4 DEF Whole, IndexedMore, Indexing
    <3>2. /\ Prefix(m.indexed, Active, NameOf) /\ \A p \in m.indexed : docs[p] = table[p]
          /\ m.offset = Cardinality(m.indexed) /\ m.page = Restricted(table, page)
      BY <1>1, <3>1 DEF Whole, Indexed
    <3>3. here = page /\ \A p \in page : m.page[p] = table[p]
      BY <1>1, <1>3, <3>2, PageOf
    <3>4. Advances(m.indexed, page, Active, NameOf, BatchSize)
      BY <3>2, NextOfTable
    <3>5. ASSUME NEW p \in n.indexed
          PROVE  docs'[p] = table[p]
      <4>1. p \in Products
        BY <1>1, <1>3, <2>2, <3>1, <3>3 DEF Reindex, Active, In
      <4>2. docs' = Overwritten(docs, Restricted(m.page, here))
        BY <1>5, <3>1
      <4>3. CASE p \in here
        BY <3>3, <4>1, <4>2, <4>3 DEF Overwritten, Restricted, In
      <4>4. CASE p \notin here
        BY <2>2, <3>1, <3>2, <4>1, <4>2, <4>4 DEF Overwritten, Restricted
      <4> QED BY <4>3, <4>4
    <3>6. LastPage(m.page) <=> Cardinality(page) < BatchSize
      BY <3>3 DEF LastPage
    <3>7. n.indexed = m.indexed \union page
      BY <2>2, <3>1, <3>3
    <3>8. label = "prune" => n.indexed = Active
      BY <3>4, <3>6, <3>7 DEF Advances
    <3>9. label = "read" => n.offset = Cardinality(n.indexed)
      <4>1. label = "read" => Cardinality(page) = BatchSize
        BY <3>4, <3>6, CatalogAssumption DEF Advances
      <4> QED BY <2>2, <3>2, <3>4, <3>7, <4>1 DEF Advances, NextPage
    <3> QED BY <3>4, <3>5, <3>7, <3>8, <3>9 DEF Advances
  <2> HIDE DEF page, here
  <2>5. Indexed(r)'
    BY <1>1, <1>2, <2>1, <2>4 DEF Indexed, Whole
  <2> QED BY <2>3, <2>5
<1> QED BY <1>4, <1>5, IndexPageStep

\* CompletedIsSearchable of one request and one step.
SearchableAfter(r) ==
  LET listed == {p \in Listed(sync[r].option) : shop[p].active}
  IN /\ \A p \in listed : p \in Searchable' /\ docs'[p] = shop[p]
     /\ sync[r].option.delete /\ ~Refused(sync[r]) /\ reindex'[r].deleted > 0 =>
          Searchable' \subseteq listed

LEMMA PruneOwn ==
  ASSUME PageInv, NEW r \in Requests, r \in calm, Indexed(r), Prune(r),
         Completes(reindex[r], reindex'[r]),
         sync[r].status = "completed", sync[r].errors = 0
  PROVE  SearchableAfter(r)
<1> DEFINE m == reindex[r]
           s == sync[r]
           listed == Listed(s.option)
<1>1. PICK fails \in BOOLEAN :
        LET stale == IF s.option.prune /\ m.indexed # {} /\ ~fails
                       THEN In(docs) \ m.indexed ELSE {}
        IN /\ docs' = Without(docs, stale)
           /\ KeepIndex(r, [Finished(m) EXCEPT !.deleted = Cardinality(stale)], "done")
  BY DEF Prune
<1> DEFINE stale == IF s.option.prune /\ m.indexed # {} /\ ~fails
                      THEN In(docs) \ m.indexed ELSE {}
<1>2. /\ m \in Reindex /\ pc[r] = "prune" /\ s \in Sync /\ TypeOK
      /\ reindex \in [Requests -> Reindex \union {None}]
  BY DEF Prune, PageInv, CatalogInv, Shape, TypeOK, Indexing
<1>3. reindex'[r].status = FinalStatus(m) /\ reindex'[r].deleted = Cardinality(stale)
  <2>1. reindex'[r] = [Finished(m) EXCEPT !.deleted = Cardinality(stale)]
    BY <1>1, <1>2 DEF KeepIndex
  <2>2. Finished(m) \in Reindex /\ Finished(m).status = FinalStatus(m)
    BY <1>2, FinishedReindex DEF Finished, Reindex
  <2> HIDE DEF stale, m
  <2> QED BY <2>1, <2>2 DEF Reindex
<1>4. m.status = "in_progress" /\ ~m.failed
  BY <1>3 DEF Completes, FinalStatus
<1>5. m.indexed = Active /\ \A p \in Active : docs[p] = table[p]
  BY <1>2, <1>4 DEF Indexed, Indexing
<1>6. Mirrors(r) /\ s.seen # {}
  BY <1>2 DEF PageInv, Mirrored, Wrote, Indexing
<1>7. listed \in SUBSET Products /\ \A p \in listed : shop[p] # None /\ table[p] = shop[p]
  BY <1>6 DEF Listed, In, Mirrors
<1>8. /\ docs' = Without(docs, stale) /\ stale \in SUBSET In(docs) /\ stale \cap Active = {}
      /\ stale # {} => stale = In(docs) \ Active
  BY <1>1, <1>5
<1> HIDE DEF stale
<1>9. ASSUME NEW p \in listed, shop[p].active
      PROVE  p \in Searchable' /\ docs'[p] = shop[p]
  <2>1. p \in Products /\ p \in Active /\ docs[p] = shop[p]
    BY <1>5, <1>7, <1>9 DEF Active, In
  <2>2. docs'[p] = docs[p]
    BY <1>8, <2>1 DEF Without, Restricted
  <2> QED BY <1>7, <1>9, <2>1, <2>2 DEF Searchable, In
<1>10. ASSUME s.option.delete, ~Refused(s), reindex'[r].deleted > 0, NEW p \in Searchable'
       PROVE  p \in listed /\ shop[p].active
  <2>1. stale # {}
    <3>1. Cardinality({}) = 0
      BY FS_EmptySet
    <3>2. Cardinality(stale) > 0
      BY <1>3, <1>10
    <3> QED BY <3>1, <3>2
  <2>2. p \in Products /\ docs'[p] # None /\ docs'[p].active
    BY <1>10 DEF Searchable, In
  <2>3. p \in Active /\ docs'[p] = docs[p]
    BY <1>8, <2>1, <2>2 DEF Without, Restricted, In
  <2>4. table[p] = docs'[p] /\ table[p] # None
    BY <1>5, <2>2, <2>3
  <2>5. p \in listed
    BY <1>6, <1>10, <2>2, <2>4 DEF Mirrors
  <2> QED BY <1>7, <2>2, <2>4, <2>5
<1> QED BY <1>9, <1>10 DEF SearchableAfter

\* No other step of a request ends its indexing with COMPLETED.
LEMMA OwnIndexed ==
  ASSUME DistinctNames, PageInv, NEW r \in Requests, Indexed(r), Begin(r) \/ Handle(r) \/ Crash(r)
  PROVE  /\ Indexed(r)'
         /\ r \in calm /\ Completes(reindex[r], reindex'[r]) /\ sync[r].status = "completed"
              /\ sync[r].errors = 0 => SearchableAfter(r)
<1>0. ASSUME NEW m, Report(r, m)
      PROVE  ~Completes(reindex[r], reindex'[r])
  BY <1>0 DEF Report, KeepIndex, PageInv, CatalogInv, TypeOK, Completes, FreshReindex
<1>1. CASE Begin(r)
  BY <1>1, BeginOwn DEF PageInv, Begin, Completes
<1>2. CASE Fetch(r)
  BY <1>2, FetchOwn DEF Fetch, Completes
<1>3. CASE FetchFails(r)
  <2>1. (\E m : Report(r, m)) \/ UNCHANGED reindex
    BY <1>3 DEF FetchFails
  <2> QED BY <1>0, <1>3, <2>1, FetchFailsOwn DEF Completes
<1>4. CASE Persist(r)
  BY <1>4, PersistOwn DEF Persist, Completes
<1>5. CASE CountProducts(r) \/ DeleteProducts(r)
  <2>1. (\E m : Report(r, m)) \/ UNCHANGED reindex
    BY <1>5 DEF CountProducts, DeleteProducts
  <2> QED BY <1>0, <1>5, <2>1, CountProductsOwn, DeleteProductsOwn DEF Completes
<1>6. CASE ReadPage(r)
  BY <1>6, ReadPageOwn
<1>7. CASE IndexPage(r)
  BY <1>7, IndexPageOwn
<1>8. CASE Prune(r)
  <2>1. pc'[r] = "done"
    BY <1>8 DEF Prune, KeepIndex, Goto, PageInv, CatalogInv, TypeOK
  <2> QED BY <1>8, <2>1, PruneOwn DEF Indexed, Indexing
<1>9. CASE Crash(r)
  <2>1. Indexed(r)' /\ reindex'[r] = None
    BY <1>9, CrashOwn DEF Crash, PageInv, CatalogInv, TypeOK
  <2> QED BY <2>1 DEF Completes
<1> QED BY <1>1, <1>2, <1>3, <1>4, <1>5, <1>6, <1>7, <1>8, <1>9 DEF Handle

IndexInv == PageInv /\ \A r \in Requests : Indexed(r)

LEMMA NextIndexed ==
  ASSUME DistinctNames, IndexInv, [Next]_vars
  PROVE  IndexInv'
<1>1. PageInv'
  BY NextPages DEF IndexInv
<1>2. CASE EditShop
  BY <1>1, <1>2, EditShopPages DEF IndexInv
<1>3. ASSUME NEW q \in Requests, Begin(q) \/ Handle(q) \/ Crash(q)
      PROVE  IndexInv'
  <2>1. ASSUME NEW r \in Requests
        PROVE  Indexed(r)'
    BY <1>3, <2>1, OthersKeep, OwnIndexed DEF IndexInv, PageInv
  <2> QED BY <1>1, <2>1 DEF IndexInv
<1>4. CASE UNCHANGED vars
  BY <1>1, <1>4 DEF vars, stores, request, IndexInv, Indexed, Active, In
<1> QED BY <1>2, <1>3, <1>4 DEF Next

\* In every reachable state the strengthening holds, if no names are equal.
THEOREM IndexInvariant == DistinctNames => (Spec => []IndexInv)
<1>1. Init => IndexInv
  BY InitPages DEF Init, IndexInv, Indexed, Indexing
<1>2. DistinctNames /\ IndexInv /\ [Next]_vars => IndexInv'
  BY NextIndexed
<1>3. ASSUME DistinctNames
      PROVE  Spec => []IndexInv
  BY <1>1, <1>2, <1>3, PTL DEF Spec
<1> QED BY <1>3

SearchableStep ==
  \A r \in calm :
    /\ Completes(reindex[r], reindex'[r])
    /\ sync[r].status = "completed" /\ sync[r].errors = 0
    => SearchableAfter(r)

\* When the indexer reports COMPLETED after such a synchronisation, every active
\* product of the shop can be found as the shop has it, and what can not be
\* bought any more can not be found once the indexer deleted anything.
THEOREM SynchronisationIsSearchable == DistinctNames => (Spec => CompletedIsSearchable)
<1>1. ASSUME DistinctNames, IndexInv, [Next]_vars
      PROVE  [SearchableStep]_vars
  <2> SUFFICES ASSUME NEW r \in calm, Completes(reindex[r], reindex'[r]),
                      sync[r].status = "completed", sync[r].errors = 0
               PROVE  SearchableAfter(r)
    BY DEF SearchableStep
  <2>1. r \in Requests
    BY <1>1 DEF IndexInv, PageInv, CatalogInv, TypeOK
  <2>2. reindex'[r] # reindex[r]
    BY DEF Completes
  <2>3. PICK q \in Requests : Begin(q) \/ Handle(q) \/ Crash(q)
    <3>1. ~EditShop /\ ~UNCHANGED vars
      BY <2>2 DEF EditShop, request, vars
    <3> QED BY <1>1, <3>1 DEF Next
  <2>4. q = r
    BY <1>1, <2>1, <2>2, <2>3, OthersMemory DEF IndexInv, PageInv
  <2> QED BY <1>1, <2>1, <2>3, <2>4, OwnIndexed DEF IndexInv
<1>2. ASSUME DistinctNames
      PROVE  Spec => [][SearchableStep]_vars
  BY <1>1, <1>2, IndexInvariant, PTL DEF Spec
<1> QED BY <1>2 DEF CompletedIsSearchable, SearchableStep, SearchableAfter
================================================================================
