--------------------------------- MODULE Catalog ---------------------------------
(***************************************************************************)
(* The catalogue of a tenant: POST /sync/catalog (api/v1/endpoints/        *)
(* sync.py) reads the products of a PrestaShop shop page by page into the  *)
(* table product (services/catalog), then indexes that table page by page  *)
(* in the vector store (services/rag/product_indexer.py).                  *)
(*                                                                         *)
(* Every request is a process; one call of the shop, of the database or of *)
(* the vector store is one step.  In between the shop changes, and other   *)
(* requests for the same tenant do their steps.                            *)
(*                                                                         *)
(* Some definitions follow a faulty variant of theirs, which no action     *)
(* uses: the properties below tell the two apart.                          *)
(***************************************************************************)
EXTENDS Integers, FiniteSets

CONSTANTS
  Products,       \* the ids of the shop, which are the external_ids
  FirstProducts,  \* those of the shop at first, all active
  Edited,         \* those that ever change there
  NameOf,         \* rank of a product's name in ORDER BY name
  Requests,       \* the requests that ever arrive
  Asks,           \* what each of them may ask for
  BatchSize,      \* batch_size of the synchronisation and of the indexer (100)
  MaxErrors,      \* MAX_ERRORS_BEFORE_ABORT
  RefuseAbove,    \* deletions are looked at above so many products (10)
  RefusePercent,  \* and refused above this share of them (90)
  Failing,        \* what can go wrong
  MaxTroubles,    \* bound on how often, for model checking
  MaxEdits,       \* bound on the changes of the shop, for model checking
  None

Troubles == {"connect", "fetch", "parse", "stock", "transform", "persist",
             "timeout", "read", "prepare", "store", "crash"}

\* active_only, reindex: fields of the request; delete and prune: delete_missing
\* of the synchronisation and of the indexer, which only their callers in
\* Python can set.
Option == [active_only: BOOLEAN, reindex: BOOLEAN, delete: BOOLEAN, prune: BOOLEAN]

ASSUME CatalogAssumption ==
  /\ Products \subseteq Nat /\ IsFiniteSet(Products) /\ FirstProducts \subseteq Products
  /\ Edited \subseteq Products
  /\ NameOf \in [Products -> Nat]
  /\ Asks \in [Requests -> SUBSET Option]
  /\ BatchSize \in Nat \ {0} /\ MaxErrors \in Nat \ {0}
  /\ RefuseAbove \in Nat /\ RefusePercent \in 0 .. 100
  /\ Failing \subseteq Troubles
  /\ MaxTroubles \in Nat /\ MaxEdits \in Nat

VARIABLES
  shop,      \* the products of the shop
  table,     \* table product
  docs,      \* the collection of the tenant in the vector store
  pc,        \* where each request is
  sync,      \* its SyncResult and what sync_products has in memory
  reindex,   \* its IndexResult and what index_all_products has in memory
  edits,     \* how often the shop changed
  troubles,  \* how often something went wrong
  calm       \* history: the requests since whose start the shop, and what
             \* they read and write, was changed by nobody else

stores == <<shop, table, docs>>
request == <<pc, sync, reindex>>
vars == <<stores, request, edits, troubles, calm>>

--------------------------------------------------------------------------------
\* A product: its version stands for the columns that an UPSERT updates, except
\* its quantity, which is the real one or the one that /products lists.
Row == [ver: Nat, active: BOOLEAN, real: BOOLEAN]
Rows == [Products -> Row \union {None}]

\* As the shop has it.
Product(ver, active) == [ver |-> ver, active |-> active, real |-> TRUE]

\* A page, the table and the rest: a row for the products that are in it.
In(rows) == {p \in Products : rows[p] # None}
NoPage == [p \in Products |-> None]

Sync ==
  [option: Option, offset: Nat, page: Rows, seen: SUBSET Products, kept: Nat,
   wrote: SUBSET Products, failed: BOOLEAN, errors: Nat, poisoned: BOOLEAN, current: Nat,
   status: {"in_progress", "completed", "partial", "failed"}]

Reindex ==
  [offset: Nat, page: Rows, indexed: SUBSET Products, deleted: Nat, failed: BOOLEAN,
   errors: Nat, status: {"in_progress", "completed", "partial", "failed"}]

ASSUME NoneAssumption == None \notin Sync

\* A faulty variant: the status keeps its default.
PendingSync(o) ==
  [option |-> o, offset |-> 0, page |-> NoPage, seen |-> {}, kept |-> 0, wrote |-> {},
   failed |-> FALSE, errors |-> 0, poisoned |-> FALSE, current |-> 0,
   status |-> "pending"]

FreshSync(o) ==
  [option |-> o, offset |-> 0, page |-> NoPage, seen |-> {}, kept |-> 0, wrote |-> {},
   failed |-> FALSE, errors |-> 0, poisoned |-> FALSE, current |-> 0,
   status |-> "in_progress"]

FreshReindex ==
  [offset |-> 0, page |-> NoPage, indexed |-> {}, deleted |-> 0, failed |-> FALSE,
   errors |-> 0, status |-> "in_progress"]

Idle == {"idle", "done", "dead"}
InFlight == {r \in Requests : pc[r] \notin Idle}

Goto(r, label) == pc' = [pc EXCEPT ![r] = label]
Keep(r, m, label) == sync' = [sync EXCEPT ![r] = m] /\ Goto(r, label)
KeepIndex(r, m, label) == reindex' = [reindex EXCEPT ![r] = m] /\ Goto(r, label)

\* Something of this kind goes wrong, unless it does not.
Trouble(kind, happens) ==
  /\ happens => kind \in Failing /\ troubles < MaxTroubles
  /\ troubles' = IF happens THEN troubles + 1 ELSE troubles

Init ==
  /\ shop = [p \in Products |-> IF p \in FirstProducts THEN Product(0, TRUE) ELSE None]
  /\ table = NoPage
  /\ docs = NoPage
  /\ pc = [r \in Requests |-> "idle"]
  /\ sync = [r \in Requests |-> None]
  /\ reindex = [r \in Requests |-> None]
  /\ edits = 0 /\ troubles = 0
  /\ calm = {}

\* The slice of limit elements of S from offset, in the order of their ranks.
Slice(S, rank, offset, limit) ==
  {p \in S : Cardinality({q \in S : rank[q] < rank[p]}) \in offset .. (offset + limit - 1)}

Restricted(rows, S) == [p \in Products |-> IF p \in S THEN rows[p] ELSE None]
Without(rows, S) == Restricted(rows, Products \ S)
Overwritten(rows, page) ==
  [p \in Products |-> IF page[p] # None THEN page[p] ELSE rows[p]]

--------------------------------------------------------------------------------
(* The shop: a product is added, changed, activated, deactivated, removed. *)

EditShop ==
  /\ edits < MaxEdits
  /\ edits' = edits + 1
  /\ \E p \in Edited, b \in BOOLEAN, gone \in BOOLEAN :
       shop' = [shop EXCEPT ![p] = IF gone THEN None ELSE Product(edits + 1, b)]
  /\ calm' = {}
  /\ UNCHANGED <<table, docs, request, troubles>>

--------------------------------------------------------------------------------
(* sync_products.                                                          *)

\* check_connection; a shop that does not answer ends the request.
Begin(r) ==
  /\ pc[r] = "idle"
  /\ \E o \in Asks[r], down \in BOOLEAN :
       /\ Trouble("connect", down)
       /\ Keep(r, IF down THEN [FreshSync(o) EXCEPT !.status = "failed", !.errors = 1]
                          ELSE FreshSync(o),
               IF down THEN "done" ELSE "fetch")
  /\ calm' = calm \union {r}
  /\ UNCHANGED <<stores, reindex, edits>>

Listed(o) == {p \in In(shop) : o.active_only => shop[p].active}

\* sort=id_ASC
ById == [p \in Products |-> p]

\* get_products: what cannot be parsed is left out, and the quantities stay what
\* /products lists if /stock_availables does not answer.
Fetch(r) ==
  /\ pc[r] = "fetch"
  /\ LET m == sync[r]
         raw == Slice(Listed(m.option), ById, m.offset, BatchSize)
     IN \E kind \in {"none", "parse", "stock"}, bad \in SUBSET raw :
          /\ kind = "parse" <=> bad # {}
          /\ kind = "stock" => raw # {}
          /\ Trouble(kind, kind # "none")
          /\ calm' = IF kind = "none" THEN calm ELSE calm \ {r}
          /\ LET page == [p \in Products |->
                           IF p \in raw \ bad THEN [shop[p] EXCEPT !.real = kind # "stock"]
                           ELSE None]
             IN Keep(r, [m EXCEPT !.page = page], IF page = NoPage THEN "count" ELSE "persist")
  /\ UNCHANGED <<stores, reindex, edits>>

\* A faulty variant: the total is what was counted, without the one that says
\* that a full page may be followed by another one.
KnownTotal(page) == FALSE
\* has_more of a response: its total is estimated.
HasMore(page) == Cardinality(In(page)) = BatchSize

\* next_offset
NextOffset(m) == m.offset + Cardinality(In(m.page))

\* After a page: too many errors and the timeout end the loop.
AfterPage(r, m, late) ==
  IF m.errors >= MaxErrors THEN Keep(r, [m EXCEPT !.status = "partial"], "count")
  ELSE IF late THEN Keep(r, [m EXCEPT !.status = "partial", !.errors = @ + 1], "count")
  ELSE IF HasMore(m.page) THEN Keep(r, [m EXCEPT !.offset = NextOffset(m)], "fetch")
  ELSE Keep(r, m, "count")

\* _process_batch: all ids of the page count as synchronised.  A statement that
\* fails leaves the session in a failed transaction, in which every later one
\* fails: nothing rolls it back before the end.
Persist(r) ==
  /\ pc[r] = "persist"
  /\ \E kind \in {"none", "transform", "persist", "timeout"}, bad \in SUBSET In(sync[r].page) :
       /\ kind = "transform" <=> bad # {}
       /\ kind = "persist" => ~sync[r].poisoned
       /\ Trouble(kind, kind # "none")
       /\ LET m == sync[r]
              good == In(m.page) \ bad
              fails == good # {} /\ (m.poisoned \/ kind = "persist")
              stored == IF fails THEN {} ELSE good
              n == [m EXCEPT !.seen = @ \union In(m.page),
                             !.kept = @ + Cardinality(In(m.page)),
                             !.wrote = @ \union stored,
                             !.failed = @ \/ bad # {} \/ fails,
                             !.errors = @ + Cardinality(bad) + (IF fails THEN 1 ELSE 0),
                             !.poisoned = @ \/ fails]
          IN /\ table' = Overwritten(table, Restricted(m.page, stored))
             /\ calm' = IF stored = {} THEN calm ELSE calm \cap {r}
             /\ AfterPage(r, n, kind = "timeout")
  /\ UNCHANGED <<shop, docs, reindex, edits>>

\* A faulty variant: what was not persisted is forgotten.
FailuresForgotten(m) == IF m.status = "in_progress" THEN "completed" ELSE m.status
\* The status of a result whose run came to its end.
FinalStatus(m) ==
  IF m.status # "in_progress" THEN m.status ELSE IF m.failed THEN "partial" ELSE "completed"

\* The loop's variables are gone.
Finished(m) == [m EXCEPT !.status = FinalStatus(m), !.page = NoPage, !.offset = 0]

\* sync_catalog commits, and re-indexes if any product was created or updated.
Report(r, m) ==
  /\ sync' = [sync EXCEPT ![r] = Finished(m)]
  /\ IF m.option.reindex /\ m.wrote # {}
       THEN KeepIndex(r, FreshReindex, "read")
       ELSE KeepIndex(r, None, "done")

\* A PrestaShopError ends the loop; whatever else is raised, the synchronisation.
FetchFails(r) ==
  /\ pc[r] = "fetch"
  /\ Trouble("fetch", TRUE)
  /\ LET m == [sync[r] EXCEPT !.errors = @ + 1, !.page = NoPage]
     IN \/ Keep(r, m, "count") /\ UNCHANGED reindex
        \/ Report(r, [m EXCEPT !.status = "failed"])
  /\ UNCHANGED <<stores, edits, calm>>

\* count_products and get_products look at active products only, unless they
\* are told otherwise.
Active == {p \in In(table) : table[p].active}

\* delete_products_not_in_list counts the products first.
CountProducts(r) ==
  /\ pc[r] = "count"
  /\ LET m == sync[r]
     IN \/ /\ ~(m.option.delete /\ m.seen # {})
           /\ Trouble("persist", FALSE)
           /\ Report(r, m)
        \/ /\ m.option.delete /\ m.seen # {}
           /\ \E fails \in BOOLEAN :
                /\ m.poisoned => fails
                /\ Trouble("persist", fails /\ ~m.poisoned)
                /\ IF fails
                     THEN Report(r, [m EXCEPT !.status = "failed", !.errors = @ + 1])
                     ELSE /\ Keep(r, [m EXCEPT !.current = Cardinality(Active)], "delete")
                          /\ UNCHANGED reindex
  /\ UNCHANGED <<stores, edits, calm>>

\* More than RefusePercent of more than RefuseAbove would go.
Refused(m) ==
  /\ m.current > RefuseAbove
  /\ 100 * (m.current - m.kept) > RefusePercent * m.current

DeleteProducts(r) ==
  /\ pc[r] = "delete"
  /\ LET m == sync[r]
         missing == In(table) \ m.seen
     IN \/ /\ Refused(m)
           /\ Trouble("persist", FALSE)
           /\ Report(r, m)
           /\ UNCHANGED <<table, calm>>
        \/ /\ ~Refused(m)
           /\ Trouble("persist", FALSE)
           /\ table' = Without(table, missing)
           /\ calm' = IF missing = {} THEN calm ELSE calm \cap {r}
           /\ Report(r, m)
        \/ /\ ~Refused(m)
           /\ Trouble("persist", TRUE)
           /\ Report(r, [m EXCEPT !.status = "failed", !.errors = @ + 1])
           /\ UNCHANGED <<table, calm>>
  /\ UNCHANGED <<shop, docs, edits>>

--------------------------------------------------------------------------------
(* index_all_products.  _get_existing_hashes finds no hash, so that no      *)
(* product is skipped as unchanged.                                        *)

\* ORDER BY name: products of one name come in any order, each time.
NameOrders ==
  {rank \in [Products -> 1 .. Cardinality(Products)] :
     /\ \A p, q \in Products : rank[p] = rank[q] => p = q
     /\ \A p, q \in Products : NameOf[p] < NameOf[q] => rank[p] < rank[q]}

\* get_products; an error ends the run.
ReadPage(r) ==
  /\ pc[r] = "read"
  /\ \E fails \in BOOLEAN, rank \in NameOrders :
       /\ Trouble("read", fails)
       /\ LET m == reindex[r]
              page == Restricted(table, Slice(Active, rank, m.offset, BatchSize))
          IN IF fails
               THEN KeepIndex(r, Finished([m EXCEPT !.status = "failed", !.errors = @ + 1]), "done")
               ELSE KeepIndex(r, [m EXCEPT !.page = page],
                              IF page = NoPage THEN "prune" ELSE "embed")
  /\ UNCHANGED <<stores, sync, edits, calm>>

\* A faulty variant: a full page is taken for the last one.
NoPageAfter(page) == Cardinality(In(page)) <= BatchSize
LastPage(page) == Cardinality(In(page)) < BatchSize

\* A faulty variant: the page is read again.
SamePage(offset) == offset
NextPage(offset) == offset + BatchSize

\* _index_batch_with_skip and what the loop does after it.  An embedding that
\* fails and a vector store that fails have the same effect.
IndexPage(r) ==
  /\ pc[r] = "embed"
  /\ \E kind \in {"none", "prepare", "store"}, bad \in SUBSET In(reindex[r].page) :
       /\ kind = "prepare" <=> bad # {}
       /\ Trouble(kind, kind # "none")
       /\ LET m == reindex[r]
              stored == IF kind = "store" THEN {} ELSE In(m.page) \ bad
              n == [m EXCEPT !.indexed = @ \union stored,
                             !.failed = @ \/ kind # "none",
                             !.errors = @ + Cardinality(bad) + (IF kind = "store" THEN 1 ELSE 0)]
          IN /\ docs' = Overwritten(docs, Restricted(m.page, stored))
             /\ calm' = IF stored = {} THEN calm ELSE calm \cap {r}
             /\ IF n.errors >= MaxErrors
                  THEN KeepIndex(r, [n EXCEPT !.status = "partial"], "prune")
                ELSE KeepIndex(r, [n EXCEPT !.offset = NextPage(@)],
                               IF LastPage(m.page) THEN "prune" ELSE "read")
  /\ UNCHANGED <<shop, table, sync, edits>>

\* _delete_missing, whose errors are caught and leave no trace in the result.
Prune(r) ==
  /\ pc[r] = "prune"
  /\ \E fails \in BOOLEAN :
       /\ fails => sync[r].option.prune /\ reindex[r].indexed # {}
       /\ Trouble("store", fails)
       /\ LET m == reindex[r]
              stale == IF sync[r].option.prune /\ m.indexed # {} /\ ~fails
                         THEN In(docs) \ m.indexed ELSE {}
          IN /\ docs' = Without(docs, stale)
             /\ calm' = IF stale = {} THEN calm ELSE calm \cap {r}
             /\ KeepIndex(r, [Finished(m) EXCEPT !.deleted = Cardinality(stale)], "done")
  /\ UNCHANGED <<shop, table, sync, edits>>

--------------------------------------------------------------------------------
\* The worker dies.  Every page that was persisted was committed.
Crash(r) ==
  /\ r \in InFlight
  /\ Trouble("crash", TRUE)
  /\ Goto(r, "dead")
  /\ sync' = [sync EXCEPT ![r] = None] /\ reindex' = [reindex EXCEPT ![r] = None]
  /\ calm' = calm \ {r}
  /\ UNCHANGED <<stores, edits>>

Handle(r) ==
  \/ Fetch(r) \/ FetchFails(r) \/ Persist(r) \/ CountProducts(r) \/ DeleteProducts(r)
  \/ ReadPage(r) \/ IndexPage(r) \/ Prune(r)

Next ==
  \/ EditShop
  \/ \E r \in Requests : Begin(r) \/ Handle(r) \/ Crash(r)

Spec == Init /\ [][Next]_vars

\* A call of the shop (which has a timeout), of the database or of the vector
\* store returns or raises.
FairSpec == Spec /\ \A r \in Requests : WF_vars(Handle(r))

--------------------------------------------------------------------------------
(* Properties.                                                             *)

\* Every variable keeps its type: rows, pages and results.
TypeOK ==
  /\ shop \in Rows /\ table \in Rows /\ docs \in Rows
  /\ pc \in [Requests -> Idle \union {"fetch", "persist", "count", "delete", "read", "embed",
                                      "prune"}]
  /\ sync \in [Requests -> Sync \union {None}]
  /\ reindex \in [Requests -> Reindex \union {None}]
  /\ edits \in Nat /\ troubles \in Nat
  /\ calm \subseteq Requests

\* A synchronisation reports COMPLETED only if every product it read was
\* stored, in whichever page and for whichever reason one was not.
CompletedStoredAll ==
  \A r \in Requests :
    sync[r] # None /\ sync[r].status = "completed" => sync[r].seen \subseteq sync[r].wrote

Completes(old, new) ==
  /\ old # None /\ new # None
  /\ old.status = "in_progress" /\ new.status = "completed"

\* The products of the shop are in the table as the shop has them and, if r was
\* asked to delete and the deletion was not refused, nothing else is.
Mirrors(r) ==
  LET m == sync[r] listed == Listed(m.option)
  IN /\ \A p \in listed : table[p] = shop[p]
     /\ m.option.delete /\ m.seen # {} /\ ~Refused(m) =>
          \A p \in Products \ listed : table[p] = None

\* Whatever earlier requests left behind, a synchronisation that reports
\* COMPLETED and no error makes the table a mirror of the shop, if in the
\* meantime the shop did not change and could be read in full (what cannot be
\* parsed and a stock that cannot be read count as no error), and no other
\* request wrote: no page is missed, none is stored short.
CompletedMirrors ==
  [][\A r \in calm :
       Completes(sync[r], sync'[r]) /\ sync'[r].errors = 0 => Mirrors(r)']_vars

\* What search_products can return: its filter is on active.
Searchable == {p \in In(docs) : docs[p].active}

\* Under the same conditions, when the indexer reports COMPLETED as well, every
\* active product of the shop can be found as the shop has it; and if the
\* indexer deleted anything, it deleted all that cannot be bought any more.
CompletedIsSearchable ==
  [][\A r \in calm :
       /\ Completes(reindex[r], reindex'[r])
       /\ sync[r].status = "completed" /\ sync[r].errors = 0
       => LET listed == {p \in Listed(sync[r].option) : shop[p].active}
          IN /\ \A p \in listed : p \in Searchable' /\ docs'[p] = shop[p]
             /\ sync[r].option.delete /\ ~Refused(sync[r])
                   /\ reindex'[r].deleted > 0 =>
                  Searchable' \subseteq listed]_vars

\* The loops over the pages end: a request whose worker lives is answered.
RequestEnds == \A r \in Requests : r \in InFlight ~> r \notin InFlight
================================================================================
