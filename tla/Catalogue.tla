------------------------------- MODULE Catalogue -------------------------------
(***************************************************************************)
(* What the shop sells a product for and where it buys it: the row of a     *)
(* nominal, its SKU and cost at each provider (provider_products), the      *)
(* provider's price list, and the cached page.  Price synchronisations,     *)
(* admins and readers run side by side and write what they read before:     *)
(* internal/service/game_service.go, price_sync_service.go, the two         *)
(* repositories, provider_product_handler.go and pkg/cache.  One nominal is *)
(* followed, with Digiflazz and one rival; a price or an SKU is named by    *)
(* the provider it comes from.                                             *)
(***************************************************************************)
EXTENDS Naturals, Sequences, FiniteSets

CONSTANTS
    Dealers,     \* goroutines that work on the nominal
    Shifts,      \* kinds of work that meet in one behaviour, with the rival's kind
    MaxPrice,    \* bound: prices are 1 .. MaxPrice
    MaxMoves,    \* bound: changes of the price lists
    MaxEdits,    \* bound: calls by admins
    MaxFaults    \* bound: failed statements and restarts

ASSUME CatalogueAssumption ==
    /\ \A s \in Shifts : s.rival \in {"kiosgamer", "catalogue"}
    /\ MaxPrice \in Nat \ {0}
    /\ MaxMoves \in Nat /\ MaxEdits \in Nat /\ MaxFaults \in Nat

VARIABLES
    nominal,     \* the row in nominals
    products,    \* its rows in provider_products
    market,      \* external: price and availability in each price list
    page,        \* the cached page of the game
    task,        \* what each goroutine does
    mixed,       \* Digiflazz' SKU was saved while a rival is active
    shift,       \* the kinds of work that meet, and what the rival is
    moves, edits, faults

catalogueVars == <<nominal, products, market, page, task, mixed, shift, moves, edits, faults>>
limits == <<shift, moves>>

Sides == {"digi", "rival"}
Prices == [of : Sides, at : 1 .. MaxPrice]
Offers == [price : 1 .. MaxPrice, up : BOOLEAN]
Nominals == [state : {"new", "live", "gone"}, prov : Sides, sku : Sides, kios : BOOLEAN,
             base : Prices, active : BOOLEAN]
\* A cost of 0 stands for NULL.  GORM replaces a false is_active by the default
\* of the column, so no upsert makes a row inactive.
ProductRows == [state : {"none", "live", "deleted"}, sku : Sides, cost : 0 .. MaxPrice, auto : BOOLEAN]
Pages == [base : Prices, active : BOOLEAN]
NoPage == [base |-> [of |-> "digi", at |-> 1], active |-> FALSE]

AdminWork == {"map", "save", "kios", "unmap", "switch", "edit", "create", "delete", "import"}
Work == AdminWork \cup {"auto", "price", "page"}
WorkSteps == {"read", "upsert", "toggle", "update", "cost", "reread", "reprice", "switch", "drop",
              "fill", "insert", "unlink", "remove", "saveAll"}

Row(s) == [state |-> "live", sku |-> s, cost |-> 1, auto |-> TRUE]
NoRow(s) == [state |-> "none", sku |-> s, cost |-> 0, auto |-> TRUE]
FirstNominal == [state |-> "live", prov |-> "digi", sku |-> "digi", kios |-> FALSE,
                 base |-> [of |-> "digi", at |-> 1], active |-> TRUE]
IdleTask == [kind |-> "page", plan |-> <<>>, side |-> "digi", nom |-> FirstNominal,
             rows |-> [s \in Sides |-> NoRow(s)], item |-> [price |-> 1, up |-> TRUE]]

CatalogueInit ==
    /\ shift \in Shifts
    /\ \/ /\ "create" \notin shift.works
          /\ nominal = FirstNominal
          /\ products = [s \in Sides |-> Row(s)]
       \/ /\ "create" \in shift.works
          /\ nominal = [FirstNominal EXCEPT !.state = "new"]
          /\ products = [s \in Sides |-> NoRow(s)]
    /\ market = [s \in Sides |-> [price |-> 1, up |-> TRUE]]
    /\ page = NoPage
    /\ task = [d \in Dealers |-> IdleTask]
    /\ mixed = FALSE
    /\ moves = 0 /\ edits = 0 /\ faults = 0

Live(n) == n.state = "live"
At(d, step) == task[d].plan # <<>> /\ Head(task[d].plan) = step
Plans(d, plan) == task' = [task EXCEPT ![d].plan = plan]
Onward(d) == Plans(d, Tail(task[d].plan))
Leaves(d) == task' = [task EXCEPT ![d] = IdleTask]
Fault == faults < MaxFaults /\ faults' = faults + 1

\* ResolveProductCode: the mapped SKU of the active provider, or the legacy
\* column of Digiflazz or Kiosgamer, or an error.
ResolveProductCode(n, rows) ==
    IF Live(rows[n.prov]) THEN rows[n.prov].sku
    ELSE IF n.prov = "digi" THEN n.sku
    ELSE IF shift.rival = "kiosgamer" /\ n.kios THEN "rival" ELSE "none"

-------------------------------------------------------------------------------
(* The work and its steps.  A synchronisation has fetched the price list    *)
(* before it reads the database; an admin types a cost and a toggle.        *)

PlanOf(k) ==
    CASE k \in {"auto", "price", "save", "kios", "switch"} -> <<"read">>
      [] k = "map" -> <<"upsert", "toggle", "reread", "reprice", "drop">>
      [] k = "edit" -> <<"read", "reread", "update", "upsert", "drop">>
      [] k = "create" -> <<"insert", "upsert", "drop">>
      [] k = "delete" -> <<"unlink", "remove", "drop">>
      [] k = "import" -> <<"saveAll", "drop", "upsert">>
      [] k = "page" -> <<"read", "fill">>
      [] OTHER -> <<>>

SidesOf(k) ==
    CASE k \in {"auto", "import"} -> {"digi"}
      [] k = "kios" -> {"rival"}
      [] k = "price" /\ shift.rival = "kiosgamer" -> {"digi"}
      [] OTHER -> Sides

Open(d, k, s) ==
    /\ task[d] = IdleTask /\ k \in shift.works \ {"unmap"} /\ s \in SidesOf(k)
    /\ k = "kios" => shift.rival = "kiosgamer"
    /\ k = "page" => page = NoPage
    /\ k = "create" => nominal.state = "new" /\ s = "digi"
    /\ k \in {"page", "edit", "delete"} => s = "digi"
    /\ k \in AdminWork => edits < MaxEdits
    /\ edits' = IF k \in AdminWork THEN edits + 1 ELSE edits
    /\ \E item \in IF k = "map" THEN Offers ELSE {market[s]} :
          task' = [task EXCEPT ![d] = [IdleTask EXCEPT !.kind = k, !.side = s, !.item = item,
                                                       !.plan = PlanOf(k)]]
    /\ UNCHANGED <<nominal, products, market, page, mixed, limits, faults>>

\* Delete: the list is read and the row found in it is soft-deleted.
Unmap(s) ==
    /\ "unmap" \in shift.works /\ edits < MaxEdits /\ edits' = edits + 1
    /\ Live(nominal) /\ Live(products[s])
    /\ products' = [products EXCEPT ![s].state = "deleted"]
    /\ UNCHANGED <<nominal, market, page, task, mixed, limits, faults>>

\* What a call does with what it read.  The variant compares with the cost row,
\* as SyncProvider does.
AutoSyncByCost(n, rows, item) ==
    IF rows["digi"].cost = item.price THEN <<>> ELSE <<"upsert", "update", "drop">>
AutoSyncAllPrices(n, rows, item) ==
    LET digiSku == IF Live(rows["digi"]) THEN rows["digi"].sku
                   ELSE IF n.prov = "digi" THEN n.sku ELSE "none"
        changed == n.base # [of |-> "digi", at |-> item.price] \/ n.active # item.up
    IN IF digiSku # "digi" \/ (Live(rows["digi"]) /\ ~rows["digi"].auto) THEN <<>>
       ELSE IF n.prov = "digi" /\ changed THEN <<"upsert", "update", "drop">> ELSE <<"upsert">>

NewCost(row, s, item) == IF row.sku = s /\ item.up THEN item.price ELSE 0
SyncProvider(row, s, item) ==
    IF ~Live(row) \/ ~row.auto \/ NewCost(row, s, item) = row.cost THEN <<>>
    ELSE IF NewCost(row, s, item) = 0 THEN <<"cost">> ELSE <<"cost", "reread", "reprice", "drop">>

WritesColumn(s) == s = "digi" \/ shift.rival = "kiosgamer"
PlanAfterRead(k, s, n, rows, item) ==
    IF ~Live(n) THEN <<>> ELSE
    CASE k = "auto" -> AutoSyncAllPrices(n, rows, item)
      [] k = "price" -> SyncProvider(rows[s], s, item)
      [] k = "save" -> IF WritesColumn(s) THEN <<"upsert", "update">> ELSE <<"upsert">>
      [] k = "kios" -> <<"update", "upsert">>
      [] k = "switch" -> IF Live(rows[s]) /\ rows[s].cost > 0 THEN <<"switch", "drop">> ELSE <<>>
      [] k = "edit" -> <<"reread", "update", "upsert", "drop">>
      [] OTHER -> <<"fill">>

ReadNominal(d) ==
    LET plan == PlanAfterRead(task[d].kind, task[d].side, nominal, products, task[d].item)
    IN /\ At(d, "read")
       /\ task' = [task EXCEPT ![d] = IF plan = <<>> THEN IdleTask
                      ELSE [@ EXCEPT !.nom = nominal, !.rows = products, !.plan = plan]]
       /\ UNCHANGED <<nominal, products, market, page, mixed, limits, edits, faults>>

\* FindByID again: before a new base price, and by UpdateNominal, which takes
\* the form an admin loaded earlier, refuses another provider in it, fills in a
\* blank SKU and remembers the costs.
Reread(d) ==
    LET form == task[d].nom
    IN /\ At(d, "reread")
       /\ \/ ~Live(nominal) /\ Leaves(d)
          \/ /\ Live(nominal) /\ task[d].kind # "edit"
             /\ task' = [task EXCEPT ![d].nom = nominal, ![d].rows = products,
                                     ![d].plan = Tail(@)]
          \/ /\ Live(nominal) /\ task[d].kind = "edit" /\ form.prov # nominal.prov
             /\ Leaves(d)
          \/ /\ Live(nominal) /\ task[d].kind = "edit" /\ form.prov = nominal.prov
             /\ \E sku \in {form.sku, nominal.sku}, price \in 1 .. MaxPrice, on \in BOOLEAN :
                   task' = [task EXCEPT
                       ![d].nom = [form EXCEPT !.sku = sku, !.active = on,
                                               !.base = [of |-> form.prov, at |-> price]],
                       ![d].side = form.prov, ![d].rows = products, ![d].plan = Tail(@)]
       /\ UNCHANGED <<nominal, products, market, page, mixed, limits, edits, faults>>

-------------------------------------------------------------------------------
(* Statements.                                                             *)

\* ON CONFLICT: the SKU, the cost if one is given; neither the toggle nor the
\* mark of a soft deletion.
Upsert(s, sku, cost) ==
    products' = [products EXCEPT ![s] =
        [state |-> IF @.state = "none" THEN "live" ELSE @.state, sku |-> sku,
         cost |-> IF cost > 0 THEN cost ELSE @.cost,
         auto |-> @.auto]]

\* The cost an edit gives: the one it read, the base price of a new row.
EditedCost(d) ==
    IF Live(task[d].rows[task[d].side]) THEN task[d].rows[task[d].side].cost ELSE task[d].nom.base.at
UpsertOf(d) ==
    LET s == task[d].side
        item == task[d].item
    IN CASE task[d].kind \in {"save", "kios"} -> Upsert(s, s, 0)
         [] task[d].kind \in {"edit", "create"} -> Upsert(s, task[d].nom.sku, EditedCost(d))
         [] task[d].kind = "import" -> IF Live(nominal) /\ nominal.sku = "digi"
                                       THEN Upsert(s, s, item.price) ELSE UNCHANGED products
         [] OTHER -> Upsert(s, s, item.price)

\* Only UpsertNominalProviderProducts and Save stop at an error.  AutoSyncMapping
\* passes over the items of a membership, like over one whose upsert failed.
UpsertProduct(d) ==
    /\ At(d, "upsert")
    /\ \/ UpsertOf(d) /\ Onward(d) /\ UNCHANGED faults
       \/ /\ Fault /\ UNCHANGED products
          /\ IF task[d].kind \in {"map", "save"} THEN Leaves(d) ELSE Onward(d)
    /\ UNCHANGED <<nominal, market, page, mixed, limits, edits>>

SetAutoSyncPrice(d) ==
    /\ At(d, "toggle")
    /\ \/ /\ Live(products[task[d].side])
          /\ products' = [products EXCEPT ![task[d].side].auto = task[d].item.up]
       \/ UNCHANGED products
    /\ Onward(d)
    /\ UNCHANGED <<nominal, market, page, mixed, limits, edits, faults>>

\* UPDATE ... WHERE provider_id AND product_code.
UpdateCostPrice(d) ==
    LET s == task[d].side
        row == task[d].rows[s]
    IN /\ At(d, "cost")
       /\ \/ /\ products' = IF Live(products[s]) /\ products[s].sku = row.sku
                            THEN [products EXCEPT ![s].cost = NewCost(row, s, task[d].item)]
                            ELSE products
             /\ Onward(d) /\ UNCHANGED faults
          \/ Fault /\ Leaves(d) /\ UNCHANGED products
       /\ UNCHANGED <<nominal, market, page, mixed, limits, edits>>

\* NominalRepository.Update writes the columns of the copy over the row.
Updated(d) ==
    LET n == task[d].nom
        item == task[d].item
    IN CASE task[d].kind = "auto" -> [n EXCEPT !.base = [of |-> "digi", at |-> item.price],
                                               !.active = item.up]
         [] task[d].kind = "save" /\ task[d].side = "digi" -> [n EXCEPT !.sku = "digi"]
         [] task[d].kind = "kios" \/ (task[d].kind = "save" /\ task[d].side # "digi") ->
                [n EXCEPT !.kios = TRUE]
         [] OTHER -> n
WriteNominal(d, n) == IF Live(nominal) THEN nominal' = n ELSE UNCHANGED nominal

\* A failed update of an edit or a synchronisation invalidates nothing.
UpdateNominal(d) ==
    /\ At(d, "update")
    /\ \/ /\ WriteNominal(d, Updated(d)) /\ Onward(d) /\ UNCHANGED faults
          /\ mixed' = (mixed \/ (task[d].kind = "save" /\ task[d].side = "digi"
                                 /\ task[d].nom.prov = "rival"))
       \/ /\ Fault /\ UNCHANGED <<nominal, mixed>>
          /\ \/ Leaves(d)
             \/ task[d].kind = "kios" /\ Onward(d)
    /\ UNCHANGED <<products, market, page, limits, edits>>

\* SyncBasePriceFromActiveProvider.
Reprice(d) ==
    LET n == task[d].nom
        row == task[d].rows[n.prov]
        price == [of |-> n.prov, at |-> row.cost]
    IN /\ At(d, "reprice")
       /\ \/ /\ Live(row) /\ row.cost > 0 /\ n.base # price
             /\ WriteNominal(d, [n EXCEPT !.base = price]) /\ Onward(d) /\ UNCHANGED faults
          \/ (Live(row) => row.cost = 0 \/ n.base = price) /\ Leaves(d) /\ UNCHANGED <<nominal, faults>>
          \/ Fault /\ Leaves(d) /\ UNCHANGED nominal
       /\ UNCHANGED <<products, market, page, mixed, limits, edits>>

\* SwitchProviderWithPrices: provider, SKU and prices in one statement; the
\* variant is the older BatchSwitchProvider of the repository.
SwitchProviderOnly(n, row, s) == [n EXCEPT !.prov = s]
SwitchProviderWithPrices(n, row, s) ==
    [n EXCEPT !.prov = s, !.sku = row.sku, !.base = [of |-> s, at |-> row.cost]]

SwitchNominal(d) ==
    /\ At(d, "switch")
    /\ \/ /\ WriteNominal(d, SwitchProviderWithPrices(nominal, task[d].rows[task[d].side], task[d].side))
          /\ Onward(d) /\ UNCHANGED faults
       \/ Fault /\ Leaves(d) /\ UNCHANGED nominal
    /\ UNCHANGED <<products, market, page, mixed, limits, edits>>

CreateNominal(d) ==
    /\ At(d, "insert")
    /\ \/ \E s \in Sides, price \in 1 .. MaxPrice :
            LET n == [FirstNominal EXCEPT !.prov = s, !.sku = s, !.base = [of |-> s, at |-> price]]
            IN /\ nominal.state = "new"
               /\ nominal' = n
               /\ task' = [task EXCEPT ![d].nom = n, ![d].side = s, ![d].plan = Tail(@)]
               /\ UNCHANGED faults
       \/ (Fault \/ (nominal.state # "new" /\ UNCHANGED faults)) /\ Leaves(d) /\ UNCHANGED nominal
    /\ UNCHANGED <<products, market, page, mixed, limits, edits>>

DeleteByNominalID(d) ==
    /\ At(d, "unlink")
    /\ products' = [s \in Sides |-> IF Live(products[s]) THEN [products[s] EXCEPT !.state = "deleted"]
                                    ELSE products[s]]
    /\ Onward(d)
    /\ UNCHANGED <<nominal, market, page, mixed, limits, edits, faults>>

DeleteNominal(d) ==
    /\ At(d, "remove")
    /\ nominal' = IF Live(nominal) THEN [nominal EXCEPT !.state = "gone"] ELSE nominal
    /\ Onward(d)
    /\ UNCHANGED <<products, market, page, mixed, limits, edits, faults>>

\* The transaction of UpsertFromDigiflazz; a nominal it creates for a SKU it
\* does not find is another one.
UpsertFromDigiflazz(d) ==
    LET item == task[d].item
    IN /\ At(d, "saveAll")
       /\ \/ /\ nominal' = IF Live(nominal) /\ nominal.sku = "digi" /\ nominal.prov = "digi"
                           THEN [nominal EXCEPT !.base = [of |-> "digi", at |-> item.price],
                                                !.active = item.up]
                           ELSE nominal
             /\ Onward(d) /\ UNCHANGED faults
          \/ Fault /\ Leaves(d) /\ UNCHANGED nominal
       /\ UNCHANGED <<products, market, page, mixed, limits, edits>>

-------------------------------------------------------------------------------
(* The cache, the price lists and the process.                             *)

invalidateGameCache(d) ==
    /\ At(d, "drop")
    /\ page' = NoPage
    /\ Onward(d)
    /\ UNCHANGED <<nominal, products, market, mixed, limits, edits, faults>>

FillPage(d) ==
    /\ At(d, "fill")
    /\ page' = [base |-> task[d].nom.base, active |-> task[d].nom.active]
    /\ Leaves(d)
    /\ UNCHANGED <<nominal, products, market, mixed, limits, edits, faults>>

\* The TTL of a page ends.
Expire ==
    /\ page # NoPage /\ page' = NoPage
    /\ UNCHANGED <<nominal, products, market, task, mixed, limits, edits, faults>>

Close(d) ==
    /\ task[d] # IdleTask /\ task[d].plan = <<>>
    /\ Leaves(d)
    /\ UNCHANGED <<nominal, products, market, page, mixed, limits, edits, faults>>

MoveMarket(s) ==
    /\ moves < MaxMoves /\ moves' = moves + 1
    /\ \E offer \in Offers : offer # market[s] /\ market' = [market EXCEPT ![s] = offer]
    /\ UNCHANGED <<nominal, products, page, task, mixed, shift, edits, faults>>

RestartShop ==
    /\ Fault
    /\ task' = [d \in Dealers |-> IdleTask] /\ page' = NoPage
    /\ UNCHANGED <<nominal, products, market, mixed, limits, edits>>

DealerStep(d) ==
    \/ ReadNominal(d) \/ Reread(d) \/ UpsertProduct(d) \/ SetAutoSyncPrice(d) \/ UpdateCostPrice(d)
    \/ UpdateNominal(d) \/ Reprice(d) \/ SwitchNominal(d) \/ CreateNominal(d) \/ DeleteByNominalID(d)
    \/ DeleteNominal(d) \/ UpsertFromDigiflazz(d) \/ invalidateGameCache(d) \/ FillPage(d) \/ Close(d)

CatalogueNext ==
    \/ \E d \in Dealers, k \in Work, s \in Sides : Open(d, k, s)
    \/ \E s \in Sides : Unmap(s) \/ MoveMarket(s)
    \/ \E d \in Dealers : DealerStep(d)
    \/ Expire \/ RestartShop

-------------------------------------------------------------------------------
CatalogueTypeOK ==
    /\ nominal \in Nominals
    /\ products \in [Sides -> ProductRows]
    /\ market \in [Sides -> Offers]
    /\ page \in Pages
    /\ task \in [Dealers -> [kind : Work, plan : Seq(WorkSteps), side : Sides, nom : Nominals,
                             rows : [Sides -> ProductRows], item : Offers]]
    /\ mixed \in BOOLEAN
    /\ shift \in Shifts
    /\ moves \in 0 .. MaxMoves /\ edits \in 0 .. MaxEdits /\ faults \in 0 .. MaxFaults

\* Whatever synchronisations and admins write over each other, a nominal is
\* bought with an SKU of the provider it is bought at, and sold at a price made
\* of that provider's cost: unless an admin mapped Digiflazz while a rival was
\* the active provider.
RouteIsOwn ==
    ~mixed /\ Live(nominal) =>
        /\ ResolveProductCode(nominal, products) \in {nominal.prov, "none"}
        /\ nominal.base.of = nominal.prov

\* A nominal that stays at Digiflazz and follows its prices ends up at the price
\* of the list, in the row and on the page: lost updates, failed statements,
\* restarts and pages filled with what was read before a change pass.
Follows == products["digi"].auto \/ ~Live(products["digi"])
PriceReachesShop ==
    <>[]("auto" \in shift.works /\ Live(nominal) /\ nominal.prov = "digi" /\ Follows /\ ~mixed =>
            /\ nominal.base = [of |-> "digi", at |-> market["digi"].price]
            /\ nominal.active = market["digi"].up
            /\ page \in {NoPage, [base |-> nominal.base, active |-> nominal.active]})
===============================================================================
