------------------------ MODULE SqlRepositoriesProofs ------------------------
(* What holds of the SQLAlchemy repositories for any sessions, scripts and rows. *)
EXTENDS SqlRepositories, TLAPS

Types ==
    /\ table \in [Rows -> Writers]
    /\ script \in [Sessions -> Seq(Calls)]
    /\ phase \in [Sessions -> {"new", "run", "loading", "deleting", "ok", "raised"}]
    /\ seen \in [Sessions -> [Found -> SUBSET Skus]]
    /\ pending \in [Sessions -> SUBSET Rows]
    /\ fresh \in [Sessions -> SUBSET Rows]
    /\ gone \in [Sessions -> SUBSET Items]
    /\ todo \in [Sessions -> SUBSET Items]
    /\ base \in [Sessions -> [Rows -> Writers]]

\* A session in the middle of a call has it at the head of its script.
Midway == \A s \in Sessions :
    /\ phase[s] = "loading" => script[s] # <<>> /\ Head(script[s]).op = "orders"
    /\ phase[s] = "deleting" => script[s] # <<>> /\ Head(script[s]).op = "upsert"

Held(s) == fresh[s] \cup gone[s]

\* No two sessions hold a row.
Locks == \A s, t \in Sessions : s # t => Held(s) \cap Held(t) = {}

\* What a session inserted is not in the table, unless it deleted it before.
Inserted == \A s \in Sessions : \A r \in fresh[s] : table[r] = None \/ r \in gone[s]

\* What it deleted is still there as its DELETE found it.
Deleted == \A s \in Sessions : \A r \in gone[s] : table[r] # None /\ base[s][r] = table[r]

\* What its DELETE has yet to reach was in the table, or is the session's own.
Reaching == \A s \in Sessions : /\ todo[s] # {} => phase[s] = "deleting"
                                /\ \A r \in todo[s] \ fresh[s] : base[s][r] # None

\* What its DELETE found is yet to be reached, deleted, or rewritten by another.
Replaced == \A s \in Sessions : \A r \in Rows :
               base[s][r] # None => r \in todo[s] \cup gone[s] \/ table[r] # base[s][r]

\* Rows have their parents, those of a session among its own or in the table.
References ==
    /\ \A r \in Rows : table[r] # None => \A p \in Parents(r) : table[p] # None
    /\ \A s \in Sessions : \A r \in fresh[s] : \A p \in Parents(r) : table[p] # None \/ p \in fresh[s]

\* Only sessions that committed have written.
Authors ==
    /\ \A r \in Rows : table[r] \in Sessions => phase[table[r]] = "ok"
    /\ \A s \in Sessions : \A r \in Rows : base[s][r] \in Sessions => phase[base[s][r]] = "ok"

-----------------------------------------------------------------------------
(* Rows and calls *)

LEMMA RowFacts ==
    /\ Items \subseteq Rows
    /\ \A l \in Locations : Location(l) \in Rows
    /\ \A l \in Locations, k \in Skus : Item(l, k) \in Items
    /\ \A k \in Skus : ProductRows(k) \subseteq Rows
    /\ \A o \in Orders, ks \in SUBSET Skus : OrderRows(o, ks) \subseteq Rows
BY DEF Rows, Items, Lines, ProductRows, OrderRows

\* No level is the parent of a row.
LEMMA ParentFacts == \A r \in Rows : Parents(r) \subseteq Rows \ Items
<1> SUFFICES ASSUME NEW r \in Rows, NEW p \in Parents(r) PROVE p \in Rows \ Items
  OBVIOUS
<1>1. CASE r \in Items /\ p = Location(r[2])
  <2>1. r[2] \in Locations BY <1>1 DEF Items, Item
  <2>2. p \in Rows BY <1>1, <2>1 DEF Rows
  <2>3. p \notin Items BY <1>1 DEF Items, Item, Location
  <2>4. QED BY <2>2, <2>3
<1>2. CASE r \in Lines /\ p = OrderRow(r[2])
  <2>1. r[2] \in Orders BY <1>2 DEF Lines, Line
  <2>2. p \in Rows BY <1>2, <2>1 DEF Rows
  <2>3. p \notin Items BY <1>2 DEF Items, Item, OrderRow
  <2>4. QED BY <2>2, <2>3
<1>3. CASE r \in Items \cup Lines /\ p = Product(r[3])
  <2>1. r[3] \in Skus BY <1>3 DEF Items, Item, Lines, Line
  <2>2. p \in Rows BY <1>3, <2>1 DEF Rows
  <2>3. p \notin Items BY <1>3 DEF Items, Item, Product
  <2>4. QED BY <2>2, <2>3
<1>4. QED BY <1>1, <1>2, <1>3 DEF Parents

LEMMA CallFacts ==
    ASSUME NEW c \in Calls
    PROVE  /\ c.op = "addProduct" => c.sku \in Skus
           /\ c.op = "addOrder" => c.order \in Orders /\ c.skus \in SUBSET Skus
           /\ c.op = "orders" => c.orders \in SUBSET Orders
           /\ c.op = "get" => c.at \in Locations
           /\ c.op = "upsert" => c.at \in Locations /\ c.skus \in SUBSET Skus /\ c.seen \in BOOLEAN
BY DEF Calls

LEMMA VisibleFacts ==
    ASSUME Types, NEW s \in Sessions
    PROVE  /\ \A l \in Locations : Levels(s, l) \subseteq Items
           /\ \A r \in Visible(s) : r \in fresh[s] \/ table[r] # None
BY RowFacts DEF Types, Levels, SkusAt, Visible

-----------------------------------------------------------------------------
(* Types *)

LEMMA InitTypes == Init => Types
BY NamesAssumption, ScriptsAssumption
   DEF Init, Types, Writers, Unseen, Nothing, Found

LEMMA CloseTypes ==
    ASSUME Types, NEW s \in Sessions, NEW how \in {"ok", "raised"}, Close(s, how),
           table' \in [Rows -> Writers]
    PROVE  Types'
BY NamesAssumption DEF Types, Close, Unseen, Nothing, Writers

LEMMA CallTypes ==
    ASSUME Types, NEW s \in Sessions, script[s] # <<>>, Called(s)
    PROVE  /\ script' \in [Sessions -> Seq(Calls)]
           /\ Head(script[s]) \in Calls
BY DEF Types, Called

LEMMA StepTypes ==
    ASSUME Types, Midway, NEW s \in Sessions, Step(s) \/ Fail(s)
    PROVE  Types'
<1>1. ASSUME Begin(s) PROVE Types'
  BY <1>1, ScriptsAssumption DEF Begin, Types
<1>2. ASSUME AddProduct(s) PROVE Types'
  <2>1. Head(script[s]).sku \in Skus BY <1>2, CallTypes, CallFacts DEF AddProduct
  <2>2. pending' \in [Sessions -> SUBSET Rows] BY <1>2, <2>1, RowFacts DEF AddProduct, Types
  <2>3. QED BY <1>2, <2>2, CallTypes DEF AddProduct, Types
<1>3. ASSUME AddOrder(s) PROVE Types'
  <2>1. Head(script[s]).order \in Orders /\ Head(script[s]).skus \in SUBSET Skus
    BY <1>3, CallTypes, CallFacts DEF AddOrder
  <2>2. pending' \in [Sessions -> SUBSET Rows] BY <1>3, <2>1, RowFacts DEF AddOrder, Types
  <2>3. QED BY <1>3, <2>2, CallTypes DEF AddOrder, Types
<1>4. ASSUME ReadProducts(s) PROVE Types'
  BY <1>4, CallTypes DEF ReadProducts, Ready, Types
<1>5. ASSUME Get(s) PROVE Types'
  <2>1. Head(script[s]).at \in Found BY <1>5, CallTypes, CallFacts DEF Get, Ready, Found
  <2>2. seen' \in [Sessions -> [Found -> SUBSET Skus]] BY <1>5, <2>1 DEF Get, Types, SkusAt
  <2>3. QED BY <1>5, <2>2, CallTypes DEF Get, Ready, Types
<1>6. ASSUME SelectOrders(s) PROVE Types'
  <2> DEFINE found == {o \in Head(script[s]).orders : OrderRow(o) \in Visible(s)}
             call == [op |-> "orders", orders |-> found]
  <2>1. script[s] \in Seq(Calls) /\ script[s] # <<>> BY <1>6 DEF SelectOrders, Ready, Types
  <2>2. Head(script[s]) \in Calls /\ Tail(script[s]) \in Seq(Calls) BY <2>1
  <2>3. Head(script[s]).orders \in SUBSET Orders BY <1>6, <2>2, CallFacts DEF SelectOrders, Ready
  <2>4. call \in Calls BY <2>3 DEF Calls
  <2> HIDE DEF call
  <2>5. <<call>> \o Tail(script[s]) \in Seq(Calls) BY <2>2, <2>4
  <2>6. \/ Called(s) /\ UNCHANGED phase
        \/ /\ script' = [script EXCEPT ![s] = <<call>> \o Tail(@)]
           /\ phase' = [phase EXCEPT ![s] = "loading"]
    BY <1>6 DEF SelectOrders, call
  <2>7. script' \in [Sessions -> Seq(Calls)] BY <2>1, <2>5, <2>6, CallTypes DEF Types
  <2>8. QED BY <1>6, <2>6, <2>7 DEF SelectOrders, Types
<1>7. ASSUME LoadLines(s) PROVE Types'
  <2>1. script' \in [Sessions -> Seq(Calls)] BY <1>7, CallTypes DEF LoadLines, Midway
  <2>2. QED BY <1>7, <2>1 DEF LoadLines, Types
<1>8. ASSUME ListStocks(s) PROVE Types'
  <2>1. CASE Called(s) /\ UNCHANGED <<phase, seen, pending, fresh, gone, todo, base>>
    BY <1>8, <2>1, CallTypes DEF ListStocks, Ready, Types
  <2>2. CASE Close(s, "raised")
    BY <1>8, <2>2, CloseTypes DEF ListStocks, Types
  <2>3. QED BY <1>8, <2>1, <2>2 DEF ListStocks
<1>9. ASSUME AddLocation(s) PROVE Types'
  <2>1. Head(script[s]) \in Calls BY <1>9 DEF AddLocation, Ready, Types
  <2>2. Location(Head(script[s]).at) \in Rows BY <1>9, <2>1, CallFacts, RowFacts DEF AddLocation, Ready
  <2>3. QED BY <1>9, <2>2 DEF AddLocation, Types
<1>10. ASSUME StartDelete(s) PROVE Types'
  <2>1. Head(script[s]) \in Calls BY <1>10 DEF StartDelete, Ready, Types
  <2>2. Levels(s, Head(script[s]).at) \subseteq Items
    BY <1>10, <2>1, CallFacts, VisibleFacts DEF StartDelete, Ready
  <2>3. QED BY <1>10, <2>2 DEF StartDelete, Types
<1>11. ASSUME DeleteRow(s) PROVE Types'
  <2>1. PICK r \in todo[s] :
          /\ todo' = [todo EXCEPT ![s] = @ \ {r}]
          /\ \/ fresh' = [fresh EXCEPT ![s] = @ \ {r}] /\ UNCHANGED gone
             \/ UNCHANGED <<fresh, gone>>
             \/ gone' = [gone EXCEPT ![s] = @ \cup {r}] /\ UNCHANGED fresh
    BY <1>11 DEF DeleteRow
  <2>2. r \in Items BY DEF Types
  <2>3. fresh' \in [Sessions -> SUBSET Rows]
    <3>1. [fresh EXCEPT ![s] = @ \ {r}] \in [Sessions -> SUBSET Rows] BY DEF Types
    <3>2. fresh \in [Sessions -> SUBSET Rows] BY DEF Types
    <3>3. QED BY <2>1, <3>1, <3>2
  <2>4. gone' \in [Sessions -> SUBSET Items]
    <3>1. [gone EXCEPT ![s] = @ \cup {r}] \in [Sessions -> SUBSET Items] BY <2>2 DEF Types
    <3>2. gone \in [Sessions -> SUBSET Items] BY DEF Types
    <3>3. QED BY <2>1, <3>1, <3>2
  <2>5. todo' \in [Sessions -> SUBSET Items] BY <2>1 DEF Types
  <2>6. QED BY <1>11, <2>3, <2>4, <2>5 DEF DeleteRow, Types
<1>12. ASSUME AddItems(s) PROVE Types'
  <2>1. script[s] # <<>> /\ Head(script[s]).op = "upsert" BY <1>12 DEF AddItems, Midway
  <2>2. script' \in [Sessions -> Seq(Calls)] /\ Head(script[s]) \in Calls
    BY <1>12, <2>1, CallTypes DEF AddItems
  <2>3. Head(script[s]).at \in Locations /\ Head(script[s]).skus \subseteq Skus
    BY <2>1, <2>2, CallFacts
  <2>4. seen[s][Head(script[s]).at] \subseteq Skus BY <2>3 DEF Types, Found
  <2>5. Rewritten(s, Head(script[s])) \subseteq Rows BY <2>3, <2>4, RowFacts DEF Rewritten
  <2>6. QED BY <1>12, <2>2, <2>5 DEF AddItems, Types
<1>13. ASSUME InsertRow(s) PROVE Types'
  BY <1>13 DEF InsertRow, Flushable, Types
<1>14. ASSUME Commit(s) PROVE Types'
  <2>1. table' \in [Rows -> Writers] BY <1>14 DEF Commit, Types, Writers
  <2>2. QED BY <1>14, <2>1, CloseTypes DEF Commit
<1>15. ASSUME Fail(s) PROVE Types'
  BY <1>15, CloseTypes DEF Fail, Types
<1>16. QED BY <1>1, <1>2, <1>3, <1>4, <1>5, <1>6, <1>7, <1>8, <1>9, <1>10, <1>11, <1>12,
              <1>13, <1>14, <1>15 DEF Step

LEMMA StepMidway ==
    ASSUME Types, Midway, NEW s \in Sessions, Step(s) \/ Fail(s)
    PROVE  Midway'
<1>1. ASSUME SelectOrders(s) PROVE Midway'
  <2> DEFINE found == {o \in Head(script[s]).orders : OrderRow(o) \in Visible(s)}
             call == [op |-> "orders", orders |-> found]
  <2>1. \/ Called(s) /\ UNCHANGED phase
        \/ /\ script' = [script EXCEPT ![s] = <<call>> \o Tail(@)]
           /\ phase' = [phase EXCEPT ![s] = "loading"]
    BY <1>1 DEF SelectOrders
  <2>2. phase[s] = "run" /\ script[s] \in Seq(Calls) /\ script[s] # <<>>
    BY <1>1 DEF SelectOrders, Ready, Types
  <2>3. Tail(script[s]) \in Seq(Calls) BY <2>2
  <2> HIDE DEF found
  <2>4. <<call>> \o Tail(script[s]) # <<>> /\ Head(<<call>> \o Tail(script[s])) = call BY <2>3
  <2>5. CASE Called(s) /\ UNCHANGED phase BY <2>2, <2>5 DEF Called, Types, Midway
  <2>6. CASE /\ script' = [script EXCEPT ![s] = <<call>> \o Tail(@)]
             /\ phase' = [phase EXCEPT ![s] = "loading"]
    <3>1. script'[s] # <<>> /\ Head(script'[s]).op = "orders" BY <2>4, <2>6 DEF Types
    <3>2. QED BY <2>6, <3>1 DEF Types, Midway
  <2>7. QED BY <2>1, <2>5, <2>6
<1>2. ASSUME Begin(s) \/ AddProduct(s) \/ AddOrder(s) \/ ReadProducts(s) \/ Get(s) \/ LoadLines(s)
      PROVE  Midway'
  <2>1. \A t \in Sessions \ {s} : script'[t] = script[t] /\ phase'[t] = phase[t]
    BY <1>2 DEF Begin, AddProduct, AddOrder, ReadProducts, Get, LoadLines, Called, Types
  <2>2. phase'[s] = "run"
    BY <1>2 DEF Begin, AddProduct, AddOrder, ReadProducts, Get, LoadLines, Ready, Types
  <2>3. QED BY <2>1, <2>2 DEF Midway
<1>3. ASSUME AddLocation(s) \/ StartDelete(s) \/ DeleteRow(s) \/ InsertRow(s) PROVE Midway'
  BY <1>3 DEF AddLocation, StartDelete, DeleteRow, InsertRow, Ready, Types, Midway
<1>4. ASSUME AddItems(s) PROVE Midway'
  BY <1>4 DEF AddItems, Called, Types, Midway
<1>5. ASSUME ListStocks(s) \/ Commit(s) \/ Fail(s) PROVE Midway'
  <2>1. \/ Called(s) /\ phase[s] = "run" /\ UNCHANGED phase
        \/ Close(s, "ok") \/ Close(s, "raised")
    BY <1>5 DEF ListStocks, Commit, Fail, Ready
  <2>2. QED BY <2>1 DEF Called, Close, Types, Midway
<1>6. QED BY <1>1, <1>2, <1>3, <1>4, <1>5 DEF Step

-----------------------------------------------------------------------------
(* Rows *)

RowInv == Locks /\ Inserted /\ Deleted /\ Reaching /\ Replaced /\ References /\ Authors

LEMMA InitRows == Init => RowInv
<1> SUFFICES ASSUME Init PROVE RowInv
  OBVIOUS
<1>1. /\ \A s \in Sessions : fresh[s] = {} /\ gone[s] = {} /\ todo[s] = {}
      /\ \A s \in Sessions : \A r \in Rows : base[s][r] = None
      /\ \A r \in Rows : table[r] = IF r \in Seeded THEN Seed ELSE None
  BY DEF Init, Nothing
<1>2. References
  BY <1>1, SeedAssumption, ParentFacts, NamesAssumption DEF References
<1>3. QED
  BY <1>1, <1>2, NamesAssumption
     DEF RowInv, Locks, Held, Inserted, Deleted, Reaching, Replaced, Authors

\* A step that leaves rows and locks alone.
LEMMA Quiet ==
    ASSUME RowInv, UNCHANGED <<table, fresh, gone, todo, base>>,
           \A s \in Sessions : phase[s] = "ok" => phase'[s] = "ok",
           \A s \in Sessions : todo[s] # {} => phase'[s] = "deleting"
    PROVE  RowInv'
BY DEF RowInv, Locks, Held, Inserted, Deleted, Reaching, Replaced, References, Authors

LEMMA QuietStep ==
    ASSUME Types, RowInv, NEW s \in Sessions,
           \/ Begin(s) \/ AddProduct(s) \/ AddOrder(s) \/ ReadProducts(s) \/ Get(s)
           \/ SelectOrders(s) \/ LoadLines(s) \/ AddLocation(s) \/ AddItems(s)
    PROVE  RowInv'
<1> USE DEF Begin, AddProduct, AddOrder, ReadProducts, Get, SelectOrders, LoadLines,
            AddLocation, AddItems, Ready
<1>1. UNCHANGED <<table, fresh, gone, todo, base>> OBVIOUS
<1>2. phase[s] # "ok" /\ todo[s] = {} BY DEF RowInv, Reaching
<1>3. \A t \in Sessions \ {s} : phase'[t] = phase[t] BY DEF Types
<1>4. \A t \in Sessions : todo[t] # {} => phase[t] = "deleting" BY DEF RowInv, Reaching
<1>5. \A t \in Sessions : phase[t] = "ok" => phase'[t] = "ok" BY <1>2, <1>3
<1>6. \A t \in Sessions : todo[t] # {} => phase'[t] = "deleting" BY <1>2, <1>3, <1>4
<1>7. QED BY <1>1, <1>5, <1>6, Quiet

\* The DELETE begins: it finds what the table holds.
LEMMA StartDeleteRows ==
    ASSUME Types, RowInv, NEW s \in Sessions, StartDelete(s)
    PROVE  RowInv'
<1> DEFINE L == Levels(s, Head(script[s]).at)
<1>1. /\ phase[s] = "run" /\ phase' = [phase EXCEPT ![s] = "deleting"]
      /\ todo' = [todo EXCEPT ![s] = L]
      /\ base' = [base EXCEPT ![s] = [r \in Rows |-> IF r \in L THEN table[r] ELSE @[r]]]
      /\ UNCHANGED <<table, fresh, gone>>
  BY DEF StartDelete, Ready
<1>2. L \subseteq Visible(s) BY DEF Levels, SkusAt
<1>3. todo[s] = {} BY <1>1 DEF RowInv, Reaching
<1> HIDE DEF L
<1>4. /\ \A t \in Sessions \ {s} : /\ todo'[t] = todo[t] /\ base'[t] = base[t]
                                   /\ phase'[t] = phase[t]
      /\ todo'[s] = L /\ phase'[s] = "deleting"
      /\ \A r \in Rows : base'[s][r] = IF r \in L THEN table[r] ELSE base[s][r]
  BY <1>1 DEF Types
<1>5. Locks' /\ Inserted' /\ References'
  BY <1>1 DEF RowInv, Locks, Held, Inserted, References
<1>6. Deleted'
  <2>1. \A r \in gone[s] : r \in Rows BY RowFacts DEF Types
  <2>2. QED BY <1>1, <1>4, <2>1 DEF RowInv, Deleted
<1>7. Reaching'
  <2>1. \A r \in L \ fresh[s] : r \in Rows /\ table[r] # None BY <1>2 DEF Visible
  <2>2. \A r \in L \ fresh[s] : base'[s][r] # None BY <1>4, <2>1
  <2>3. ASSUME NEW t \in Sessions \ {s}
        PROVE  /\ todo'[t] # {} => phase'[t] = "deleting"
               /\ \A r \in todo'[t] \ fresh'[t] : base'[t][r] # None
    BY <1>1, <1>4 DEF RowInv, Reaching
  <2>4. /\ todo'[s] # {} => phase'[s] = "deleting"
        /\ \A r \in todo'[s] \ fresh'[s] : base'[s][r] # None
    BY <1>1, <1>4, <2>2
  <2>5. QED BY <2>3, <2>4 DEF Reaching
<1>8. Replaced'
  BY <1>1, <1>3, <1>4 DEF RowInv, Replaced
<1>9. Authors'
  <2>1. \A r \in Rows : table[r] \in Sessions => phase'[table[r]] = "ok"
    BY <1>1, <1>4 DEF RowInv, Authors
  <2>2. \A t \in Sessions : \A r \in Rows : base[t][r] \in Sessions => phase'[base[t][r]] = "ok"
    BY <1>1, <1>4 DEF RowInv, Authors
  <2>3. QED BY <1>1, <1>4, <2>1, <2>2 DEF Authors
<1>10. QED BY <1>5, <1>6, <1>7, <1>8, <1>9 DEF RowInv

LEMMA DeleteRowRows ==
    ASSUME Types, RowInv, NEW s \in Sessions, DeleteRow(s)
    PROVE  RowInv'
<1>1. PICK r \in todo[s] :
         /\ todo' = [todo EXCEPT ![s] = @ \ {r}]
         /\ \/ r \in fresh[s] /\ fresh' = [fresh EXCEPT ![s] = @ \ {r}] /\ UNCHANGED gone
            \/ r \notin fresh[s] /\ table[r] # base[s][r] /\ UNCHANGED <<fresh, gone>>
            \/ /\ r \notin fresh[s] /\ table[r] = base[s][r] /\ Holders(s, r) = {}
               /\ gone' = [gone EXCEPT ![s] = @ \cup {r}] /\ UNCHANGED fresh
  BY DEF DeleteRow
<1>2. phase[s] = "deleting" /\ UNCHANGED <<table, phase, base>> BY DEF DeleteRow
<1>3. r \in Items /\ r \in Rows BY RowFacts DEF Types
<1>4. /\ \A t \in Sessions \ {s} : todo'[t] = todo[t]
      /\ todo'[s] = todo[s] \ {r}
  BY <1>1 DEF Types
<1>5. Authors' BY <1>2 DEF RowInv, Authors
<1>6. CASE r \in fresh[s] /\ fresh' = [fresh EXCEPT ![s] = @ \ {r}] /\ UNCHANGED gone
  <2>1. /\ \A t \in Sessions \ {s} : fresh'[t] = fresh[t]
        /\ fresh'[s] = fresh[s] \ {r}
    BY <1>6 DEF Types
  <2>2. Locks' /\ Inserted' /\ Deleted'
    BY <1>2, <1>6, <2>1 DEF RowInv, Locks, Held, Inserted, Deleted
  <2>3. Reaching' BY <1>2, <1>4, <2>1 DEF RowInv, Reaching
  <2>4. table[r] = None \/ r \in gone[s] BY <1>6 DEF RowInv, Inserted
  <2>5. Replaced' BY <1>2, <1>4, <1>6, <2>4 DEF RowInv, Replaced
  <2>6. \A t \in Sessions : fresh[t] \subseteq Rows BY DEF Types
  <2>7. References'
    BY <1>2, <1>3, <2>1, <2>6, ParentFacts DEF RowInv, References
  <2>8. QED BY <1>5, <2>2, <2>3, <2>5, <2>7 DEF RowInv
<1>7. CASE r \notin fresh[s] /\ table[r] # base[s][r] /\ UNCHANGED <<fresh, gone>>
  <2>1. Locks' /\ Inserted' /\ Deleted' /\ References'
    BY <1>2, <1>7 DEF RowInv, Locks, Held, Inserted, Deleted, References
  <2>2. Reaching' BY <1>2, <1>4, <1>7 DEF RowInv, Reaching
  <2>3. Replaced' BY <1>2, <1>4, <1>7 DEF RowInv, Replaced
  <2>4. QED BY <1>5, <2>1, <2>2, <2>3 DEF RowInv
<1>8. CASE /\ r \notin fresh[s] /\ table[r] = base[s][r] /\ Holders(s, r) = {}
           /\ gone' = [gone EXCEPT ![s] = @ \cup {r}] /\ UNCHANGED fresh
  <2>1. /\ \A t \in Sessions \ {s} : gone'[t] = gone[t]
        /\ gone'[s] = gone[s] \cup {r}
    BY <1>8 DEF Types
  <2>2. \A t \in Sessions \ {s} : r \notin Held(t) BY <1>8 DEF Holders, Held
  <2>3. Locks'
    <3>1. \A t \in Sessions \ {s} : Held(t)' = Held(t) BY <1>8, <2>1 DEF Held
    <3>2. Held(s)' = Held(s) \cup {r} BY <1>8, <2>1 DEF Held
    <3>3. QED BY <2>2, <3>1, <3>2 DEF RowInv, Locks
  <2>4. base[s][r] # None BY <1>8 DEF RowInv, Reaching
  <2>5. Inserted' /\ References'
    BY <1>2, <1>8, <2>1 DEF RowInv, Inserted, References
  <2>6. Deleted' BY <1>2, <1>8, <2>1, <2>4 DEF RowInv, Deleted
  <2>7. Reaching' BY <1>2, <1>4, <1>8 DEF RowInv, Reaching
  <2>8. Replaced' BY <1>2, <1>4, <2>1 DEF RowInv, Replaced
  <2>9. QED BY <1>5, <2>3, <2>5, <2>6, <2>7, <2>8 DEF RowInv
<1>9. QED BY <1>1, <1>6, <1>7, <1>8

LEMMA InsertRowRows ==
    ASSUME Types, RowInv, NEW s \in Sessions, InsertRow(s)
    PROVE  RowInv'
<1>1. PICK r \in Flushable(s) :
         /\ Holders(s, r) = {} /\ ~Taken(s, r) /\ ~Orphan(s, r)
         /\ fresh' = [fresh EXCEPT ![s] = @ \cup {r}]
  BY DEF InsertRow
<1>2. phase[s] = "run" /\ UNCHANGED <<table, phase, gone, todo, base>> BY DEF InsertRow
<1>3. r \in Rows BY DEF Flushable, Types
<1>4. /\ \A t \in Sessions \ {s} : fresh'[t] = fresh[t]
      /\ fresh'[s] = fresh[s] \cup {r}
  BY <1>1 DEF Types
<1>5. Locks'
  <2>1. \A t \in Sessions \ {s} : r \notin Held(t) BY <1>1 DEF Holders, Held
  <2>2. \A t \in Sessions \ {s} : Held(t)' = Held(t) BY <1>2, <1>4 DEF Held
  <2>3. Held(s)' = Held(s) \cup {r} BY <1>2, <1>4 DEF Held
  <2>4. QED BY <2>1, <2>2, <2>3 DEF RowInv, Locks
<1>6. Inserted' BY <1>1, <1>2, <1>4 DEF RowInv, Inserted, Taken
<1>7. Deleted' /\ Replaced' /\ Authors' BY <1>2 DEF RowInv, Deleted, Replaced, Authors
<1>8. Reaching'
  <2>1. todo[s] = {} BY <1>2 DEF RowInv, Reaching
  <2>2. QED BY <1>2, <1>4, <2>1 DEF RowInv, Reaching
<1>9. References'
  <2>1. \A p \in Parents(r) : table[p] # None \/ p \in fresh[s] BY <1>1 DEF Orphan
  <2>2. QED BY <1>2, <1>4, <2>1 DEF RowInv, References
<1>10. QED BY <1>5, <1>6, <1>7, <1>8, <1>9 DEF RowInv

\* A session ends without writing.
LEMMA FailRows ==
    ASSUME Types, RowInv, NEW s \in Sessions, Open(s), Close(s, "raised"), UNCHANGED table
    PROVE  RowInv'
<1>1. /\ \A t \in Sessions \ {s} : /\ fresh'[t] = fresh[t] /\ gone'[t] = gone[t]
                                   /\ todo'[t] = todo[t] /\ base'[t] = base[t]
                                   /\ phase'[t] = phase[t]
      /\ fresh'[s] = {} /\ gone'[s] = {} /\ todo'[s] = {}
      /\ \A r \in Rows : base'[s][r] = None
  BY DEF Close, Types, Nothing
<1>2. phase[s] # "ok" BY DEF Open
<1>3. Locks' BY <1>1 DEF RowInv, Locks, Held
<1>4. Inserted' /\ Deleted' /\ Reaching' /\ References'
  BY <1>1 DEF RowInv, Inserted, Deleted, Reaching, References
<1>5. Replaced' BY <1>1 DEF RowInv, Replaced
<1>6. Authors'
  BY <1>1, <1>2, NamesAssumption DEF RowInv, Authors
<1>7. QED BY <1>3, <1>4, <1>5, <1>6 DEF RowInv

\* A session ends with its rows written: those it held alone.
LEMMA CommitRows ==
    ASSUME Types, RowInv, NEW s \in Sessions, Commit(s)
    PROVE  RowInv'
<1>1. /\ \A t \in Sessions \ {s} : /\ fresh'[t] = fresh[t] /\ gone'[t] = gone[t]
                                   /\ todo'[t] = todo[t] /\ base'[t] = base[t]
                                   /\ phase'[t] = phase[t]
      /\ fresh'[s] = {} /\ gone'[s] = {} /\ todo'[s] = {} /\ phase'[s] = "ok"
      /\ \A r \in Rows : base'[s][r] = None
  BY DEF Commit, Close, Types, Nothing
<1>2. phase[s] = "run" BY DEF Commit
<1>3. \A r \in Rows : table'[r] = IF r \in fresh[s] THEN s
                                  ELSE IF r \in gone[s] THEN None ELSE table[r]
  BY DEF Commit
<1>4. /\ \A t \in Sessions : fresh[t] \subseteq Rows /\ gone[t] \subseteq Items
      /\ Items \subseteq Rows
  BY RowFacts DEF Types
<1>5. \A t \in Sessions \ {s} : \A r \in Held(t) : table'[r] = table[r]
  BY <1>3, <1>4 DEF RowInv, Locks, Held
<1>6. Locks' BY <1>1 DEF RowInv, Locks, Held
<1>7. Inserted' /\ Deleted'
  BY <1>1, <1>5 DEF RowInv, Inserted, Deleted, Held
<1>8. Reaching' BY <1>1 DEF RowInv, Reaching
<1>9. \A t \in Sessions, r \in Rows : base[t][r] # s
  BY <1>2 DEF RowInv, Authors
<1>10. Replaced'
  <2>1. ASSUME NEW t \in Sessions \ {s}, NEW r \in Rows, base[t][r] # None
        PROVE  r \in todo[t] \cup gone[t] \/ table'[r] # base[t][r]
    BY <1>3, <1>9, <2>1 DEF RowInv, Replaced
  <2>2. QED BY <1>1, <2>1 DEF Replaced
<1>11. References'
  <2>1. ASSUME NEW p \in Rows \ Items, table[p] # None \/ p \in fresh[s] PROVE table'[p] # None
    BY <1>3, <1>4, <2>1, NamesAssumption
  <2>2. ASSUME NEW r \in Rows, table'[r] # None, NEW p \in Parents(r) PROVE table'[p] # None
    <3>1. table[r] # None \/ r \in fresh[s] BY <1>3, <2>2
    <3>2. table[p] # None \/ p \in fresh[s] BY <2>2, <3>1 DEF RowInv, References
    <3>3. QED BY <2>1, <3>2, ParentFacts
  <2>3. ASSUME NEW t \in Sessions \ {s}, NEW r \in fresh[t], NEW p \in Parents(r)
        PROVE  table'[p] # None \/ p \in fresh[t]
    <3>1. p \in Rows \ Items BY <1>4, ParentFacts
    <3>2. table[p] # None \/ p \in fresh[t] BY DEF RowInv, References
    <3>3. QED BY <2>1, <3>1, <3>2
  <2>4. QED BY <1>1, <2>2, <2>3 DEF References
<1>12. Authors'
  <2>1. \A r \in Rows : table[r] \in Sessions => table[r] # s /\ phase[table[r]] = "ok"
    BY <1>2 DEF RowInv, Authors
  <2>2. \A r \in Rows : table'[r] \in Sessions => phase'[table'[r]] = "ok"
    BY <1>1, <1>3, <2>1, NamesAssumption
  <2>3. \A t \in Sessions, r \in Rows : base[t][r] \in Sessions => phase'[base[t][r]] = "ok"
    BY <1>1, <1>2 DEF RowInv, Authors
  <2>4. QED BY <1>1, <2>2, <2>3, NamesAssumption DEF Authors
<1>13. QED BY <1>6, <1>7, <1>8, <1>10, <1>11, <1>12 DEF RowInv

\* A session ends well by its commit alone.
LEMMA OnlyCommits ==
    ASSUME Types, NEW s \in Sessions, [Next]_vars, phase[s] = "run", phase'[s] = "ok"
    PROVE  Commit(s)
<1>1. PICK t \in Sessions : Step(t) \/ Fail(t) BY DEF Next, AllEnded, vars
<1>2. CASE t # s
  <2>1. phase'[s] = phase[s]
    BY <1>1, <1>2 DEF Step, Begin, AddProduct, AddOrder, ReadProducts, Get, SelectOrders,
       LoadLines, ListStocks, AddLocation, StartDelete, DeleteRow, AddItems, InsertRow, Commit,
       Fail, Close, Types
  <2>2. QED BY <2>1
<1>3. CASE t = s
  BY <1>1, <1>3 DEF Step, Begin, AddProduct, AddOrder, ReadProducts, Get, SelectOrders,
     LoadLines, ListStocks, AddLocation, StartDelete, DeleteRow, AddItems, InsertRow,
     Fail, Close, Types
<1>4. QED BY <1>2, <1>3

LEMMA StepRows ==
    ASSUME Types, RowInv, NEW s \in Sessions, Step(s) \/ Fail(s)
    PROVE  RowInv'
<1>1. ASSUME ListStocks(s) PROVE RowInv'
  <2>1. phase[s] = "run" BY <1>1 DEF ListStocks, Ready
  <2>2. CASE UNCHANGED <<phase, seen, pending, fresh, gone, todo, base>>
    BY <1>1, <2>2, Quiet DEF ListStocks, RowInv, Reaching
  <2>3. CASE Close(s, "raised")
    BY <1>1, <2>1, <2>3, FailRows DEF ListStocks, Open
  <2>4. QED BY <1>1, <2>2, <2>3 DEF ListStocks
<1>2. ASSUME Fail(s) PROVE RowInv' BY <1>2, FailRows DEF Fail
<1>3. QED BY <1>1, <1>2, QuietStep, StartDeleteRows, DeleteRowRows, InsertRowRows, CommitRows DEF Step

-----------------------------------------------------------------------------
(* Theorems about rows and levels *)

IInv == Types /\ Midway /\ RowInv

LEMMA Invariance == Spec => []IInv
<1>1. Init => IInv BY InitTypes, InitRows DEF IInv, Midway, Init
<1>2. IInv /\ [Next]_vars => IInv'
  <2> SUFFICES ASSUME IInv, [Next]_vars PROVE IInv'
    OBVIOUS
  <2>1. CASE UNCHANGED vars
    <3>1. Types' /\ Midway' BY <2>1 DEF IInv, Types, Midway, vars
    <3>2. RowInv' BY <2>1, Quiet DEF IInv, vars, RowInv, Reaching
    <3>3. QED BY <3>1, <3>2 DEF IInv
  <2>2. CASE \E s \in Sessions : Step(s) \/ Fail(s)
    BY <2>2, StepTypes, StepMidway, StepRows DEF IInv
  <2>3. QED BY <2>1, <2>2 DEF Next, AllEnded
<1>3. QED BY <1>1, <1>2, PTL DEF Spec

\* TypeOK for any sessions and scripts: in particular no row of the table is without
\* the rows it refers to (the foreign keys of models.py).
THEOREM TypeCorrect == Spec => []TypeOK
<1>1. IInv => TypeOK
  <2> SUFFICES ASSUME IInv PROVE TypeOK
    OBVIOUS
  <2>1. \A f \in {gone, todo} : f \in [Sessions -> SUBSET Rows]
    <3>1. gone \in [Sessions -> SUBSET Rows] BY RowFacts DEF IInv, Types
    <3>2. todo \in [Sessions -> SUBSET Rows] BY RowFacts DEF IInv, Types
    <3>3. QED BY <3>1, <3>2
  <2>2. \A f \in {pending, fresh} : f \in [Sessions -> SUBSET Rows] BY DEF IInv, Types
  <2>3. \A s \in Sessions : gone[s] \subseteq Items BY DEF IInv, Types
  <2>4. \A r \in Rows : table[r] # None => \A p \in Parents(r) : table[p] # None
    BY DEF IInv, RowInv, References
  <2>5. \A f \in {pending, fresh, gone, todo} : f \in [Sessions -> SUBSET Rows] BY <2>1, <2>2
  <2>6. QED BY <2>3, <2>4, <2>5 DEF IInv, Types, TypeOK
<1>2. QED BY <1>1, Invariance, PTL

\* NoOverwrite for any sessions and scripts: upserts of the same location exclude each
\* other row by row until one commits (sqlalchemy_repositories.py 165-169).
THEOREM NothingOverwritten == Spec => NoOverwrite
<1>1. IInv /\ [Next]_vars =>
        [\A s \in Sessions : phase[s] = "run" /\ phase'[s] = "ok" =>
            \A r \in fresh[s] : table[r] \in {None, base[s][r]}]_vars
  BY DEF IInv, RowInv, Inserted, Deleted
<1>2. QED BY <1>1, Invariance, PTL DEF Spec, NoOverwrite

\* NothingStale for any sessions and scripts: what the DELETE of an upsert found is gone
\* when its session commits, or another session has replaced it.
THEOREM OldLevelsGone == Spec => NothingStale
<1>1. ASSUME IInv, [Next]_vars
      PROVE  [\A s \in Sessions : phase[s] = "run" /\ phase'[s] = "ok" =>
                 \A r \in Items : base[s][r] # None => table'[r] # base[s][r]]_vars
  <2>1. SUFFICES ASSUME NEW s \in Sessions, phase[s] = "run", phase'[s] = "ok",
                        NEW r \in Items, base[s][r] # None
                 PROVE  table'[r] # base[s][r]
    OBVIOUS
  <2>2. Commit(s) BY <1>1, <2>1, OnlyCommits DEF IInv
  <2>3. table'[r] = IF r \in fresh[s] THEN s ELSE IF r \in gone[s] THEN None ELSE table[r]
    BY <2>2, RowFacts DEF Commit
  <2>4. base[s][r] # s BY <1>1, <2>1, RowFacts DEF IInv, RowInv, Authors
  <2>5. todo[s] = {} BY <1>1, <2>1 DEF IInv, RowInv, Reaching
  <2>6. r \in gone[s] \/ table[r] # base[s][r]
    BY <1>1, <2>1, <2>5, RowFacts DEF IInv, RowInv, Replaced
  <2>7. QED BY <2>1, <2>3, <2>4, <2>6
<1>2. QED BY <1>1, Invariance, PTL DEF Spec, NothingStale
-----------------------------------------------------------------------------
(* Orders and their lines *)

OrderPart == {OrderRow(o) : o \in Orders} \cup Lines
LinesIn(o, R) == {k \in Skus : Line(o, k) \in R}
AddedAs(o, ks) == \E c \in Scripts : \E i \in DOMAIN c :
                     c[i].op = "addOrder" /\ c[i].order = o /\ c[i].skus = ks

Adds(call, o) == call.op = "addOrder" /\ call.order = o
AddsOnce(q) == \A i, j \in DOMAIN q : \A o \in Orders : Adds(q[i], o) /\ Adds(q[j], o) => i = j
NeverAdds(q, o) == \A i \in DOMAIN q : ~Adds(q[i], o)
OfScripts(q) == \A i \in DOMAIN q : q[i].op = "addOrder" => AddedAs(q[i].order, q[i].skus)

\* No session adds an order twice (OrderId.new() never repeats), and none is there
\* before the first session begins.
OrdersOnce == (\A c \in Scripts : AddsOnce(c)) /\ (\A o \in Orders : OrderRow(o) \notin Seeded)

\* The orders among the rows R have all the lines they were added with.
Whole(R) == \A o \in Orders : IF OrderRow(o) \in R THEN AddedAs(o, LinesIn(o, R))
                              ELSE LinesIn(o, R) = {}
Stored == {r \in Rows : table[r] # None}
Own(s) == (pending[s] \cup fresh[s]) \cap OrderPart

\* The rest of a script adds no order for a second time.
ScriptOK(s) == /\ AddsOnce(script[s]) /\ OfScripts(script[s])
               /\ \A o \in Orders : OrderRow(o) \in Own(s) => NeverAdds(script[s], o)

\* No query runs with rows pending; the orders found by its first query stay there.
Flushed(s) ==
    /\ phase[s] = "new" => Own(s) = {}
    /\ phase[s] \in {"loading", "deleting"} => pending[s] = {}
    /\ phase[s] = "loading" => \A o \in Head(script[s]).orders : OrderRow(o) \in Visible(s)

OrderInv == Whole(Stored) /\ \A s \in Sessions : Whole(Own(s)) /\ ScriptOK(s) /\ Flushed(s)

LEMMA OrderFacts ==
    /\ OrderPart \subseteq Rows
    /\ \A o \in Orders : OrderRow(o) \in OrderPart
    /\ \A o \in Orders, k \in Skus : Line(o, k) \in OrderPart
    /\ \A o, p \in Orders : OrderRow(o) = OrderRow(p) => o = p
    /\ \A o, p \in Orders, j, k \in Skus : /\ Line(o, j) = Line(p, k) => o = p /\ j = k
                                           /\ Line(o, j) # OrderRow(p)
    /\ \A o \in Orders, k \in Skus : OrderRow(o) \in Parents(Line(o, k))
    /\ OrderPart \cap Items = {}
    /\ \A l \in Locations : Location(l) \notin OrderPart
    /\ \A k \in Skus : ProductRows(k) \cap OrderPart = {}
<1>1. \A o \in Orders, k \in Skus : OrderRow(o) \in Parents(Line(o, k))
  <2> SUFFICES ASSUME NEW o \in Orders, NEW k \in Skus PROVE OrderRow(o) \in Parents(Line(o, k))
    OBVIOUS
  <2>1. Line(o, k) \in Lines /\ Line(o, k)[2] = o BY DEF Lines, Line
  <2>2. QED BY <2>1 DEF Parents
<1>2. OrderPart \cap Items = {} BY DEF OrderPart, OrderRow, Lines, Line, Items, Item
<1>3. /\ \A l \in Locations : Location(l) \notin OrderPart
      /\ \A k \in Skus : ProductRows(k) \cap OrderPart = {}
  BY DEF OrderPart, OrderRow, Lines, Line, Location, ProductRows, Product
<1>4. /\ OrderPart \subseteq Rows
      /\ \A o \in Orders : OrderRow(o) \in OrderPart
      /\ \A o \in Orders, k \in Skus : Line(o, k) \in OrderPart
  BY DEF OrderPart, Rows, Lines
<1>5. /\ \A o, p \in Orders : OrderRow(o) = OrderRow(p) => o = p
      /\ \A o, p \in Orders, j, k \in Skus : /\ Line(o, j) = Line(p, k) => o = p /\ j = k
                                             /\ Line(o, j) # OrderRow(p)
  BY DEF OrderRow, Line
<1>6. QED BY <1>1, <1>2, <1>3, <1>4, <1>5

\* What is left of a script adds no more than the script does.
LEMMA TailScript ==
    ASSUME NEW q \in Seq(Calls), q # <<>>
    PROVE  /\ AddsOnce(q) => AddsOnce(Tail(q))
           /\ OfScripts(q) => OfScripts(Tail(q))
           /\ \A o \in Orders : NeverAdds(q, o) => NeverAdds(Tail(q), o)
<1>1. DOMAIN Tail(q) = 1..(Len(q) - 1) /\ DOMAIN q = 1..Len(q) /\ Len(q) \in Nat
  OBVIOUS
<1>2. \A i \in DOMAIN Tail(q) : i \in Nat /\ i + 1 \in DOMAIN q /\ Tail(q)[i] = q[i + 1]
  BY <1>1
<1>3. AddsOnce(q) => AddsOnce(Tail(q))
  <2> SUFFICES ASSUME AddsOnce(q), NEW i \in DOMAIN Tail(q), NEW j \in DOMAIN Tail(q),
                      NEW o \in Orders, Adds(Tail(q)[i], o), Adds(Tail(q)[j], o)
               PROVE  i = j
    BY DEF AddsOnce
  <2>1. i + 1 = j + 1 BY <1>2 DEF AddsOnce
  <2>2. QED BY <1>2, <2>1
<1>4. OfScripts(q) => OfScripts(Tail(q)) BY <1>2 DEF OfScripts
<1>5. \A o \in Orders : NeverAdds(q, o) => NeverAdds(Tail(q), o) BY <1>2 DEF NeverAdds
<1>6. QED BY <1>3, <1>4, <1>5

\* Nor does a load that has found its orders.
LEMMA LoadingScript ==
    ASSUME NEW q \in Seq(Calls), NEW call \in Calls, call.op = "orders"
    PROVE  /\ AddsOnce(q) => AddsOnce(<<call>> \o q)
           /\ OfScripts(q) => OfScripts(<<call>> \o q)
           /\ \A o \in Orders : NeverAdds(q, o) => NeverAdds(<<call>> \o q, o)
<1> DEFINE p == <<call>> \o q
<1>1. /\ DOMAIN p = 1..(Len(q) + 1) /\ DOMAIN q = 1..Len(q) /\ Len(q) \in Nat
      /\ p[1] = call
  OBVIOUS
<1>2. \A i \in DOMAIN p : i \in Nat /\ (i = 1 \/ (i - 1 \in DOMAIN q /\ p[i] = q[i - 1]))
  OBVIOUS
<1> HIDE DEF p
<1>3. \A o \in Orders : ~Adds(call, o) BY DEF Adds
<1>4. AddsOnce(q) => AddsOnce(p)
  <2> SUFFICES ASSUME AddsOnce(q), NEW i \in DOMAIN p, NEW j \in DOMAIN p,
                      NEW o \in Orders, Adds(p[i], o), Adds(p[j], o)
               PROVE  i = j
    BY DEF AddsOnce
  <2>1. i # 1 /\ j # 1 BY <1>1, <1>3
  <2>2. i - 1 = j - 1 BY <1>2, <2>1 DEF AddsOnce
  <2>3. QED BY <1>2, <2>2
<1>5. OfScripts(q) => OfScripts(p) BY <1>1, <1>2 DEF OfScripts
<1>6. \A o \in Orders : NeverAdds(q, o) => NeverAdds(p, o) BY <1>1, <1>2, <1>3 DEF NeverAdds
<1>7. QED BY <1>4, <1>5, <1>6 DEF p

LEMMA InitOrders == ASSUME OrdersOnce PROVE Init => OrderInv
<1> SUFFICES ASSUME Init PROVE OrderInv
  OBVIOUS
<1>1. \A r \in Rows : table[r] # None <=> r \in Seeded
  BY NamesAssumption DEF Init
<1>2. \A o \in Orders : OrderRow(o) \notin Seeded BY DEF OrdersOnce
<1>3. \A o \in Orders, k \in Skus : Line(o, k) \notin Seeded
  BY <1>2, SeedAssumption, OrderFacts
<1>4. Whole(Stored) BY <1>1, <1>2, <1>3 DEF Whole, Stored, LinesIn
<1>5. \A s \in Sessions : /\ Own(s) = {} /\ script[s] = <<>> /\ phase[s] = "new"
  BY DEF Init, Own
<1>6. \A s \in Sessions : Whole(Own(s)) BY <1>5 DEF Whole, LinesIn
<1>7. \A s \in Sessions : ScriptOK(s)
  BY <1>5 DEF ScriptOK, AddsOnce, OfScripts, NeverAdds
<1>8. \A s \in Sessions : Flushed(s) BY <1>5 DEF Flushed
<1>9. QED BY <1>4, <1>6, <1>7, <1>8 DEF OrderInv

\* A step of s that leaves the rows of orders alone, its own and the table's.
LEMMA OrdersQuiet ==
    ASSUME OrderInv, NEW s \in Sessions, UNCHANGED table,
           \A t \in Sessions : Own(t)' = Own(t),
           \A t \in Sessions \ {s} : /\ script'[t] = script[t] /\ phase'[t] = phase[t]
                                     /\ pending'[t] = pending[t]
                                     /\ fresh'[t] = fresh[t] /\ gone'[t] = gone[t],
           AddsOnce(script[s]) => AddsOnce(script'[s]),
           OfScripts(script[s]) => OfScripts(script'[s]),
           \A o \in Orders : NeverAdds(script[s], o) => NeverAdds(script'[s], o),
           Flushed(s)'
    PROVE  OrderInv'
<1>1. Whole(Stored)' BY DEF OrderInv, Whole, Stored, LinesIn
<1>2. \A t \in Sessions : Whole(Own(t))' BY DEF OrderInv, Whole, LinesIn
<1>3. \A t \in Sessions : ScriptOK(t)'
  <2>1. ScriptOK(s)' BY DEF OrderInv, ScriptOK
  <2>2. ASSUME NEW t \in Sessions \ {s} PROVE ScriptOK(t)'
    BY DEF OrderInv, ScriptOK, AddsOnce, OfScripts, NeverAdds
  <2>3. QED BY <2>1, <2>2
<1>4. ASSUME NEW t \in Sessions \ {s} PROVE Flushed(t)'
  BY DEF OrderInv, Flushed, Visible
<1>5. QED BY <1>1, <1>2, <1>3, <1>4 DEF OrderInv

LEMMA CalledOrders ==
    ASSUME Types, NEW s \in Sessions, script[s] # <<>>, Called(s)
    PROVE  /\ \A t \in Sessions \ {s} : script'[t] = script[t]
           /\ AddsOnce(script[s]) => AddsOnce(script'[s])
           /\ OfScripts(script[s]) => OfScripts(script'[s])
           /\ \A o \in Orders : NeverAdds(script[s], o) => NeverAdds(script'[s], o)
<1>1. script[s] \in Seq(Calls) /\ script'[s] = Tail(script[s])
  BY DEF Types, Called
<1>2. QED BY <1>1, TailScript DEF Types, Called

\* A session ends, and no order leaves the table.
LEMMA EndOrders ==
    ASSUME Types, Midway, OrderInv, NEW s \in Sessions, NEW how \in {"ok", "raised"}, Close(s, how),
           Whole(Stored)',
           \A o \in Orders : table[OrderRow(o)] # None => table'[OrderRow(o)] # None
    PROVE  OrderInv'
<1>1. /\ \A t \in Sessions \ {s} : /\ script'[t] = script[t] /\ phase'[t] = phase[t]
                                   /\ pending'[t] = pending[t]
                                   /\ fresh'[t] = fresh[t] /\ gone'[t] = gone[t]
      /\ script'[s] = <<>> /\ phase'[s] = how /\ pending'[s] = {} /\ fresh'[s] = {}
  BY DEF Close, Types
<1>2. Whole(Own(s))' /\ ScriptOK(s)' /\ Flushed(s)'
  BY <1>1 DEF Own, Whole, LinesIn, ScriptOK, AddsOnce, OfScripts, NeverAdds, Flushed
<1>3. \A t \in Sessions \ {s} : Own(t)' = Own(t) BY <1>1 DEF Own
<1>4. ASSUME NEW t \in Sessions \ {s} PROVE Whole(Own(t))' /\ ScriptOK(t)'
  BY <1>1, <1>3 DEF OrderInv, Whole, LinesIn, ScriptOK, AddsOnce, OfScripts, NeverAdds
<1>5. ASSUME NEW t \in Sessions \ {s} PROVE Flushed(t)'
  <2>1. ASSUME NEW o \in Orders, OrderRow(o) \in Visible(t) PROVE OrderRow(o) \in Visible(t)'
    BY <1>1, <2>1, OrderFacts DEF Visible, Types
  <2>2. ASSUME phase[t] = "loading", script[t] # <<>>, Head(script[t]).op = "orders"
        PROVE  Head(script[t]).orders \subseteq Orders
    BY <2>2, CallFacts DEF Types
  <2>3. QED BY <1>1, <1>3, <2>1, <2>2 DEF OrderInv, Flushed, Midway
<1>6. QED BY <1>2, <1>4, <1>5 DEF OrderInv

LEMMA BeginOrders ==
    ASSUME OrdersOnce, Types, OrderInv, NEW s \in Sessions, Begin(s)
    PROVE  OrderInv'
<1>1. PICK c \in Scripts : script' = [script EXCEPT ![s] = c]
  BY DEF Begin
<1>2. /\ \A t \in Sessions \ {s} : script'[t] = script[t] /\ phase'[t] = phase[t]
      /\ script'[s] = c /\ phase[s] = "new" /\ phase'[s] = "run"
      /\ UNCHANGED <<table, pending, fresh, gone>>
  BY <1>1 DEF Begin, Types
<1>3. Own(s) = {} /\ \A t \in Sessions : Own(t)' = Own(t)
  BY <1>2 DEF OrderInv, Flushed, Own
<1>4. AddsOnce(c) /\ OfScripts(c) BY DEF OrdersOnce, OfScripts, AddedAs
<1>5. ScriptOK(s)' BY <1>2, <1>3, <1>4 DEF ScriptOK, AddsOnce, OfScripts
<1>6. Flushed(s)' BY <1>2 DEF Flushed
<1>7. Whole(Stored)' /\ \A t \in Sessions : Whole(Own(t))'
  <2>1. Whole(Stored)' BY <1>2 DEF OrderInv, Whole, Stored, LinesIn
  <2>2. \A t \in Sessions : Whole(Own(t))' BY <1>3 DEF OrderInv, Whole, LinesIn
  <2>3. QED BY <2>1, <2>2
<1>8. ASSUME NEW t \in Sessions \ {s} PROVE ScriptOK(t)' /\ Flushed(t)'
  BY <1>2, <1>3 DEF OrderInv, ScriptOK, AddsOnce, OfScripts, NeverAdds, Flushed, Visible
<1>9. QED BY <1>5, <1>6, <1>7, <1>8 DEF OrderInv

\* An order is added with all its lines, to a session that has none of them.
LEMMA AddOrderOrders ==
    ASSUME Types, OrderInv, NEW s \in Sessions, AddOrder(s)
    PROVE  OrderInv'
<1> DEFINE c == Head(script[s])
<1>1. /\ phase[s] = "run" /\ script[s] # <<>> /\ c.op = "addOrder" /\ Called(s)
      /\ pending' = [pending EXCEPT ![s] = @ \cup OrderRows(c.order, c.skus)]
      /\ UNCHANGED <<table, phase, fresh, gone>>
  BY DEF AddOrder
<1>2. script[s] \in Seq(Calls) /\ c \in Calls BY <1>1 DEF Types
<1>3. c.order \in Orders /\ c.skus \in SUBSET Skus BY <1>1, <1>2, CallFacts
<1>4. 1 \in DOMAIN script[s] /\ c = script[s][1] BY <1>1, <1>2
<1> HIDE DEF c
<1>5. AddedAs(c.order, c.skus) BY <1>1, <1>4 DEF OrderInv, ScriptOK, OfScripts
<1>6. OrderRow(c.order) \notin Own(s)
  BY <1>1, <1>3, <1>4 DEF OrderInv, ScriptOK, NeverAdds, Adds
<1>7. LinesIn(c.order, Own(s)) = {} BY <1>3, <1>6 DEF OrderInv, Whole
<1>8. /\ \A t \in Sessions \ {s} : pending'[t] = pending[t] /\ Own(t)' = Own(t)
      /\ Own(s)' = Own(s) \cup OrderRows(c.order, c.skus)
  <2>1. OrderRows(c.order, c.skus) \subseteq OrderPart BY <1>3, OrderFacts DEF OrderRows
  <2>2. pending'[s] = pending[s] \cup OrderRows(c.order, c.skus) BY <1>1 DEF Types
  <2>3. QED BY <1>1, <2>1, <2>2 DEF Own, Types
<1>9. Whole(Own(s))'
  <2>1. \A o \in Orders : OrderRow(o) \in Own(s)' <=> OrderRow(o) \in Own(s) \/ o = c.order
    BY <1>3, <1>8, OrderFacts DEF OrderRows
  <2>2. \A o \in Orders : LinesIn(o, Own(s)') = IF o = c.order THEN c.skus ELSE LinesIn(o, Own(s))
    <3>1. \A o \in Orders, k \in Skus : Line(o, k) \in OrderRows(c.order, c.skus)
                                        <=> o = c.order /\ k \in c.skus
      BY <1>3, OrderFacts DEF OrderRows
    <3>2. QED BY <1>3, <1>7, <1>8, <3>1 DEF LinesIn
  <2>3. \A o \in Orders : IF OrderRow(o) \in Own(s)' THEN AddedAs(o, LinesIn(o, Own(s)'))
                          ELSE LinesIn(o, Own(s)') = {}
    BY <1>3, <1>5, <2>1, <2>2 DEF OrderInv, Whole
  <2>4. QED BY <2>3 DEF Whole, LinesIn
<1>10. ScriptOK(s)'
  <2>1. /\ AddsOnce(script[s]) => AddsOnce(script'[s])
        /\ OfScripts(script[s]) => OfScripts(script'[s])
        /\ \A o \in Orders : NeverAdds(script[s], o) => NeverAdds(script'[s], o)
    BY <1>1, CalledOrders
  <2>2. AddsOnce(script[s]) BY DEF OrderInv, ScriptOK
  <2>3. NeverAdds(script'[s], c.order)
    <3>1. script'[s] = Tail(script[s]) BY <1>1 DEF Called, Types
    <3>2. \A i \in DOMAIN Tail(script[s]) : /\ i + 1 \in DOMAIN script[s] /\ i + 1 # 1
                                            /\ Tail(script[s])[i] = script[s][i + 1]
      BY <1>1, <1>2
    <3>3. \A j \in DOMAIN script[s] : Adds(script[s][j], c.order) => j = 1
      BY <1>1, <1>3, <1>4, <2>2 DEF AddsOnce, Adds
    <3>4. QED BY <3>1, <3>2, <3>3 DEF NeverAdds
  <2>4. \A o \in Orders : OrderRow(o) \in Own(s)' => NeverAdds(script'[s], o)
    BY <1>3, <1>8, <2>1, <2>3, OrderFacts DEF OrderInv, ScriptOK, OrderRows
  <2>5. QED BY <2>1, <2>4 DEF OrderInv, ScriptOK, AddsOnce, OfScripts, NeverAdds
<1>11. Flushed(s)' BY <1>1 DEF Flushed
<1>12. Whole(Stored)' /\ \A t \in Sessions \ {s} : Whole(Own(t))'
  <2>1. Whole(Stored)' BY <1>1 DEF OrderInv, Whole, Stored, LinesIn
  <2>2. ASSUME NEW t \in Sessions \ {s} PROVE Whole(Own(t))'
    <3>1. Own(t)' = Own(t) BY <1>8
    <3>2. QED BY <3>1 DEF OrderInv, Whole, LinesIn
  <2>3. QED BY <2>1, <2>2
<1>13. \A t \in Sessions \ {s} : script'[t] = script[t] BY <1>1, CalledOrders
<1>14. ASSUME NEW t \in Sessions \ {s} PROVE ScriptOK(t)' /\ Flushed(t)'
  BY <1>1, <1>8, <1>13 DEF OrderInv, ScriptOK, AddsOnce, OfScripts, NeverAdds, Flushed, Visible
<1>15. QED BY <1>9, <1>10, <1>11, <1>12, <1>14 DEF OrderInv

\* Only the second query ends a load well.
LEMMA OnlyLoads ==
    ASSUME Types, NEW s \in Sessions, [Next]_vars, phase[s] = "loading", phase'[s] = "run"
    PROVE  LoadLines(s)
<1>1. PICK t \in Sessions : Step(t) \/ Fail(t) BY DEF Next, AllEnded, vars
<1>2. t = s
  BY <1>1 DEF Step, Begin, AddProduct, AddOrder, ReadProducts, Get, SelectOrders,
     LoadLines, ListStocks, AddLocation, StartDelete, DeleteRow, AddItems, InsertRow, Commit,
     Fail, Close, Types
<1>3. QED
  BY <1>1, <1>2 DEF Step, Begin, AddProduct, AddOrder, ReadProducts, Get, SelectOrders,
     ListStocks, Ready, AddLocation, StartDelete, DeleteRow, AddItems, InsertRow, Commit,
     Fail, Close, Types

\* A session commits: the table has the order whole, its own or the one it had.
LEMMA CommitOrders ==
    ASSUME Types, Midway, RowInv, OrderInv, NEW s \in Sessions, Commit(s)
    PROVE  OrderInv'
<1>1. \A r \in Rows : table'[r] = IF r \in fresh[s] THEN s
                                  ELSE IF r \in gone[s] THEN None ELSE table[r]
  BY DEF Commit
<1>2. pending[s] = {} /\ Close(s, "ok") BY DEF Commit
<1>3. Own(s) = fresh[s] \cap OrderPart BY <1>2 DEF Own
<1>4. \A r \in OrderPart : r \in Rows /\ r \notin gone[s] BY OrderFacts DEF Types
<1>5. \A r \in OrderPart : table'[r] # None <=> r \in Own(s) \/ table[r] # None
  BY <1>1, <1>3, <1>4, NamesAssumption
<1>6. \A o \in Orders : OrderRow(o) \in Own(s) => table[OrderRow(o)] = None
  BY <1>3, <1>4 DEF RowInv, Inserted
<1>7. \A o \in Orders : table[OrderRow(o)] = None => \A k \in Skus : table[Line(o, k)] = None
  BY OrderFacts DEF RowInv, References
<1>8. Whole(Stored)'
  <2> SUFFICES ASSUME NEW o \in Orders
               PROVE  IF table'[OrderRow(o)] # None
                      THEN AddedAs(o, {k \in Skus : table'[Line(o, k)] # None})
                      ELSE {k \in Skus : table'[Line(o, k)] # None} = {}
    BY OrderFacts DEF Whole, Stored, LinesIn
  <2>1. \A k \in Skus : table'[Line(o, k)] # None <=> Line(o, k) \in Own(s) \/ table[Line(o, k)] # None
    BY <1>5, OrderFacts
  <2>2. table'[OrderRow(o)] # None <=> OrderRow(o) \in Own(s) \/ table[OrderRow(o)] # None
    BY <1>5, OrderFacts
  <2>3. IF OrderRow(o) \in Own(s) THEN AddedAs(o, {k \in Skus : Line(o, k) \in Own(s)})
        ELSE {k \in Skus : Line(o, k) \in Own(s)} = {}
    BY DEF OrderInv, Whole, LinesIn
  <2>4. IF table[OrderRow(o)] # None THEN AddedAs(o, {k \in Skus : table[Line(o, k)] # None})
        ELSE {k \in Skus : table[Line(o, k)] # None} = {}
    BY OrderFacts DEF OrderInv, Whole, Stored, LinesIn
  <2>5. CASE OrderRow(o) \in Own(s)
    <3>1. {k \in Skus : table'[Line(o, k)] # None} = {k \in Skus : Line(o, k) \in Own(s)}
      BY <1>6, <1>7, <2>1, <2>5
    <3>2. QED BY <2>2, <2>3, <2>5, <3>1
  <2>6. CASE OrderRow(o) \notin Own(s)
    <3>1. {k \in Skus : table'[Line(o, k)] # None} = {k \in Skus : table[Line(o, k)] # None}
      BY <2>1, <2>3, <2>6
    <3>2. QED BY <2>2, <2>4, <2>6, <3>1
  <2>7. QED BY <2>5, <2>6
<1>9. \A o \in Orders : table[OrderRow(o)] # None => table'[OrderRow(o)] # None
  BY <1>5, OrderFacts
<1>10. QED BY <1>2, <1>8, <1>9, EndOrders

\* Every other step leaves the orders' rows where they are, or moves them from pending
\* to fresh.
LEMMA StepOrders ==
    ASSUME OrdersOnce, Types, Midway, RowInv, OrderInv, NEW s \in Sessions, Step(s) \/ Fail(s)
    PROVE  OrderInv'
<1> DEFINE Alone == \A t \in Sessions \ {s} :
                       /\ script'[t] = script[t] /\ phase'[t] = phase[t]
                       /\ pending'[t] = pending[t]
                       /\ fresh'[t] = fresh[t] /\ gone'[t] = gone[t]
           Kept == /\ AddsOnce(script[s]) => AddsOnce(script'[s])
                   /\ OfScripts(script[s]) => OfScripts(script'[s])
                   /\ \A o \in Orders : NeverAdds(script[s], o) => NeverAdds(script'[s], o)
<1>0. ASSUME Alone, Kept, UNCHANGED table, Own(s)' = Own(s), Flushed(s)' PROVE OrderInv'
  <2>1. \A t \in Sessions : Own(t)' = Own(t) BY <1>0 DEF Own
  <2>2. QED BY <1>0, <2>1, OrdersQuiet
<1>1. ASSUME Begin(s) PROVE OrderInv' BY <1>1, BeginOrders
<1>2. ASSUME AddProduct(s) PROVE OrderInv'
  <2>1. /\ phase[s] = "run" /\ script[s] # <<>> /\ Called(s)
        /\ pending' = [pending EXCEPT ![s] = @ \cup ProductRows(Head(script[s]).sku)]
        /\ Head(script[s]).op = "addProduct"
        /\ UNCHANGED <<table, phase, fresh, gone>>
    BY <1>2 DEF AddProduct
  <2>2. Head(script[s]).sku \in Skus BY <2>1, CallTypes, CallFacts
  <2>3. Own(s)' = Own(s) BY <2>1, <2>2, OrderFacts DEF Own, Types
  <2>4. Alone /\ Kept BY <2>1, CalledOrders DEF Types
  <2>5. Flushed(s)' BY <2>1 DEF Flushed
  <2>6. QED BY <1>0, <2>1, <2>3, <2>4, <2>5
<1>3. ASSUME AddOrder(s) PROVE OrderInv' BY <1>3, AddOrderOrders
<1>4. ASSUME ReadProducts(s) \/ Get(s) PROVE OrderInv'
  <2>1. /\ phase[s] = "run" /\ script[s] # <<>> /\ Called(s)
        /\ UNCHANGED <<table, phase, pending, fresh, gone>>
    BY <1>4 DEF ReadProducts, Get, Ready
  <2>2. Alone /\ Kept BY <2>1, CalledOrders
  <2>3. Own(s)' = Own(s) /\ Flushed(s)' BY <2>1 DEF Own, Flushed
  <2>4. QED BY <1>0, <2>1, <2>2, <2>3
<1>5. ASSUME SelectOrders(s) PROVE OrderInv'
  <2> DEFINE found == {o \in Head(script[s]).orders : OrderRow(o) \in Visible(s)}
             call == [op |-> "orders", orders |-> found]
  <2>1. /\ phase[s] = "run" /\ pending[s] = {} /\ script[s] # <<>>
        /\ Head(script[s]).op = "orders"
        /\ UNCHANGED <<table, pending, fresh, gone>>
    BY <1>5 DEF SelectOrders, Ready
  <2>2. \/ Called(s) /\ UNCHANGED phase
        \/ /\ script' = [script EXCEPT ![s] = <<call>> \o Tail(@)]
           /\ phase' = [phase EXCEPT ![s] = "loading"]
    BY <1>5 DEF SelectOrders
  <2>3. Own(s)' = Own(s) BY <2>1 DEF Own
  <2>4. CASE Called(s) /\ UNCHANGED phase
    <3>1. Alone /\ Kept BY <2>1, <2>4, CalledOrders
    <3>2. Flushed(s)' BY <2>1, <2>4 DEF Flushed
    <3>3. QED BY <1>0, <2>1, <2>3, <3>1, <3>2
  <2>5. CASE /\ script' = [script EXCEPT ![s] = <<call>> \o Tail(@)]
             /\ phase' = [phase EXCEPT ![s] = "loading"]
    <3>1. script[s] \in Seq(Calls) /\ Tail(script[s]) \in Seq(Calls) /\ Head(script[s]) \in Calls
      BY <2>1 DEF Types
    <3>2. call \in Calls /\ call.op = "orders" /\ call.orders = found
      BY <2>1, <3>1, CallFacts DEF Calls
    <3>3. \A o \in found : OrderRow(o) \in Visible(s) OBVIOUS
    <3> HIDE DEF call, found
    <3>4. script'[s] = <<call>> \o Tail(script[s]) /\ Head(script'[s]) = call
      BY <2>5, <3>1, <3>2 DEF Types
    <3>5. Kept BY <2>1, <3>1, <3>2, <3>4, TailScript, LoadingScript
    <3>6. Alone BY <2>1, <2>5 DEF Types
    <3>7. Flushed(s)' BY <2>1, <2>5, <3>2, <3>3, <3>4 DEF Flushed, Visible, Types
    <3>8. QED BY <1>0, <2>1, <2>3, <3>5, <3>6, <3>7
  <2>6. QED BY <2>2, <2>4, <2>5
<1>6. ASSUME LoadLines(s) PROVE OrderInv'
  <2>1. /\ script[s] # <<>> /\ Called(s)
        /\ phase' = [phase EXCEPT ![s] = "run"]
        /\ UNCHANGED <<table, pending, fresh, gone>>
    BY <1>6 DEF LoadLines, Midway
  <2>2. Alone /\ Kept BY <2>1, CalledOrders DEF Types
  <2>3. Own(s)' = Own(s) /\ Flushed(s)' BY <2>1 DEF Own, Flushed, Types
  <2>4. QED BY <1>0, <2>1, <2>2, <2>3
<1>7. ASSUME AddLocation(s) PROVE OrderInv'
  <2>1. /\ phase[s] = "run" /\ pending[s] = {} /\ script[s] # <<>>
        /\ Head(script[s]).op = "upsert"
        /\ pending' = [pending EXCEPT ![s] = {Location(Head(script[s]).at)}]
        /\ UNCHANGED <<table, script, phase, fresh, gone>>
    BY <1>7 DEF AddLocation, Ready
  <2>2. Head(script[s]).at \in Locations BY <2>1, CallFacts DEF Types
  <2>3. Own(s)' = Own(s) BY <2>1, <2>2, OrderFacts DEF Own, Types
  <2>4. Alone /\ Kept BY <2>1 DEF Types
  <2>5. Flushed(s)' BY <2>1 DEF Flushed
  <2>6. QED BY <1>0, <2>1, <2>3, <2>4, <2>5
<1>8. ASSUME StartDelete(s) PROVE OrderInv'
  <2>1. /\ pending[s] = {} /\ phase' = [phase EXCEPT ![s] = "deleting"]
        /\ UNCHANGED <<table, script, pending, fresh, gone>>
    BY <1>8 DEF StartDelete, Ready
  <2>2. Alone /\ Kept BY <2>1 DEF Types
  <2>3. Own(s)' = Own(s) /\ Flushed(s)' BY <2>1 DEF Own, Flushed, Types
  <2>4. QED BY <1>0, <2>1, <2>2, <2>3
<1>9. ASSUME DeleteRow(s) PROVE OrderInv'
  <2>1. PICK r \in todo[s] :
           \/ fresh' = [fresh EXCEPT ![s] = @ \ {r}] /\ UNCHANGED gone
           \/ UNCHANGED <<fresh, gone>>
           \/ gone' = [gone EXCEPT ![s] = @ \cup {r}] /\ UNCHANGED fresh
    BY <1>9 DEF DeleteRow
  <2>2. phase[s] = "deleting" /\ UNCHANGED <<table, script, phase, pending>>
    BY <1>9 DEF DeleteRow
  <2>3. r \notin OrderPart BY OrderFacts DEF Types
  <2>4. Own(s)' = Own(s) BY <2>1, <2>2, <2>3 DEF Own, Types
  <2>5. Alone /\ Kept BY <2>1, <2>2 DEF Types
  <2>6. Flushed(s)' BY <2>2, <2>4 DEF OrderInv, Flushed
  <2>7. QED BY <1>0, <2>2, <2>4, <2>5, <2>6
<1>10. ASSUME AddItems(s) PROVE OrderInv'
  <2>1. /\ phase[s] = "deleting" /\ script[s] # <<>> /\ Called(s)
        /\ Head(script[s]).op = "upsert"
        /\ pending' = [pending EXCEPT ![s] = Rewritten(s, Head(script[s]))]
        /\ phase' = [phase EXCEPT ![s] = "run"]
        /\ UNCHANGED <<table, fresh, gone>>
    BY <1>10 DEF AddItems, Midway
  <2>2. pending[s] = {} BY <2>1 DEF OrderInv, Flushed
  <2>3. Rewritten(s, Head(script[s])) \subseteq Items
    <3>1. /\ Head(script[s]).at \in Locations /\ Head(script[s]).skus \in SUBSET Skus
      BY <2>1, CallTypes, CallFacts
    <3>2. seen[s][Head(script[s]).at] \in SUBSET Skus BY <3>1 DEF Types, Found
    <3>3. QED BY <3>1, <3>2, RowFacts DEF Rewritten
  <2>4. Own(s)' = Own(s) BY <2>1, <2>2, <2>3, OrderFacts DEF Own, Types
  <2>5. Alone /\ Kept BY <2>1, CalledOrders DEF Types
  <2>6. Flushed(s)' BY <2>1 DEF Flushed, Types
  <2>7. QED BY <1>0, <2>1, <2>4, <2>5, <2>6
<1>11. ASSUME InsertRow(s) PROVE OrderInv'
  <2>1. PICK r \in pending[s] : /\ fresh' = [fresh EXCEPT ![s] = @ \cup {r}]
                                /\ pending' = [pending EXCEPT ![s] = @ \ {r}]
    BY <1>11 DEF InsertRow, Flushable
  <2>2. phase[s] = "run" /\ UNCHANGED <<table, script, phase, gone>>
    BY <1>11 DEF InsertRow
  <2>3. Own(s)' = Own(s) BY <2>1 DEF Own, Types
  <2>4. Alone /\ Kept BY <2>1, <2>2 DEF Types
  <2>5. Flushed(s)' BY <2>2 DEF Flushed
  <2>6. QED BY <1>0, <2>2, <2>3, <2>4, <2>5
<1>12. ASSUME Commit(s) PROVE OrderInv' BY <1>12, CommitOrders
<1>13. ASSUME UNCHANGED table, Close(s, "raised") PROVE OrderInv'
  <2>1. Whole(Stored)' BY <1>13 DEF OrderInv, Whole, Stored, LinesIn
  <2>2. QED BY <1>13, <2>1, EndOrders
<1>14. ASSUME ListStocks(s) PROVE OrderInv'
  <2>1. \/ Called(s) /\ UNCHANGED <<phase, pending, fresh, gone>>
        \/ Close(s, "raised")
    BY <1>14 DEF ListStocks
  <2>2. UNCHANGED table /\ script[s] # <<>> /\ phase[s] = "run" BY <1>14 DEF ListStocks, Ready
  <2>3. CASE Called(s) /\ UNCHANGED <<phase, pending, fresh, gone>>
    <3>1. Alone /\ Kept BY <2>2, <2>3, CalledOrders
    <3>2. Own(s)' = Own(s) /\ Flushed(s)' BY <2>2, <2>3 DEF Own, Flushed
    <3>3. QED BY <1>0, <2>2, <3>1, <3>2
  <2>4. QED BY <1>13, <2>1, <2>2, <2>3
<1>15. QED
  BY <1>1, <1>2, <1>3, <1>4, <1>5, <1>6, <1>7, <1>8, <1>9, <1>10, <1>11, <1>12, <1>13, <1>14
     DEF Step, Fail

\* OrdersWhole for any sessions, rows and scripts, as long as no session adds an order
\* twice: the second query finds every line of an order the first one found, and no
\* other (sqlalchemy_repositories.py 121-141).
THEOREM LoadedWhole ==
    ASSUME OrdersOnce
    PROVE  Spec => OrdersWhole
<1>1. IInv /\ OrderInv /\ [Next]_vars => OrderInv'
  <2> SUFFICES ASSUME IInv, OrderInv, [Next]_vars PROVE OrderInv'
    OBVIOUS
  <2>1. CASE UNCHANGED vars
    <3>1. /\ UNCHANGED <<table, script, phase, pending, fresh, gone>>
          /\ \A t \in Sessions : Own(t)' = Own(t)
      BY <2>1 DEF vars, Own
    <3>2. Whole(Stored)' BY <3>1 DEF OrderInv, Whole, Stored, LinesIn
    <3>3. \A t \in Sessions : Whole(Own(t))' BY <3>1 DEF OrderInv, Whole, LinesIn
    <3>4. \A t \in Sessions : ScriptOK(t)' /\ Flushed(t)'
      BY <3>1 DEF OrderInv, ScriptOK, AddsOnce, OfScripts, NeverAdds, Flushed, Visible
    <3>5. QED BY <3>2, <3>3, <3>4 DEF OrderInv
  <2>2. CASE \E s \in Sessions : Step(s) \/ Fail(s)
    BY <2>2, StepOrders DEF IInv
  <2>3. QED BY <2>1, <2>2 DEF Next, AllEnded
<1>2. ASSUME IInv, OrderInv, [Next]_vars
      PROVE  [\A s \in Sessions : phase[s] = "loading" /\ phase'[s] = "run" =>
                 \A o \in Head(script[s]).orders : \E c \in Scripts : \E i \in DOMAIN c :
                    c[i].op = "addOrder" /\ c[i].order = o /\ c[i].skus = seen'[s][o]]_vars
  <2> SUFFICES ASSUME NEW s \in Sessions, phase[s] = "loading", phase'[s] = "run",
                      NEW o \in Head(script[s]).orders
               PROVE  AddedAs(o, seen'[s][o])
    BY DEF AddedAs
  <2>1. LoadLines(s) BY <1>2, OnlyLoads DEF IInv
  <2>2. o \in Orders
    <3>1. /\ script[s] \in Seq(Calls) /\ script[s] # <<>>
          /\ Head(script[s]).op = "orders"
      BY <1>2 DEF IInv, Types, Midway
    <3>2. QED BY <3>1, CallFacts
  <2>3. seen'[s][o] = {k \in Skus : Line(o, k) \in Visible(s)}
    BY <1>2, <2>1, <2>2 DEF LoadLines, IInv, Types, Found
  <2>4. \A r \in OrderPart : r \in Visible(s) <=> r \in Own(s) \/ table[r] # None
    <3>1. pending[s] = {} BY <1>2 DEF OrderInv, Flushed
    <3>2. QED BY <1>2, <3>1, OrderFacts DEF Visible, Own, IInv, Types
  <2>5. OrderRow(o) \in Visible(s) BY <1>2 DEF OrderInv, Flushed
  <2>6. CASE OrderRow(o) \in Own(s)
    <3>1. table[OrderRow(o)] = None
      BY <1>2, <2>2, <2>6, OrderFacts DEF IInv, RowInv, Inserted, Own, OrderInv, Flushed, Types
    <3>2. \A k \in Skus : table[Line(o, k)] = None
      BY <1>2, <2>2, <3>1, OrderFacts DEF IInv, RowInv, References
    <3>3. seen'[s][o] = LinesIn(o, Own(s)) BY <2>2, <2>3, <2>4, <3>2, OrderFacts DEF LinesIn
    <3>4. QED BY <1>2, <2>2, <2>6, <3>3 DEF OrderInv, Whole
  <2>7. CASE OrderRow(o) \notin Own(s)
    <3>1. OrderRow(o) \in Stored BY <2>2, <2>4, <2>5, <2>7, OrderFacts DEF Stored
    <3>2. LinesIn(o, Own(s)) = {} BY <1>2, <2>2, <2>7 DEF OrderInv, Whole
    <3>3. seen'[s][o] = LinesIn(o, Stored)
      BY <2>2, <2>3, <2>4, <3>2, OrderFacts DEF LinesIn, Stored
    <3>4. QED BY <1>2, <2>2, <3>1, <3>3 DEF OrderInv, Whole
  <2>8. QED BY <2>6, <2>7
<1>3. QED BY <1>1, <1>2, Invariance, InitOrders, PTL DEF Spec, OrdersWhole
=============================================================================
