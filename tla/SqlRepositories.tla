--------------------------- MODULE SqlRepositories ---------------------------
(***************************************************************************)
(* The SQLAlchemy repositories inside session_scope, several sessions at a *)
(* time on one PostgreSQL database (read committed).                       *)
(*                                                                         *)
(* What is stored is which rows exist and who wrote each: a row is its     *)
(* table and primary key, its contents the session that inserted it, so    *)
(* two contents are equal only if nobody rewrote the row.  `add` leaves    *)
(* rows pending in the session; every query flushes them first.  The       *)
(* database is external: uniqueness and foreign keys are checked row by    *)
(* row, a row deleted or inserted by an open transaction makes others      *)
(* wait, a DELETE skips what was deleted while it waited and does not see  *)
(* what was inserted since it began.                                       *)
(***************************************************************************)
EXTENDS Naturals, Sequences, FiniteSets

CONSTANTS
    Sessions,
    Skus,
    Locations,
    Orders,
    Scripts,    \* what a session may do: sequences of repository calls
    Seeded,     \* rows present at the start
    Seed, None  \* who wrote them; no such row

Product(k) == <<"product", k>>
Location(l) == <<"location", l>>
Item(l, k) == <<"item", l, k>>
OrderRow(o) == <<"order", o>>
Line(o, k) == <<"line", o, k>>

Items == {Item(l, k) : l \in Locations, k \in Skus}
Lines == {Line(o, k) : o \in Orders, k \in Skus}
Rows == {Product(k) : k \in Skus} \cup {Location(l) : l \in Locations} \cup Items
        \cup {OrderRow(o) : o \in Orders} \cup Lines

\* What the repositories build of a product and of an order.
ProductRows(k) == {Product(k)}
OrderRows(o, ks) == {OrderRow(o)} \cup {Line(o, k) : k \in ks}

\* The foreign keys of models.py.
Parents(r) == {Location(r[2]) : x \in {r} \cap Items} \cup {OrderRow(r[2]) : x \in {r} \cap Lines}
              \cup {Product(r[3]) : x \in {r} \cap (Items \cup Lines)}

\* "products" is get_by_sku or list, "orders" is get of an order or list, "stocks" is
\* list of the inventories.  An upsert sets some levels of what get returned, or gives
\* an inventory made from nothing.
Calls == [op : {"addProduct"}, sku : Skus]
         \cup [op : {"addOrder"}, order : Orders, skus : SUBSET Skus]
         \cup [op : {"products", "stocks"}] \cup [op : {"orders"}, orders : SUBSET Orders]
         \cup [op : {"get"}, at : Locations]
         \cup [op : {"upsert"}, at : Locations, skus : SUBSET Skus, seen : BOOLEAN]

ASSUME NamesAssumption == None \notin Sessions \cup {Seed} /\ Seed \notin Sessions
ASSUME SeedAssumption == Seeded \subseteq Rows /\ \A r \in Seeded : Parents(r) \subseteq Seeded
ASSUME ScriptsAssumption == \A c \in Scripts : c \in Seq(Calls)

VARIABLES
    table,    \* the committed rows: who wrote each
    script,   \* the calls a session has still to make
    phase,    \* "new", "run", "loading", "deleting", then "ok" or "raised"
    seen,     \* SKUs in what the last get of a location or an order returned
    pending,  \* rows added to the session and not flushed
    fresh,    \* rows inserted, not committed
    gone,     \* rows deleted, not committed: their locks are held
    todo,     \* rows the running DELETE has yet to delete
    base      \* the rows as the session's last DELETE of their location found them

vars == <<table, script, phase, seen, pending, fresh, gone, todo, base>>

Found == Locations \cup Orders
Unseen == [x \in Found |-> {}]
Writers == Sessions \cup {Seed, None}
Nothing == [r \in Rows |-> None]

Init ==
    /\ table = [r \in Rows |-> IF r \in Seeded THEN Seed ELSE None]
    /\ script = [s \in Sessions |-> <<>>]
    /\ phase = [s \in Sessions |-> "new"]
    /\ seen = [s \in Sessions |-> Unseen]
    /\ pending = [s \in Sessions |-> {}]
    /\ fresh = [s \in Sessions |-> {}]
    /\ gone = [s \in Sessions |-> {}]
    /\ todo = [s \in Sessions |-> {}]
    /\ base = [s \in Sessions |-> Nothing]

Open(s) == phase[s] \in {"run", "loading", "deleting"}
Visible(s) == ({r \in Rows : table[r] # None} \ gone[s]) \cup fresh[s]

\* A query can run: everything pending is flushed, the call is the next one.
Ready(s, op) == /\ phase[s] = "run" /\ pending[s] = {}
                /\ script[s] # <<>> /\ Head(script[s]).op = op

Called(s) == script' = [script EXCEPT ![s] = Tail(@)]

-----------------------------------------------------------------------------
(* The repositories *)

Begin(s) ==
    /\ phase[s] = "new"
    /\ phase' = [phase EXCEPT ![s] = "run"]
    /\ \E c \in Scripts : script' = [script EXCEPT ![s] = c]
    /\ UNCHANGED <<table, seen, pending, fresh, gone, todo, base>>

\* add of a product; add of an order with its lines.
AddProduct(s) ==
    /\ phase[s] = "run" /\ script[s] # <<>> /\ Head(script[s]).op = "addProduct"
    /\ pending' = [pending EXCEPT ![s] = @ \cup ProductRows(Head(script[s]).sku)]
    /\ Called(s)
    /\ UNCHANGED <<table, phase, seen, fresh, gone, todo, base>>

AddOrder(s) ==
    /\ phase[s] = "run" /\ script[s] # <<>> /\ Head(script[s]).op = "addOrder"
    /\ LET c == Head(script[s])
       IN  pending' = [pending EXCEPT ![s] = @ \cup OrderRows(c.order, c.skus)]
    /\ Called(s)
    /\ UNCHANGED <<table, phase, seen, fresh, gone, todo, base>>

\* get_by_sku or list of products: no later call goes by what it returns.
ReadProducts(s) ==
    /\ Ready(s, "products")
    /\ Called(s)
    /\ UNCHANGED <<table, phase, seen, pending, fresh, gone, todo, base>>

SkusAt(s, l) == {k \in Skus : Item(l, k) \in Visible(s)}

Get(s) ==
    /\ Ready(s, "get")
    /\ LET l == Head(script[s]).at
       IN  seen' = [seen EXCEPT ![s][l] = SkusAt(s, l)]
    /\ Called(s)
    /\ UNCHANGED <<table, phase, pending, fresh, gone, todo, base>>

\* get or list of orders: a SELECT of their rows, then one of the lines of those found.
SelectOrders(s) ==
    /\ Ready(s, "orders")
    /\ LET found == {o \in Head(script[s]).orders : OrderRow(o) \in Visible(s)}
       IN  IF found = {} THEN Called(s) /\ UNCHANGED phase
           ELSE /\ script' = [script EXCEPT ![s] = <<[op |-> "orders", orders |-> found]>> \o Tail(@)]
                /\ phase' = [phase EXCEPT ![s] = "loading"]
    /\ UNCHANGED <<table, seen, pending, fresh, gone, todo, base>>

LoadLines(s) ==
    /\ phase[s] = "loading"
    /\ seen' = [seen EXCEPT ![s] = [x \in Found |->
                   IF x \in Head(script[s]).orders
                   THEN {k \in Skus : Line(x, k) \in Visible(s)} ELSE @[x]]]
    /\ phase' = [phase EXCEPT ![s] = "run"]
    /\ Called(s)
    /\ UNCHANGED <<table, pending, fresh, gone, todo, base>>

\* upsert: the location is not there, so its row is added and flushed.
AddLocation(s) ==
    /\ Ready(s, "upsert")
    /\ LET l == Head(script[s]).at
       IN  /\ Location(l) \notin Visible(s)
           /\ pending' = [pending EXCEPT ![s] = {Location(l)}]
    /\ UNCHANGED <<table, script, phase, seen, fresh, gone, todo, base>>

\* upsert: the DELETE begins.  A faulty variant leaves alone what is not rewritten.
Levels(s, l) == {Item(l, k) : k \in SkusAt(s, l)}
Rewritten(s, c) == {Item(c.at, k) : k \in c.skus \cup (IF c.seen THEN seen[s][c.at] ELSE {})}
StartDelete_Listed(s) ==
    /\ Ready(s, "upsert")
    /\ LET c == Head(script[s])
       IN  /\ Location(c.at) \in Visible(s)
           /\ todo' = [todo EXCEPT ![s] = Levels(s, c.at) \cap Rewritten(s, c)]
           /\ base' = [base EXCEPT ![s] = [r \in Rows |-> IF r \in Levels(s, c.at) THEN table[r] ELSE @[r]]]
    /\ phase' = [phase EXCEPT ![s] = "deleting"]
    /\ UNCHANGED <<table, script, seen, pending, fresh, gone>>
StartDelete(s) ==
    /\ Ready(s, "upsert")
    /\ LET c == Head(script[s])
       IN  /\ Location(c.at) \in Visible(s)
           /\ todo' = [todo EXCEPT ![s] = Levels(s, c.at)]
           /\ base' = [base EXCEPT ![s] = [r \in Rows |-> IF r \in Levels(s, c.at) THEN table[r] ELSE @[r]]]
    /\ phase' = [phase EXCEPT ![s] = "deleting"]
    /\ UNCHANGED <<table, script, seen, pending, fresh, gone>>

Holders(s, r) == {t \in Sessions \ {s} : r \in fresh[t] \cup gone[t]}

\* The DELETE reaches a row: its own, one that is gone or rewritten meanwhile, or one
\* to lock, for which it waits.
DeleteRow(s) ==
    /\ phase[s] = "deleting"
    /\ \E r \in todo[s] :
         /\ todo' = [todo EXCEPT ![s] = @ \ {r}]
         /\ \/ r \in fresh[s]
               /\ fresh' = [fresh EXCEPT ![s] = @ \ {r}] /\ UNCHANGED gone
            \/ r \notin fresh[s] /\ table[r] # base[s][r]
               /\ UNCHANGED <<fresh, gone>>
            \/ r \notin fresh[s] /\ table[r] = base[s][r] /\ Holders(s, r) = {}
               /\ gone' = [gone EXCEPT ![s] = @ \cup {r}] /\ UNCHANGED fresh
    /\ UNCHANGED <<table, script, phase, seen, pending, base>>

\* upsert: the new levels are added to the session.
AddItems(s) ==
    /\ phase[s] = "deleting" /\ todo[s] = {}
    /\ pending' = [pending EXCEPT ![s] = Rewritten(s, Head(script[s]))]
    /\ phase' = [phase EXCEPT ![s] = "run"]
    /\ Called(s)
    /\ UNCHANGED <<table, seen, fresh, gone, todo, base>>

-----------------------------------------------------------------------------
(* The session *)

\* The rows of a flush that are next: parents go first.
Flushable(s) == {r \in pending[s] : Parents(r) \cap pending[s] = {}}

Taken(s, r) == table[r] # None /\ r \notin gone[s]
\* A faulty variant has no key on products.
Orphan_NoProduct(s, r) == \E p \in Parents(r) : p[1] # "product" /\ table[p] = None /\ p \notin fresh[s]
Orphan(s, r) == \E p \in Parents(r) : table[p] = None /\ p \notin fresh[s]
Refused(s) == \E r \in Flushable(s) : Holders(s, r) = {} /\ (Taken(s, r) \/ Orphan(s, r))

\* A flush inserts a row.  Faulty variants merge into the row they find, or run outside
\* a transaction.
InsertRow_Auto(s) ==
    /\ phase[s] = "run"
    /\ \E r \in Flushable(s) :
         /\ Holders(s, r) = {} /\ ~Taken(s, r) /\ ~Orphan(s, r)
         /\ table' = [table EXCEPT ![r] = s]
         /\ pending' = [pending EXCEPT ![s] = @ \ {r}]
    /\ UNCHANGED <<script, phase, seen, fresh, gone, todo, base>>
InsertRow_Merge(s) ==
    /\ phase[s] = "run"
    /\ \E r \in Flushable(s) :
         /\ Holders(s, r) = {} /\ ~Orphan(s, r)
         /\ fresh' = [fresh EXCEPT ![s] = @ \cup {r}]
         /\ pending' = [pending EXCEPT ![s] = @ \ {r}]
    /\ UNCHANGED <<table, script, phase, seen, gone, todo, base>>
InsertRow(s) ==
    /\ phase[s] = "run"
    /\ \E r \in Flushable(s) :
         /\ Holders(s, r) = {} /\ ~Taken(s, r) /\ ~Orphan(s, r)
         /\ fresh' = [fresh EXCEPT ![s] = @ \cup {r}]
         /\ pending' = [pending EXCEPT ![s] = @ \ {r}]
    /\ UNCHANGED <<table, script, phase, seen, gone, todo, base>>

\* What a session leaves when it ends.
Close(s, how) ==
    /\ phase' = [phase EXCEPT ![s] = how]
    /\ script' = [script EXCEPT ![s] = <<>>]
    /\ seen' = [seen EXCEPT ![s] = Unseen]
    /\ pending' = [pending EXCEPT ![s] = {}]
    /\ fresh' = [fresh EXCEPT ![s] = {}]
    /\ gone' = [gone EXCEPT ![s] = {}]
    /\ todo' = [todo EXCEPT ![s] = {}]
    /\ base' = [base EXCEPT ![s] = Nothing]

Commit(s) ==
    /\ phase[s] = "run" /\ script[s] = <<>> /\ pending[s] = {}
    /\ table' = [r \in Rows |-> IF r \in fresh[s] THEN s
                                ELSE IF r \in gone[s] THEN None ELSE table[r]]
    /\ Close(s, "ok")

\* The block raises: an integrity error, a deadlock's victim, anything of the caller.
\* session_scope rolls back.  A faulty variant only re-raises.
Fail_NoRollback(s) ==
    /\ Open(s)
    /\ phase' = [phase EXCEPT ![s] = "raised"]
    /\ UNCHANGED <<table, script, seen, pending, fresh, gone, todo, base>>
Fail(s) ==
    /\ Open(s)
    /\ Close(s, "raised")
    /\ UNCHANGED table

\* list of the inventories gives list.extend an Inventory, which is no sequence: it
\* raises as soon as there is a location.
ListStocks(s) ==
    /\ Ready(s, "stocks")
    /\ IF \A l \in Locations : Location(l) \notin Visible(s)
       THEN Called(s) /\ UNCHANGED <<phase, seen, pending, fresh, gone, todo, base>>
       ELSE Close(s, "raised")
    /\ UNCHANGED table

\* Whom a session waits for: every row it could go on with is held by another.
Wants(s) == IF phase[s] = "deleting" THEN {r \in todo[s] : table[r] = base[s][r]} ELSE Flushable(s)
WaitsFor(s) == IF Open(s) /\ Wants(s) # {} /\ \A r \in Wants(s) : Holders(s, r) # {}
               THEN UNION {Holders(s, r) : r \in Wants(s)} ELSE {}
Deadlocked(s) == \E S \in SUBSET Sessions : s \in S /\ \A t \in S : WaitsFor(t) \cap S # {}

Step(s) == \/ Begin(s) \/ AddProduct(s) \/ AddOrder(s) \/ ReadProducts(s) \/ Get(s)
           \/ SelectOrders(s) \/ LoadLines(s) \/ ListStocks(s) \/ AddLocation(s) \/ StartDelete(s)
           \/ DeleteRow(s) \/ AddItems(s) \/ InsertRow(s) \/ Commit(s)

AllEnded == (\A s \in Sessions : phase[s] \in {"ok", "raised"}) /\ UNCHANGED vars

Next == (\E s \in Sessions : Step(s) \/ Fail(s)) \/ AllEnded

Spec == Init /\ [][Next]_vars

\* Something that can go on does: a call, a refused flush that raises, or PostgreSQL's
\* detector, which breaks a cycle of waits.  (A session takes finitely many steps.)
Progress(s) == Step(s) \/ ((Refused(s) \/ Deadlocked(s)) /\ Fail(s))
FairSpec == Spec /\ WF_vars(\E s \in Sessions : Progress(s))

-----------------------------------------------------------------------------
\* Types; no row is in the table without the rows it refers to, and only levels are ever
\* deleted.  (models.py.)
TypeOK ==
    /\ table \in [Rows -> Writers] /\ script \in [Sessions -> Seq(Calls)]
    /\ phase \in [Sessions -> {"new", "run", "loading", "deleting", "ok", "raised"}]
    /\ seen \in [Sessions -> [Found -> SUBSET Skus]]
    /\ \A f \in {pending, fresh, gone, todo} : f \in [Sessions -> SUBSET Rows]
    /\ base \in [Sessions -> [Rows -> Writers]]
    /\ \A s \in Sessions : gone[s] \subseteq Items
    /\ \A r \in Rows : table[r] # None => \A p \in Parents(r) : table[p] # None

\* Two upserts at a time: a commit replaces a level only if it is the one its own
\* DELETE found; a level another session committed since makes it fail instead.
NoOverwrite ==
    [][\A s \in Sessions : phase[s] = "run" /\ phase'[s] = "ok" =>
          \A r \in fresh[s] : table[r] \in {None, base[s][r]}]_vars

\* A committed upsert leaves nothing of what its DELETE found: what the location then
\* has is its own, or was inserted by others since.
NothingStale ==
    [][\A s \in Sessions : phase[s] = "run" /\ phase'[s] = "ok" =>
          \A r \in Items : base[s][r] # None => table'[r] # base[s][r]]_vars

\* Orders are loaded by two queries, and each comes as somebody added it: never without
\* lines that were added with it.
OrdersWhole ==
    [][\A s \in Sessions : phase[s] = "loading" /\ phase'[s] = "run" =>
          \A o \in Head(script[s]).orders : \E c \in Scripts : \E i \in DOMAIN c :
                 c[i].op = "addOrder" /\ c[i].order = o /\ c[i].skus = seen'[s][o]]_vars

\* Every session that begins ends, whatever locks others hold.
SessionsEnd == <>[](\A s \in Sessions : ~Open(s))
=============================================================================
