-------------------------- MODULE UnitOfWorkProofs --------------------------
(***************************************************************************)
(* Theorems about UnitOfWork, for any sets of requests, SKUs, locations    *)
(* and calls.  All but SerialStock hold for any number of threads.         *)
(***************************************************************************)
EXTENDS UnitOfWork, SequenceTheorems, FiniteSetTheorems, TLAPS

-----------------------------------------------------------------------------
(* The inductive invariant behind type correctness *)

\* A frame below the running one waits in the dispatch loop for a handler.
Waiting(f) == f.pc \in {"dispatch", "dispatchNow"} /\ f.batch # <<>>

\* At pc, a frame with this call and this inventory.
Fits(call, inventory, pc) ==
    /\ call.op = "allocate" => pc \in {"getOrder", "getInventory"} \/ inventory \in Objects
    /\ pc \in {"getOrder", "getInventory", "precheck", "canFulfill", "load", "store"}
         => call.op = "allocate"
    /\ pc \in {"readProduct", "addOrder"} => call.op = "place"
    /\ pc = "addProduct" => call.op = "product"
    /\ pc = "upsert" => call.op \in {"stock", "allocate"}
    /\ pc \in {"publish", "buffer", "sinkNow"} => call.op \in {"place", "allocate"}

\* What the program counter says of a frame's call and locals.
FrameOK(f) ==
    /\ f \in Frame
    /\ Fits(f.call, f.inventory, f.pc)
    /\ f.pc \in {"load", "store"} => f.index <= Len(f.lines)
    /\ f.pc \in {"snapshot", "restore", "forget", "forgetRestored"} => f.index <= 3

StackOK(s) ==
    /\ s \in Seq(Frame)
    /\ \A i \in 1..Len(s) : FrameOK(s[i])
    /\ \A i \in 2..Len(s) : Waiting(s[i])

FramesOK == /\ frames \in [Requests -> Seq(Frame)]
            /\ \A r \in Requests : StackOK(frames[r])

IInv == TypeOK /\ FramesOK

-----------------------------------------------------------------------------
(* Stacks *)

LEMMA ReplaceTop ==
    ASSUME NEW s, StackOK(s), s # <<>>, NEW f, FrameOK(f)
    PROVE  /\ StackOK(<<f>> \o Tail(s))
           /\ <<f>> \o Tail(s) # <<>>
           /\ Head(<<f>> \o Tail(s)) = f
<1> DEFINE t == <<f>> \o Tail(s)
<1>1. s \in Seq(Frame) /\ f \in Frame
  BY DEF StackOK, FrameOK
<1>2. Tail(s) \in Seq(Frame) /\ Len(Tail(s)) = Len(s) - 1 /\ Len(s) \in Nat \ {0}
  BY <1>1
<1>3. t \in Seq(Frame) /\ Len(t) = Len(s)
  BY <1>1, <1>2
<1>4. t[1] = f /\ \A i \in 2..Len(s) : t[i] = s[i]
  BY <1>1, <1>2
<1> QED
  BY <1>2, <1>3, <1>4 DEF StackOK

LEMMA PushTop ==
    ASSUME NEW s, StackOK(s), s # <<>>, Waiting(Head(s)), NEW f, FrameOK(f)
    PROVE  /\ StackOK(<<f>> \o s)
           /\ <<f>> \o s # <<>>
           /\ Head(<<f>> \o s) = f
<1> DEFINE t == <<f>> \o s
<1>1. s \in Seq(Frame) /\ f \in Frame /\ Len(s) \in Nat \ {0} /\ Head(s) = s[1]
  BY DEF StackOK, FrameOK
<1>3. t \in Seq(Frame) /\ Len(t) = Len(s) + 1
  BY <1>1
<1>4. t[1] = f /\ \A i \in 2..(Len(s) + 1) : t[i] = s[i - 1]
  BY <1>1
<1>5. \A i \in 2..Len(t) : FrameOK(t[i]) /\ Waiting(t[i])
  BY <1>1, <1>3, <1>4 DEF StackOK
<1> QED
  BY <1>1, <1>3, <1>4, <1>5 DEF StackOK

\* The handler's frame is popped and the caller drops the event it handled.
Resumed(s) == LET caller == Head(Tail(s))
              IN  <<[caller EXCEPT !.batch = Tail(@)]>> \o Tail(Tail(s))

LEMMA PopTop ==
    ASSUME NEW s, StackOK(s), s # <<>>, Tail(s) # <<>>
    PROVE  /\ StackOK(Resumed(s))
           /\ Head(Head(Tail(s)).batch) \in Events
           /\ Head(Resumed(s)).pc \in {"dispatch", "dispatchNow"}
           /\ Resumed(s) # <<>>
<1> DEFINE u == Tail(s)
           h == Head(u)
           g == [h EXCEPT !.batch = Tail(@)]
<1>1. s \in Seq(Frame) /\ Len(s) \in Nat \ {0}
  BY DEF StackOK
<1>2. u \in Seq(Frame) /\ Len(u) = Len(s) - 1 /\ Len(u) \in Nat \ {0}
  <2>1. u \in Seq(Frame) /\ Len(u) = Len(s) - 1
    BY <1>1
  <2>2. Len(u) # 0
    BY <2>1, EmptySeq
  <2> QED
    BY <1>1, <2>1, <2>2
<1>3. \A i \in 1..Len(u) : u[i] = s[i + 1]
  BY <1>1, <1>2
<1>4. StackOK(u)
  BY <1>1, <1>2, <1>3 DEF StackOK
<1>5. h = s[2] /\ FrameOK(h) /\ Waiting(h)
  BY <1>1, <1>2, <1>3 DEF StackOK
<1>6. h \in Frame /\ h.batch \in Seq(Events) /\ h.batch # <<>>
  BY <1>5 DEF FrameOK, Frame, Waiting
<1>7. Tail(h.batch) \in Seq(Events) /\ Head(h.batch) \in Events
  BY <1>6
<1>8. g \in Frame /\ g.pc = h.pc /\ g.call = h.call /\ g.inventory = h.inventory
  BY <1>6, <1>7 DEF Frame
<1>9. FrameOK(g)
  BY <1>5, <1>8 DEF FrameOK, Fits, Waiting
<1>10. StackOK(<<g>> \o Tail(u)) /\ Head(<<g>> \o Tail(u)) = g /\ <<g>> \o Tail(u) # <<>>
  BY <1>4, <1>2, <1>9, ReplaceTop
<1> QED
  BY <1>5, <1>7, <1>8, <1>10 DEF Resumed, Waiting
-----------------------------------------------------------------------------
(* Threads *)

LEMMA TopOK ==
    ASSUME FramesOK, NEW r \in Requests, frames[r] # <<>>
    PROVE  FrameOK(Top(r)) /\ Top(r) \in Frame
<1>1. StackOK(frames[r]) /\ frames[r] \in Seq(Frame)
  BY DEF FramesOK
<1>2. Len(frames[r]) \in Nat \ {0} /\ Head(frames[r]) = frames[r][1]
  BY <1>1
<1>3. FrameOK(frames[r][1])
  BY <1>1, <1>2 DEF StackOK
<1> QED
  BY <1>2, <1>3 DEF Top, FrameOK

LEMMA BecomeOK ==
    ASSUME FramesOK, NEW r \in Requests, frames[r] # <<>>,
           NEW f, FrameOK(f), Become(r, f)
    PROVE  /\ FramesOK'
           /\ frames'[r] # <<>> /\ Head(frames'[r]) = f
           /\ \A q \in Requests \ {r} : frames'[q] = frames[q]
<1> DEFINE t == <<f>> \o Tail(frames[r])
<1>1. frames \in [Requests -> Seq(Frame)] /\ StackOK(frames[r])
  BY DEF FramesOK
<1>2. StackOK(t) /\ t # <<>> /\ Head(t) = f
  BY <1>1, ReplaceTop
<1>3. frames' = [frames EXCEPT ![r] = t]
  BY DEF Become
<1>4. t \in Seq(Frame)
  BY <1>2 DEF StackOK
<1>5. frames' \in [Requests -> Seq(Frame)] /\ frames'[r] = t
  BY <1>1, <1>3, <1>4
<1>6. \A q \in Requests \ {r} : frames'[q] = frames[q]
  BY <1>1, <1>3
<1>7. \A q \in Requests : StackOK(frames'[q])
  BY <1>2, <1>5, <1>6 DEF FramesOK
<1> QED
  BY <1>2, <1>5, <1>6, <1>7 DEF FramesOK

\* Goto(r, pc) keeps the frame well formed when pc suits the call.
LEMMA GotoFrame ==
    ASSUME NEW f, f \in Frame, NEW pc \in PCs
    PROVE  LET g == [f EXCEPT !.pc = pc, !.index = 1]
           IN  /\ g \in Frame /\ g.pc = pc /\ g.index = 1
               /\ g.call = f.call /\ g.lines = f.lines
               /\ g.inventory = f.inventory /\ g.batch = f.batch
<1> DEFINE g == [f EXCEPT !.pc = pc, !.index = 1]
<1>1. g \in Frame
  <2>1. 1 \in Nat \ {0}
    BY DEF Frame
  <2> QED
    BY <2>1 DEF Frame
<1>2. g.pc = pc /\ g.index = 1
  BY DEF Frame
<1> QED
  BY <1>1, <1>2 DEF Frame

LEMMA AdvanceFrame ==
    ASSUME NEW f, f \in Frame
    PROVE  LET g == [f EXCEPT !.index = @ + 1]
           IN  /\ g \in Frame /\ g.pc = f.pc /\ g.index = f.index + 1
               /\ g.call = f.call /\ g.lines = f.lines
               /\ g.inventory = f.inventory /\ g.batch = f.batch
<1> DEFINE g == [f EXCEPT !.index = @ + 1]
<1>1. g \in Frame
  <2>1. f.index + 1 \in Nat \ {0}
    BY DEF Frame
  <2> QED
    BY <2>1 DEF Frame
<1>2. g.pc = f.pc /\ g.index = f.index + 1
  BY DEF Frame
<1> QED
  BY <1>1, <1>2 DEF Frame

LEMMA NextLineFrame ==
    ASSUME NEW f, f \in Frame, NEW pc \in PCs
    PROVE  LET g == [f EXCEPT !.pc = pc, !.index = @ + 1, !.onHand = 0]
           IN  /\ g \in Frame /\ g.pc = pc /\ g.call = f.call
               /\ g.inventory = f.inventory
<1> DEFINE g == [f EXCEPT !.pc = pc, !.index = @ + 1, !.onHand = 0]
<1>1. f.index + 1 \in Nat \ {0} /\ 0 \in Int
  BY DEF Frame
<1>2. ASSUME NEW n \in Nat \ {0}, NEW h \in Int
      PROVE  [f EXCEPT !.pc = pc, !.index = n, !.onHand = h] \in Frame
  BY DEF Frame
<1>3. g \in Frame
  BY <1>1, <1>2
<1> QED
  BY <1>3 DEF Frame

LEMMA ReturnOK ==
    ASSUME TypeOK, FramesOK, NEW r \in Requests, frames[r] # <<>>,
           NEW outcome \in {"ok", "raised"}, Return(r, outcome)
    PROVE  /\ FramesOK'
           /\ result' \in [Requests -> {"none", "ok", "raised"}]
           /\ errors' \in SUBSET Events
           /\ frames'[r] # <<>> => Head(frames'[r]).pc \in {"dispatch", "dispatchNow"}
           /\ \A q \in Requests \ {r} : frames'[q] = frames[q]
<1>1. frames \in [Requests -> Seq(Frame)] /\ StackOK(frames[r])
  BY DEF FramesOK
<1>2. CASE Tail(frames[r]) = <<>>
  <2>1. frames' = [frames EXCEPT ![r] = <<>>] /\ UNCHANGED errors
        /\ result' = [result EXCEPT ![r] = outcome]
    BY <1>2 DEF Return
  <2>2. StackOK(<<>>)
    BY DEF StackOK
  <2>3. frames' \in [Requests -> Seq(Frame)] /\ frames'[r] = <<>>
        /\ \A q \in Requests \ {r} : frames'[q] = frames[q]
    BY <1>1, <2>1
  <2>4. FramesOK'
    BY <2>2, <2>3 DEF FramesOK
  <2> QED
    BY <2>1, <2>3, <2>4 DEF TypeOK
<1>3. CASE Tail(frames[r]) # <<>>
  <2> DEFINE t == Resumed(frames[r])
  <2>1. /\ StackOK(t) /\ t # <<>>
        /\ Head(Head(Tail(frames[r])).batch) \in Events
        /\ Head(t).pc \in {"dispatch", "dispatchNow"}
    BY <1>1, <1>3, PopTop
  <2>2. frames' = [frames EXCEPT ![r] = t] /\ UNCHANGED result
    BY <1>3 DEF Return, Resumed
  <2>3. errors' \in SUBSET Events
    BY <1>3, <2>1 DEF Return, TypeOK
  <2>4. t \in Seq(Frame)
    BY <2>1 DEF StackOK
  <2>5. frames' \in [Requests -> Seq(Frame)] /\ frames'[r] = t
        /\ \A q \in Requests \ {r} : frames'[q] = frames[q]
    BY <1>1, <2>2, <2>4
  <2>6. FramesOK'
    BY <2>1, <2>5 DEF FramesOK
  <2> QED
    BY <2>1, <2>2, <2>3, <2>5, <2>6 DEF TypeOK
<1> QED
  BY <1>2, <1>3

LEMMA GotoOK ==
    ASSUME FramesOK, NEW r \in Requests, frames[r] # <<>>,
           NEW pc \in PCs \ {"load", "store"}, Goto(r, pc),
           Fits(Top(r).call, Top(r).inventory, pc)
    PROVE  /\ FramesOK'
           /\ frames'[r] # <<>> /\ Top(r)'.pc = pc
           /\ \A q \in Requests \ {r} : frames'[q] = frames[q]
<1> DEFINE g == [Top(r) EXCEPT !.pc = pc, !.index = 1]
<1>1. FrameOK(Top(r)) /\ Top(r) \in Frame
  BY TopOK
<1>2. /\ g \in Frame /\ g.pc = pc /\ g.index = 1
      /\ g.call = Top(r).call /\ g.inventory = Top(r).inventory
  BY <1>1, GotoFrame
<1>3. FrameOK(g)
  BY <1>2 DEF FrameOK
<1>4. Become(r, g)
  BY DEF Goto
<1> QED
  BY <1>2, <1>3, <1>4, BecomeOK DEF Top

\* What the operation of a call says of its arguments.
LEMMA CallArguments ==
    ASSUME NEW c \in AllCalls
    PROVE  /\ c.op \in {"place", "allocate", "product", "stock"}
           /\ c.op = "place" => c.items \in Seq(Lines)
           /\ c.op = "allocate" => c.order \in Requests /\ c.location \in Locations
           /\ c.op = "product" => c.sku \in Skus /\ c.currency \in Currencies
           /\ c.op = "stock" => c.location \in Locations /\ c.levels \in [Skus -> Nat]
  BY DEF AllCalls, PlaceCalls, AllocateCalls, ProductCalls, StockCalls

LEMMA NewFrameOK ==
    ASSUME NEW c \in AllCalls
    PROVE  FrameOK(NewFrame(c))
<1> DEFINE f == NewFrame(c)
<1>1. c.op \in {"place", "allocate", "product", "stock"} /\ (c.op = "place" => c.items \in Seq(Lines))
  BY CallArguments
<1>2. FirstStep(c.op) \in PCs
  BY DEF FirstStep, PCs
<1>3. f.lines \in Seq(Lines)
  BY <1>1 DEF NewFrame
<1>4. /\ f.call = c /\ f.pc = FirstStep(c.op) /\ f.index = 1 /\ f.inventory = None
      /\ f.currencies = {} /\ f.onHand = 0 /\ f.batch = <<>>
  BY DEF NewFrame
<1>5. f \in Frame
  BY <1>2, <1>3, <1>4 DEF Frame, NewFrame
<1>6. Fits(c, None, FirstStep(c.op))
  BY <1>1 DEF Fits, FirstStep
<1>7. f.pc \in {"readProduct", "getOrder", "enter"}
  BY <1>4 DEF FirstStep
<1> QED
  BY <1>4, <1>5, <1>6, <1>7 DEF FrameOK

\* Storing an entry keeps a dictionary one.
LEMMA PutOK ==
    ASSUME NEW K, NEW V, NEW d, IsDict(d, K, V), NEW k \in K, NEW v \in V
    PROVE  IsDict(Put(d, k, v), K, V)
  BY DEF IsDict, Put

-----------------------------------------------------------------------------
(* The invariant is inductive: one lemma per part of the module, one step per *)
(* action.                                                                    *)

LEMMA InitType == Init => IInv
<1> SUFFICES ASSUME Init PROVE IInv
  OBVIOUS
<1> USE NamesAssumption, SeedAssumption
<1>1. IsProducts(repo.products) /\ IsOrders(repo.orders)
  BY DEF Init, IsProducts, IsOrders, IsDict
<1>2. IsInventories(repo.inventories)
  BY DEF Init, IsInventories, IsDict, Objects
<1>3. stock \in [Objects -> Levels]
  <2>1. \A x \in DOMAIN InitialStock : InitialStock[x] \in [Skus -> Int]
    BY DEF IsDict
  <2> QED
    BY <2>1 DEF Init, Levels
<1>4. StackOK(<<>>)
  BY DEF StackOK
<1>5. FramesOK
  BY <1>4 DEF Init, FramesOK
<1>6. DOMAIN repo = {"products", "orders", "inventories"} /\ DOMAIN snap = DOMAIN repo
  BY DEF Init
<1>7. snap.products = None /\ snap.orders = None /\ snap.inventories = None
  BY DEF Init
<1>8. /\ inContext \in BOOLEAN /\ committed \in BOOLEAN /\ errors \in SUBSET Events
      /\ pending \in Seq(Events) /\ sink \in Seq(Events) /\ sent \in Seq(Events)
  <2>1. inContext \in BOOLEAN /\ committed \in BOOLEAN
    BY Zenon DEF Init
  <2>2. pending = <<>> /\ sink = <<>> /\ sent = <<>> /\ errors = {}
    BY DEF Init
  <2> QED
    BY <2>1, <2>2
<1>9. /\ calls \in [Requests -> Calls \cup {None}]
      /\ result \in [Requests -> {"none", "ok", "raised"}]
  BY DEF Init
<1>10. TypeOK
  BY <1>1, <1>2, <1>3, <1>5, <1>6, <1>7, <1>8, <1>9 DEF TypeOK, FramesOK
<1> QED
  BY <1>5, <1>10 DEF IInv

LEMMA ReceiveType ==
    ASSUME IInv, NEW r \in Requests, NEW c \in Calls, Receive(r, c)
    PROVE  IInv'
<1>1. c \in AllCalls
  BY CallsAssumption
<1>2. FrameOK(NewFrame(c)) /\ NewFrame(c) \in Frame
  BY <1>1, NewFrameOK DEF FrameOK
<1>3. StackOK(<<NewFrame(c)>>) /\ <<NewFrame(c)>> \in Seq(Frame)
  BY <1>2 DEF StackOK
<1>4. FramesOK'
  BY <1>3 DEF IInv, FramesOK, Receive
<1>5. stock' \in [Objects -> Levels]
  <2>1. c.op = "stock" => c.levels \in Levels
    BY <1>1, CallArguments DEF Levels
  <2> QED
    BY <2>1 DEF IInv, TypeOK, Receive
<1>6. TypeOK'
  BY <1>4, <1>5 DEF IInv, TypeOK, FramesOK, Receive, uow, logs
<1> QED
  BY <1>4, <1>6 DEF IInv

LEMMA PlaceType ==
    ASSUME IInv, NEW r \in Requests, ReadProduct(r) \/ CreateOrder(r) \/ RefuseOrder(r)
    PROVE  IInv'
<1>1. frames[r] # <<>> /\ Top(r).pc = "readProduct" /\ FramesOK
  BY DEF IInv, ReadProduct, CreateOrder, RefuseOrder, At
<1>2. FrameOK(Top(r)) /\ Top(r) \in Frame /\ Top(r).call.op = "place"
  BY <1>1, TopOK DEF FrameOK, Fits
<1>3. CASE ReadProduct(r)
  <2> DEFINE g == [Top(r) EXCEPT !.index = @ + 1,
                     !.currencies = @ \cup {repo.products[Line(r).sku]}]
  <2>1. repo.products[Line(r).sku] \in Currencies
    BY <1>3 DEF IInv, TypeOK, IsProducts, IsDict, ReadProduct, Orderable
  <2>2. Top(r).index + 1 \in Nat \ {0}
        /\ Top(r).currencies \cup {repo.products[Line(r).sku]} \in SUBSET Currencies
    BY <1>2, <2>1 DEF Frame
  <2>3. g \in Frame /\ g.pc = Top(r).pc /\ g.call = Top(r).call
        /\ g.inventory = Top(r).inventory
    BY <1>2, <2>2 DEF Frame
  <2>4. FrameOK(g)
    BY <1>1, <1>2, <2>3 DEF FrameOK
  <2>5. FramesOK'
    BY <1>1, <1>3, <2>4, BecomeOK DEF ReadProduct
  <2> QED
    BY <1>3, <2>5 DEF IInv, TypeOK, FramesOK, ReadProduct, stores, uow, logs
<1>4. CASE CreateOrder(r)
  <2>1. Fits(Top(r).call, Top(r).inventory, "enter") /\ "enter" \in PCs \ {"load", "store"}
    BY <1>2 DEF Fits, PCs
  <2>2. FramesOK'
    BY <1>1, <1>4, <2>1, GotoOK DEF CreateOrder
  <2> QED
    BY <1>4, <2>2 DEF IInv, TypeOK, FramesOK, CreateOrder, stores, uow, logs
<1>5. CASE RefuseOrder(r)
  <2>1. FramesOK' /\ result' \in [Requests -> {"none", "ok", "raised"}] /\ errors' \in SUBSET Events
    BY <1>1, <1>5, ReturnOK DEF IInv, RefuseOrder
  <2> QED
    BY <1>5, <2>1 DEF IInv, TypeOK, FramesOK, RefuseOrder, stores, uow
<1> QED
  BY <1>3, <1>4, <1>5

LEMMA AllocateType ==
    ASSUME IInv, NEW r \in Requests, GetOrder(r) \/ GetInventory(r) \/ Precheck(r)
    PROVE  IInv'
<1>1. frames[r] # <<>> /\ FramesOK /\ Top(r).pc \in {"getOrder", "getInventory", "precheck"}
  BY DEF IInv, GetOrder, GetInventory, Precheck, At
<1>2. FrameOK(Top(r)) /\ Top(r) \in Frame /\ Top(r).call.op = "allocate"
  BY <1>1, TopOK DEF FrameOK, Fits
<1>3. ASSUME NEW outcome \in {"ok", "raised"}, Return(r, outcome)
      PROVE  FramesOK' /\ result' \in [Requests -> {"none", "ok", "raised"}]
             /\ errors' \in SUBSET Events
  BY <1>1, <1>3, ReturnOK DEF IInv
<1>4. CASE GetOrder(r)
  <2> DEFINE o == Top(r).call.order
             g == [Top(r) EXCEPT !.pc = "getInventory", !.lines = repo.orders[o]]
  <2>1. CASE o \in DOMAIN repo.orders /\ Become(r, g) /\ UNCHANGED <<result, errors>>
    <3>1. repo.orders[o] \in Seq(Lines) /\ "getInventory" \in PCs
      BY <2>1 DEF IInv, TypeOK, IsOrders, IsDict, PCs
    <3>2. g \in Frame /\ g.pc = "getInventory" /\ g.call = Top(r).call
          /\ g.inventory = Top(r).inventory
      BY <1>2, <3>1 DEF Frame
    <3>3. FrameOK(g)
      BY <1>2, <3>2 DEF FrameOK, Fits
    <3>4. FramesOK'
      BY <1>1, <2>1, <3>3, BecomeOK
    <3> QED
      BY <1>4, <2>1, <3>4 DEF IInv, TypeOK, FramesOK, GetOrder, stores, uow
  <2>2. CASE Return(r, "raised")
    BY <1>3, <1>4, <2>2 DEF IInv, TypeOK, FramesOK, GetOrder, stores, uow
  <2> QED
    BY <1>4, <2>1, <2>2 DEF GetOrder
<1>5. CASE GetInventory(r)
  <2> DEFINE l == Top(r).call.location
             g == [Top(r) EXCEPT !.pc = "precheck", !.inventory = repo.inventories[l]]
  <2>1. CASE l \in DOMAIN repo.inventories /\ Become(r, g) /\ UNCHANGED <<result, errors>>
    <3>1. repo.inventories[l] \in Objects /\ "precheck" \in PCs
      BY <2>1 DEF IInv, TypeOK, IsInventories, IsDict, PCs
    <3>2. g \in Frame /\ g.pc = "precheck" /\ g.call = Top(r).call
          /\ g.inventory = repo.inventories[l]
      BY <1>2, <3>1 DEF Frame
    <3>3. FrameOK(g)
      BY <1>2, <3>1, <3>2 DEF FrameOK, Fits
    <3>4. FramesOK'
      BY <1>1, <2>1, <3>3, BecomeOK
    <3> QED
      BY <1>5, <2>1, <3>4 DEF IInv, TypeOK, FramesOK, GetInventory, stores, uow
  <2>2. CASE Return(r, "raised")
    BY <1>3, <1>5, <2>2 DEF IInv, TypeOK, FramesOK, GetInventory, stores, uow
  <2> QED
    BY <1>5, <2>1, <2>2 DEF GetInventory
<1>6. CASE Precheck(r)
  <2>1. CASE Advance(r) /\ UNCHANGED <<result, errors>>
    <3> DEFINE g == [Top(r) EXCEPT !.index = @ + 1]
    <3>1. g \in Frame /\ g.pc = Top(r).pc /\ g.call = Top(r).call
          /\ g.inventory = Top(r).inventory
      BY <1>2, AdvanceFrame
    <3>2. FrameOK(g)
      BY <1>1, <1>2, <3>1 DEF FrameOK
    <3>3. FramesOK'
      BY <1>1, <2>1, <3>2, BecomeOK DEF Advance
    <3> QED
      BY <1>6, <2>1, <3>3 DEF IInv, TypeOK, FramesOK, Precheck, stores, uow
  <2>2. CASE Return(r, "raised")
    BY <1>3, <1>6, <2>2 DEF IInv, TypeOK, FramesOK, Precheck, stores, uow
  <2>3. CASE Goto(r, "enter") /\ UNCHANGED <<result, errors>>
    <3>1. Top(r).pc = "precheck" /\ "enter" \in PCs \ {"load", "store"}
      BY <1>6 DEF Precheck, At, PCs
    <3>2. Fits(Top(r).call, Top(r).inventory, "enter")
      BY <1>2, <3>1 DEF FrameOK, Fits
    <3>3. FramesOK'
      BY <1>1, <2>3, <3>1, <3>2, GotoOK
    <3> QED
      BY <1>6, <2>3, <3>3 DEF IInv, TypeOK, FramesOK, Precheck, stores, uow
  <2> QED
    BY <1>6, <2>1, <2>2, <2>3 DEF Precheck
<1> QED
  BY <1>4, <1>5, <1>6

\* A snapshot step or a cleared snapshot keeps the types of the three dictionaries.
SnapOK(t) == /\ DOMAIN t = {"products", "orders", "inventories"}
             /\ t.products = None \/ IsProducts(t.products)
             /\ t.orders = None \/ IsOrders(t.orders)
             /\ t.inventories = None \/ IsInventories(t.inventories)

LEMMA ReposOK == \A k \in Nat \ {0} : k <= 3 => Repos[k] \in {"products", "orders", "inventories"}
<1>1. \A k \in Nat \ {0} : k <= 3 => k = 1 \/ k = 2 \/ k = 3
  OBVIOUS
<1>2. Repos[1] = "products" /\ Repos[2] = "orders" /\ Repos[3] = "inventories"
  BY DEF Repos
<1> QED
  BY <1>1, <1>2

\* The running frame in a loop over the three repositories: its next step.
LEMMA RepoLoop ==
    ASSUME FramesOK, NEW r \in Requests, frames[r] # <<>>, NEW pc \in PCs \ {"load", "store"},
           Top(r).pc \in {"snapshot", "restore", "forget", "forgetRestored"},
           Fits(Top(r).call, Top(r).inventory, pc),
           IF Top(r).index < Len(Repos) THEN Advance(r) ELSE Goto(r, pc)
    PROVE  /\ FramesOK'
           /\ frames'[r] # <<>> /\ Top(r)'.pc \in {Top(r).pc, pc}
           /\ \A q \in Requests \ {r} : frames'[q] = frames[q]
<1> DEFINE g == [Top(r) EXCEPT !.index = @ + 1]
<1>1. FrameOK(Top(r)) /\ Top(r) \in Frame
  BY TopOK
<1>2. Len(Repos) = 3
  BY DEF Repos
<1>3. CASE Top(r).index < 3
  <2>1. g \in Frame /\ g.pc = Top(r).pc /\ g.index = Top(r).index + 1
        /\ g.call = Top(r).call /\ g.inventory = Top(r).inventory
    BY <1>1, AdvanceFrame
  <2>2. Top(r).index \in Nat
    BY <1>1 DEF Frame
  <2>3. g.index <= 3 /\ Fits(g.call, g.inventory, g.pc) /\ g.pc \notin {"load", "store"}
    BY <1>1, <1>3, <2>1, <2>2 DEF FrameOK
  <2>4. FrameOK(g)
    BY <2>1, <2>3 DEF FrameOK
  <2>5. Become(r, g)
    BY <1>2, <1>3 DEF Advance
  <2> QED
    BY <2>1, <2>4, <2>5, BecomeOK DEF Top
<1>4. CASE ~(Top(r).index < 3)
  BY <1>2, <1>4, GotoOK
<1> QED
  BY <1>3, <1>4

LEMMA EnterType ==
    ASSUME IInv, NEW r \in Requests, Enter(r) \/ TakeSnapshot(r) \/ ClearPending(r)
    PROVE  IInv'
<1>1. frames[r] # <<>> /\ FramesOK /\ Top(r).pc \in {"enter", "snapshot", "clearPending"}
  BY DEF IInv, Enter, TakeSnapshot, ClearPending, At
<1>2. FrameOK(Top(r)) /\ Top(r) \in Frame /\ Top(r).call \in AllCalls
  BY <1>1, TopOK DEF Frame
<1>3. \A pc \in {"snapshot", "clearPending"} :
         pc \in PCs \ {"load", "store"} /\ Fits(Top(r).call, Top(r).inventory, pc)
  BY <1>1, <1>2 DEF FrameOK, Fits, PCs
<1>4. CASE Enter(r)
  <2>1. FramesOK'
    BY <1>1, <1>3, <1>4, GotoOK DEF Enter
  <2>2. inContext' \in BOOLEAN /\ committed' \in BOOLEAN
    BY <1>4, Zenon DEF Enter
  <2> QED
    BY <1>4, <2>1, <2>2 DEF IInv, TypeOK, FramesOK, Enter, stores, logs
<1>5. CASE TakeSnapshot(r)
  <2>1. Top(r).pc = "snapshot"
    BY <1>5 DEF TakeSnapshot, At
  <2>2. FramesOK'
    BY <1>1, <1>3, <1>5, <2>1, RepoLoop DEF TakeSnapshot
  <2>3. SnapOK(snap')
    <3> DEFINE k == Top(r).index
    <3>1. k = 1 \/ k = 2 \/ k = 3
      BY <1>2, <2>1 DEF FrameOK, Frame
    <3>2. snap' = [snap EXCEPT ![Repos[k]] = repo[Repos[k]]]
      BY <1>5 DEF TakeSnapshot
    <3>3. SnapOK(snap) /\ IsProducts(repo.products) /\ IsOrders(repo.orders)
          /\ IsInventories(repo.inventories)
      BY DEF IInv, TypeOK, SnapOK
    <3> QED
      BY <3>1, <3>2, <3>3 DEF SnapOK, Repos
  <2> QED
    BY <1>5, <2>2, <2>3 DEF IInv, TypeOK, FramesOK, SnapOK, TakeSnapshot, stores, logs
<1>6. CASE ClearPending(r)
  <2>1. Top(r).pc = "clearPending"
    BY <1>6 DEF ClearPending, At
  <2>2. Top(r).call.op \in {"place", "allocate", "product", "stock"}
    BY <1>2, CallArguments
  <2>3. BodyStep(Top(r).call.op) \in PCs \ {"load", "store"}
        /\ Fits(Top(r).call, Top(r).inventory, BodyStep(Top(r).call.op))
    BY <1>2, <2>1, <2>2 DEF BodyStep, PCs, FrameOK, Fits
  <2>4. FramesOK'
    BY <1>1, <1>6, <2>3, GotoOK DEF ClearPending
  <2>5. pending' \in Seq(Events)
    BY <1>6 DEF ClearPending
  <2> QED
    BY <1>6, <2>4, <2>5 DEF IInv, TypeOK, FramesOK, ClearPending, stores, logs
<1> QED
  BY <1>4, <1>5, <1>6

\* What is announced is an event, where something is announced.
LEMMA AnnouncementOK ==
    ASSUME FramesOK, NEW r \in Requests, frames[r] # <<>>,
           Top(r).pc \in {"publish", "buffer", "sinkNow"}
    PROVE  Announcement(r) \in Events
<1>1. FrameOK(Top(r)) /\ Top(r).call \in AllCalls
  BY TopOK DEF Frame
<1>2. Top(r).call.op \in {"place", "allocate"}
  BY <1>1 DEF FrameOK, Fits
<1>3. Top(r).call.op = "allocate" =>
        Top(r).call.order \in Requests /\ Top(r).call.location \in Locations
  BY <1>1, CallArguments
<1>4. CASE Top(r).call.op = "place"
  BY <1>4 DEF Announcement, Events
<1>5. CASE Top(r).call.op = "allocate"
  BY <1>3, <1>5 DEF Announcement, Events
<1> QED
  BY <1>2, <1>4, <1>5

LEMMA StoreBodyType ==
    ASSUME IInv, NEW r \in Requests, AddProduct(r) \/ AddOrder(r) \/ UpsertInventory(r)
    PROVE  IInv'
<1>1. frames[r] # <<>> /\ FramesOK /\ Top(r).pc \in {"addProduct", "addOrder", "upsert"}
  BY DEF IInv, AddProduct, AddOrder, UpsertInventory, At
<1>2. FrameOK(Top(r)) /\ Top(r) \in Frame /\ Top(r).call \in AllCalls
  BY <1>1, TopOK DEF Frame
<1>3. \A pc \in {"publish", "copyPending"} : pc \in PCs \ {"load", "store"}
  BY DEF PCs
<1>4. Fits(Top(r).call, Top(r).inventory, "copyPending")
  BY <1>1, <1>2 DEF FrameOK, Fits
<1>5. IsProducts(repo.products) /\ IsOrders(repo.orders) /\ IsInventories(repo.inventories)
      /\ DOMAIN repo = {"products", "orders", "inventories"}
  BY DEF IInv, TypeOK
<1>6. CASE AddProduct(r)
  <2> DEFINE d == Put(repo.products, Top(r).call.sku, Top(r).call.currency)
  <2>1. Top(r).call.sku \in Skus /\ Top(r).call.currency \in Currencies
    BY <1>2, <1>6, CallArguments DEF AddProduct, At, FrameOK, Fits
  <2>2. IsProducts(d)
    BY <1>5, <2>1, PutOK DEF IsProducts
  <2>3. FramesOK'
    BY <1>1, <1>3, <1>4, <1>6, GotoOK DEF AddProduct
  <2>4. repo' = [repo EXCEPT !.products = d]
    BY <1>6 DEF AddProduct
  <2>5. DOMAIN repo' = DOMAIN repo /\ repo'.products = d /\ repo'.orders = repo.orders
        /\ repo'.inventories = repo.inventories
    BY <1>5, <2>4
  <2> QED
    BY <1>6, <2>2, <2>3, <2>5 DEF IInv, TypeOK, FramesOK, AddProduct, uow, logs
<1>7. CASE AddOrder(r)
  <2> DEFINE d == Put(repo.orders, r, Top(r).lines)
  <2>1. Top(r).lines \in Seq(Lines)
    BY <1>2 DEF Frame
  <2>2. IsOrders(d)
    BY <1>5, <2>1, PutOK DEF IsOrders
  <2>3. Fits(Top(r).call, Top(r).inventory, "publish")
    BY <1>2, <1>7 DEF AddOrder, At, FrameOK, Fits
  <2>4. FramesOK'
    BY <1>1, <1>3, <1>7, <2>3, GotoOK DEF AddOrder
  <2>5. repo' = [repo EXCEPT !.orders = d]
    BY <1>7 DEF AddOrder
  <2>6. DOMAIN repo' = DOMAIN repo /\ repo'.orders = d /\ repo'.products = repo.products
        /\ repo'.inventories = repo.inventories
    BY <1>5, <2>5
  <2> QED
    BY <1>7, <2>2, <2>4, <2>6 DEF IInv, TypeOK, FramesOK, AddOrder, uow, logs
<1>8. CASE UpsertInventory(r)
  <2> DEFINE object == IF Top(r).call.op = "stock" THEN r ELSE Top(r).inventory
             d == Put(repo.inventories, Top(r).call.location, object)
             next == IF Top(r).call.op = "stock" THEN "copyPending" ELSE "publish"
  <2>1. Top(r).pc = "upsert" /\ Top(r).call.op \in {"stock", "allocate"}
    BY <1>2, <1>8 DEF UpsertInventory, At, FrameOK, Fits
  <2>2. Top(r).call.location \in Locations /\ object \in Objects
    BY <1>2, <2>1, CallArguments DEF FrameOK, Fits, Objects
  <2>3. IsInventories(d)
    BY <1>5, <2>2, PutOK DEF IsInventories
  <2>4. Fits(Top(r).call, Top(r).inventory, next) /\ next \in PCs \ {"load", "store"}
    BY <1>2, <1>3, <2>1 DEF FrameOK, Fits
  <2>5. repo' = [repo EXCEPT !.inventories = d] /\ Goto(r, next)
    BY <1>8 DEF UpsertInventory
  <2>6. FramesOK'
    BY <1>1, <2>4, <2>5, GotoOK
  <2>7. DOMAIN repo' = DOMAIN repo /\ repo'.inventories = d /\ repo'.products = repo.products
        /\ repo'.orders = repo.orders
    BY <1>5, <2>5
  <2> QED
    BY <1>8, <2>3, <2>6, <2>7 DEF IInv, TypeOK, FramesOK, UpsertInventory, uow, logs
<1> QED
  BY <1>6, <1>7, <1>8

\* The line an allocation is at, with the entry of its inventory for that line.
LEMMA LineOK ==
    ASSUME IInv, NEW r \in Requests, frames[r] # <<>>,
           Top(r).pc \in {"canFulfill", "load", "store"}, LinesLeft(r)
    PROVE  /\ Line(r).sku \in Skus /\ Line(r).quantity \in Int
           /\ Top(r).inventory \in Objects /\ Available(r) \in Int
<1>1. FrameOK(Top(r)) /\ Top(r) \in Frame
  BY TopOK DEF IInv
<1>2. Top(r).lines \in Seq(Lines) /\ Top(r).index \in Nat \ {0}
      /\ Top(r).index <= Len(Top(r).lines)
  BY <1>1 DEF Frame, LinesLeft
<1>3. Line(r) \in Lines
  BY <1>2, ElementOfSeq DEF Line
<1>4. Top(r).inventory \in Objects
  BY <1>1 DEF FrameOK, Fits
<1>5. stock[Top(r).inventory] \in [Skus -> Int]
  BY <1>4 DEF IInv, TypeOK, Levels
<1> QED
  BY <1>3, <1>4, <1>5 DEF Lines, Available

LEMMA InPlaceType ==
    ASSUME IInv, NEW r \in Requests, CanFulfill(r) \/ LoadOnHand(r) \/ StoreOnHand(r)
    PROVE  IInv'
<1>1. frames[r] # <<>> /\ FramesOK /\ Top(r).pc \in {"canFulfill", "load", "store"}
  BY DEF IInv, CanFulfill, LoadOnHand, StoreOnHand, At
<1>2. FrameOK(Top(r)) /\ Top(r) \in Frame /\ Top(r).call.op = "allocate"
  BY <1>1, TopOK DEF FrameOK, Fits
<1>3. Top(r).pc \in {"load", "store"} => LinesLeft(r)
  BY <1>2 DEF FrameOK, LinesLeft
<1>4. \A pc \in {"upsert", "load", "rollback", "store", "canFulfill"} :
         pc \in PCs /\ Fits(Top(r).call, Top(r).inventory, pc)
  BY <1>1, <1>2 DEF FrameOK, Fits, PCs
<1>5. CASE CanFulfill(r)
  <2> DEFINE pc == IF ~LinesLeft(r) THEN "upsert"
                   ELSE IF Available(r) >= Line(r).quantity THEN "load" ELSE "rollback"
             g == [Top(r) EXCEPT !.pc = pc]
  <2>1. pc \in PCs /\ Fits(Top(r).call, Top(r).inventory, pc) /\ (pc = "load" => LinesLeft(r))
        /\ pc \in {"upsert", "load", "rollback"}
    BY <1>4
  <2> HIDE DEF pc
  <2>2. g \in Frame /\ g.pc = pc /\ g.call = Top(r).call /\ g.inventory = Top(r).inventory
        /\ g.index = Top(r).index /\ g.lines = Top(r).lines
    BY <1>2, <2>1 DEF Frame
  <2>3. FrameOK(g)
    BY <2>1, <2>2 DEF FrameOK, LinesLeft
  <2>4. Become(r, g)
    BY <1>5 DEF CanFulfill, pc
  <2>5. FramesOK'
    BY <1>1, <2>3, <2>4, BecomeOK
  <2> QED
    BY <1>5, <2>5 DEF IInv, TypeOK, FramesOK, CanFulfill, stores, uow, logs
<1>6. CASE LoadOnHand(r)
  <2> DEFINE g == [Top(r) EXCEPT !.pc = "store", !.onHand = Available(r)]
  <2>1. Available(r) \in Int /\ LinesLeft(r)
    BY <1>1, <1>3, <1>6, LineOK DEF LoadOnHand, At
  <2>2. g \in Frame /\ g.pc = "store" /\ g.call = Top(r).call /\ g.inventory = Top(r).inventory
        /\ g.index = Top(r).index /\ g.lines = Top(r).lines
    BY <1>2, <1>4, <2>1 DEF Frame
  <2>3. FrameOK(g)
    BY <1>4, <2>1, <2>2 DEF FrameOK, LinesLeft
  <2>4. FramesOK'
    BY <1>1, <1>6, <2>3, BecomeOK DEF LoadOnHand
  <2> QED
    BY <1>6, <2>4 DEF IInv, TypeOK, FramesOK, LoadOnHand, stores, uow, logs
<1>7. CASE StoreOnHand(r)
  <2> DEFINE g == [Top(r) EXCEPT !.pc = "canFulfill", !.index = @ + 1, !.onHand = 0]
  <2>1. Line(r).sku \in Skus /\ Line(r).quantity \in Int /\ Top(r).inventory \in Objects
    BY <1>1, <1>3, <1>7, LineOK DEF StoreOnHand, At
  <2>2. Top(r).index + 1 \in Nat \ {0} /\ Top(r).onHand \in Int
    BY <1>2 DEF Frame
  <2>3. g \in Frame /\ g.pc = "canFulfill" /\ g.call = Top(r).call
        /\ g.inventory = Top(r).inventory
    BY <1>2, <1>4, <2>2, NextLineFrame
  <2>4. FrameOK(g)
    BY <1>4, <2>3 DEF FrameOK
  <2>5. FramesOK'
    BY <1>1, <1>7, <2>4, BecomeOK DEF StoreOnHand
  <2>6. stock' \in [Objects -> Levels]
    BY <1>7, <2>1, <2>2 DEF IInv, TypeOK, Levels, StoreOnHand
  <2> QED
    BY <1>7, <2>5, <2>6 DEF IInv, TypeOK, FramesOK, StoreOnHand, uow, logs
<1> QED
  BY <1>5, <1>6, <1>7

LEMMA PublishType ==
    ASSUME IInv, NEW r \in Requests, Publish(r) \/ Buffer(r) \/ SinkNow(r)
    PROVE  IInv'
<1>1. frames[r] # <<>> /\ FramesOK /\ Top(r).pc \in {"publish", "buffer", "sinkNow"}
  BY DEF IInv, Publish, Buffer, SinkNow, At
<1>2. FrameOK(Top(r)) /\ Top(r) \in Frame
  BY <1>1, TopOK
<1>3. Announcement(r) \in Events
  BY <1>1, AnnouncementOK
<1>4. \A pc \in {"buffer", "sinkNow", "copyPending", "dispatchNow"} :
         pc \in PCs \ {"load", "store"} /\ Fits(Top(r).call, Top(r).inventory, pc)
  BY <1>1, <1>2 DEF FrameOK, Fits, PCs
<1>5. CASE Publish(r)
  <2>1. PICK pc \in {"buffer", "sinkNow"} : Goto(r, pc)
    BY <1>5 DEF Publish
  <2>2. FramesOK'
    BY <1>1, <1>4, <2>1, GotoOK
  <2> QED
    BY <1>5, <2>2 DEF IInv, TypeOK, FramesOK, Publish, stores, uow, logs
<1>6. CASE Buffer(r)
  <2>1. FramesOK'
    BY <1>1, <1>4, <1>6, GotoOK DEF Buffer
  <2>2. pending' \in Seq(Events)
    BY <1>3, <1>6 DEF IInv, TypeOK, Buffer
  <2> QED
    BY <1>6, <2>1, <2>2 DEF IInv, TypeOK, FramesOK, Buffer, stores, logs
<1>7. CASE SinkNow(r)
  <2> DEFINE g == [Top(r) EXCEPT !.pc = "dispatchNow", !.batch = <<Announcement(r)>>]
  <2>1. <<Announcement(r)>> \in Seq(Events) /\ sink' \in Seq(Events)
    BY <1>3, <1>7 DEF IInv, TypeOK, SinkNow
  <2>2. g \in Frame /\ g.pc = "dispatchNow" /\ g.call = Top(r).call
        /\ g.inventory = Top(r).inventory
    BY <1>2, <1>4, <2>1 DEF Frame
  <2>3. FrameOK(g)
    BY <1>4, <2>2 DEF FrameOK
  <2>4. FramesOK'
    BY <1>1, <1>7, <2>3, BecomeOK DEF SinkNow
  <2> QED
    BY <1>7, <2>1, <2>4 DEF IInv, TypeOK, FramesOK, SinkNow, stores, uow
<1> QED
  BY <1>5, <1>6, <1>7

LEMMA CommitType ==
    ASSUME IInv, NEW r \in Requests,
           \/ CopyPending(r) \/ ExtendSink(r) \/ DiscardPending(r)
           \/ ClearSnapshot(r) \/ SetCommitted(r)
    PROVE  IInv'
<1>1. frames[r] # <<>> /\ FramesOK
      /\ Top(r).pc \in {"copyPending", "extendSink", "discard", "forget", "forgetRestored",
                        "setCommitted"}
  BY DEF IInv, CopyPending, ExtendSink, DiscardPending, ClearSnapshot, SetCommitted, At
<1>2. FrameOK(Top(r)) /\ Top(r) \in Frame
  BY <1>1, TopOK
<1>3. \A pc \in {"extendSink", "discard", "forget", "forgetRestored", "setCommitted",
                 "dispatch", "rolledBack"} :
         pc \in PCs \ {"load", "store"} /\ Fits(Top(r).call, Top(r).inventory, pc)
  BY <1>1, <1>2 DEF FrameOK, Fits, PCs
<1>4. CASE CopyPending(r)
  <2> DEFINE g == [Top(r) EXCEPT !.pc = "extendSink", !.batch = pending]
  <2>1. g \in Frame /\ g.pc = "extendSink" /\ g.call = Top(r).call
        /\ g.inventory = Top(r).inventory
    BY <1>2, <1>3 DEF IInv, TypeOK, Frame
  <2>2. FrameOK(g)
    BY <1>3, <2>1 DEF FrameOK
  <2>3. FramesOK'
    BY <1>1, <1>4, <2>2, BecomeOK DEF CopyPending
  <2> QED
    BY <1>4, <2>3 DEF IInv, TypeOK, FramesOK, CopyPending, stores, uow, logs
<1>5. CASE ExtendSink(r)
  <2>1. FramesOK'
    BY <1>1, <1>3, <1>5, GotoOK DEF ExtendSink
  <2>2. Top(r).batch \in Seq(Events)
    BY <1>2 DEF Frame
  <2>3. sink' \in Seq(Events)
    BY <1>5, <2>2 DEF IInv, TypeOK, ExtendSink
  <2> QED
    BY <1>5, <2>1, <2>3 DEF IInv, TypeOK, FramesOK, ExtendSink, stores, uow
<1>6. CASE DiscardPending(r)
  <2>1. FramesOK'
    BY <1>1, <1>3, <1>6, GotoOK DEF DiscardPending
  <2>2. pending' \in Seq(Events)
    BY <1>6 DEF DiscardPending
  <2> QED
    BY <1>6, <2>1, <2>2 DEF IInv, TypeOK, FramesOK, DiscardPending, stores, logs
<1>7. CASE ClearSnapshot(r)
  <2>1. Top(r).pc \in {"forget", "forgetRestored"}
    BY <1>7 DEF ClearSnapshot, At
  <2>2. PICK pc \in {"setCommitted", "rolledBack"} :
          IF Top(r).index < Len(Repos) THEN Advance(r) ELSE Goto(r, pc)
    BY <1>7 DEF ClearSnapshot
  <2>3. FramesOK'
    BY <1>1, <1>3, <2>1, <2>2, RepoLoop
  <2>4. SnapOK(snap')
    <3> DEFINE k == Top(r).index
    <3>1. k = 1 \/ k = 2 \/ k = 3
      BY <1>2, <2>1 DEF FrameOK, Frame
    <3>2. snap' = [snap EXCEPT ![Repos[k]] = None]
      BY <1>7 DEF ClearSnapshot
    <3>3. SnapOK(snap)
      BY DEF IInv, TypeOK, SnapOK
    <3> QED
      BY <3>1, <3>2, <3>3 DEF SnapOK, Repos
  <2> QED
    BY <1>7, <2>3, <2>4 DEF IInv, TypeOK, FramesOK, SnapOK, ClearSnapshot, stores, logs
<1>8. CASE SetCommitted(r)
  <2>1. FramesOK'
    BY <1>1, <1>3, <1>8, GotoOK DEF SetCommitted
  <2>2. committed' \in BOOLEAN
    BY <1>8, Zenon DEF SetCommitted
  <2> QED
    BY <1>8, <2>1, <2>2 DEF IInv, TypeOK, FramesOK, SetCommitted, stores, logs
<1> QED
  BY <1>4, <1>5, <1>6, <1>7, <1>8

LEMMA DispatchType ==
    ASSUME IInv, NEW r \in Requests, Notify(r) \/ CallAllocate(r) \/ EndDispatch(r)
    PROVE  IInv'
<1>1. frames[r] # <<>> /\ FramesOK /\ Top(r).pc \in {"dispatch", "dispatchNow"}
  BY DEF IInv, Notify, CallAllocate, EndDispatch, Dispatching, At
<1>2. FrameOK(Top(r)) /\ Top(r) \in Frame /\ Top(r).batch \in Seq(Events)
  BY <1>1, TopOK DEF Frame
<1>3. \A pc \in {"exit", "copyPending"} :
         pc \in PCs \ {"load", "store"} /\ Fits(Top(r).call, Top(r).inventory, pc)
  BY <1>1, <1>2 DEF FrameOK, Fits, PCs
<1>4. ASSUME Top(r).batch # <<>>
      PROVE  Head(Top(r).batch) \in Events /\ Tail(Top(r).batch) \in Seq(Events)
  BY <1>2, <1>4
<1>5. CASE Notify(r)
  <2> DEFINE g == [Top(r) EXCEPT !.batch = Tail(@)]
  <2>1. Head(Top(r).batch) \in Events /\ Tail(Top(r).batch) \in Seq(Events)
    BY <1>4, <1>5 DEF Notify
  <2>2. g \in Frame /\ g.pc = Top(r).pc /\ g.call = Top(r).call
        /\ g.inventory = Top(r).inventory
    BY <1>2, <2>1 DEF Frame
  <2>3. FrameOK(g)
    BY <1>1, <1>2, <2>2 DEF FrameOK
  <2>4. FramesOK'
    BY <1>1, <1>5, <2>3, BecomeOK DEF Notify
  <2>5. sent' \in Seq(Events)
    BY <1>5, <2>1 DEF IInv, TypeOK, Notify
  <2> QED
    BY <1>5, <2>4, <2>5 DEF IInv, TypeOK, FramesOK, Notify, stores, uow
<1>6. CASE CallAllocate(r)
  <2> DEFINE e == Head(Top(r).batch)
             c == [op |-> "allocate", order |-> e.order, location |-> DefaultLocation]
             t == <<NewFrame(c)>> \o frames[r]
  <2>1. e \in Events /\ Top(r).batch # <<>>
    BY <1>4, <1>6 DEF CallAllocate
  <2>2. e.order \in Requests
    BY <2>1 DEF Events, OrderPlaced, StockAllocated
  <2>3. c \in AllCalls
    BY <2>2, NamesAssumption DEF AllCalls, AllocateCalls
  <2>4. FrameOK(NewFrame(c))
    BY <2>3, NewFrameOK
  <2>5. StackOK(frames[r]) /\ frames \in [Requests -> Seq(Frame)]
    BY <1>1 DEF FramesOK
  <2>6. StackOK(t)
    BY <1>1, <2>1, <2>4, <2>5, PushTop DEF Waiting, Top
  <2>7. frames' = [frames EXCEPT ![r] = t]
    BY <1>6 DEF CallAllocate
  <2>8. FramesOK'
    BY <1>1, <2>5, <2>6, <2>7 DEF FramesOK, StackOK
  <2> QED
    BY <1>6, <2>8 DEF IInv, TypeOK, FramesOK, CallAllocate, stores, uow, logs
<1>7. CASE EndDispatch(r)
  <2>1. PICK pc \in {"exit", "copyPending"} :
          Become(r, [Top(r) EXCEPT !.pc = pc, !.batch = <<>>])
    BY <1>7 DEF EndDispatch
  <2> DEFINE g == [Top(r) EXCEPT !.pc = pc, !.batch = <<>>]
  <2>2. g \in Frame /\ g.pc = pc /\ g.call = Top(r).call /\ g.inventory = Top(r).inventory
    <3>1. pc \in PCs /\ <<>> \in Seq(Events)
      BY <1>3
    <3> QED
      BY <1>2, <3>1 DEF Frame
  <2>3. FrameOK(g)
    BY <1>3, <2>2 DEF FrameOK
  <2>4. FramesOK'
    BY <1>1, <2>1, <2>3, BecomeOK
  <2> QED
    BY <1>7, <2>4 DEF IInv, TypeOK, FramesOK, EndDispatch, stores, uow, logs
<1> QED
  BY <1>5, <1>6, <1>7

LEMMA RollbackType ==
    ASSUME IInv, NEW r \in Requests, Rollback(r) \/ Restore(r) \/ RolledBack(r) \/ Exit(r)
    PROVE  IInv'
<1>1. frames[r] # <<>> /\ FramesOK
      /\ Top(r).pc \in {"rollback", "restore", "rolledBack", "exit", "exitRaising"}
  BY DEF IInv, Rollback, Restore, RolledBack, Exit, At
<1>2. FrameOK(Top(r)) /\ Top(r) \in Frame
  BY <1>1, TopOK
<1>3. \A pc \in {"restore", "forgetRestored", "rolledBack", "exitRaising"} :
         pc \in PCs \ {"load", "store"} /\ Fits(Top(r).call, Top(r).inventory, pc)
  BY <1>1, <1>2 DEF FrameOK, Fits, PCs
<1>4. CASE Rollback(r)
  <2>1. PICK pc \in {"rolledBack", "restore"} : Goto(r, pc)
    BY <1>4 DEF Rollback
  <2>2. FramesOK'
    BY <1>1, <1>3, <2>1, GotoOK
  <2> QED
    BY <1>4, <2>2 DEF IInv, TypeOK, FramesOK, Rollback, stores, uow, logs
<1>5. CASE Restore(r)
  <2> DEFINE k == Top(r).index
             old == snap[Repos[k]]
  <2>1. Top(r).pc = "restore"
    BY <1>5 DEF Restore, At
  <2>2. k = 1 \/ k = 2 \/ k = 3
    BY <1>2, <2>1 DEF FrameOK, Frame
  <2>3. CASE /\ old # None
             /\ repo' = [repo EXCEPT ![Repos[k]] = old]
             /\ IF k < Len(Repos) THEN Advance(r) ELSE Goto(r, "forgetRestored")
    <3>1. FramesOK'
      BY <1>1, <1>3, <2>1, <2>3, RepoLoop
    <3>2. /\ DOMAIN repo' = {"products", "orders", "inventories"}
          /\ IsProducts(repo'.products) /\ IsOrders(repo'.orders)
          /\ IsInventories(repo'.inventories)
      <4>1. SnapOK(snap)
        BY DEF IInv, TypeOK, SnapOK
      <4> QED
        BY <2>2, <2>3, <4>1 DEF IInv, TypeOK, SnapOK, Repos
    <3> QED
      BY <1>5, <3>1, <3>2 DEF IInv, TypeOK, FramesOK, Restore, uow, logs
  <2>4. CASE Goto(r, "exitRaising") /\ UNCHANGED repo
    <3>1. FramesOK'
      BY <1>1, <1>3, <2>4, GotoOK
    <3> QED
      BY <1>5, <2>4, <3>1 DEF IInv, TypeOK, FramesOK, Restore, uow, logs
  <2> QED
    BY <1>5, <2>3, <2>4 DEF Restore
<1>6. CASE RolledBack(r)
  <2>1. FramesOK'
    BY <1>1, <1>3, <1>6, GotoOK DEF RolledBack
  <2>2. pending' \in Seq(Events)
    BY <1>6 DEF RolledBack
  <2>3. committed' \in BOOLEAN
    BY <1>6, Zenon DEF RolledBack
  <2> QED
    BY <1>6, <2>1, <2>2, <2>3 DEF IInv, TypeOK, FramesOK, RolledBack, stores, logs
<1>7. CASE Exit(r)
  <2>1. FramesOK' /\ result' \in [Requests -> {"none", "ok", "raised"}]
        /\ errors' \in SUBSET Events
    BY <1>1, <1>7, ReturnOK DEF IInv, Exit
  <2>2. inContext' \in BOOLEAN
    BY <1>7, Zenon DEF Exit
  <2> QED
    BY <1>7, <2>1, <2>2 DEF IInv, TypeOK, FramesOK, Exit, stores
<1> QED
  BY <1>4, <1>5, <1>6, <1>7

LEMMA IInvNext == IInv /\ [Next]_vars => IInv'
<1> SUFFICES ASSUME IInv, [Next]_vars PROVE IInv'
  OBVIOUS
<1>1. ASSUME NEW r \in Requests, Step(r) PROVE IInv'
  BY <1>1, PlaceType, AllocateType, EnterType, StoreBodyType, InPlaceType, PublishType,
     CommitType, DispatchType, RollbackType DEF Step
<1>2. ASSUME NEW r \in Requests, NEW c \in Calls, Receive(r, c) PROVE IInv'
  BY <1>2, ReceiveType
<1>3. CASE UNCHANGED vars
  BY <1>3 DEF IInv, TypeOK, FramesOK, vars
<1> QED
  BY <1>1, <1>2, <1>3 DEF Next, AllServed

LEMMA Inductive == Spec => []IInv
  BY InitType, IInvNext, PTL DEF Spec

\* Whatever threads overlap, the repositories hold what they are declared to,
\* an event list holds events, and every frame is where its call can be.
THEOREM TypeCorrect == Spec => []TypeOK
<1>1. IInv => TypeOK
  BY DEF IInv
<1> QED
  BY <1>1, Inductive, PTL

-----------------------------------------------------------------------------
(* How a step moves the stack of its thread *)

Before == {"readProduct", "getOrder", "getInventory", "precheck", "enter"}

\* Thread r has a unit of work open, in its running frame or below it.
Inside(r) == frames[r] # <<>> /\ (Tail(frames[r]) # <<>> \/ Top(r).pc \notin Before)

LEMMA ReplaceShape ==
    ASSUME NEW s \in Seq(Frame), s # <<>>, NEW f
    PROVE  LET t == <<f>> \o Tail(s) IN t # <<>> /\ Head(t) = f /\ Tail(t) = Tail(s)
<1> DEFINE F == Frame \cup {f}
           u == Tail(s)
           t == <<f>> \o u
<1>1. u \in Seq(Frame) /\ Frame \subseteq F
  OBVIOUS
<1>2. u \in Seq(F) /\ <<f>> \in Seq(F) /\ Len(<<f>>) = 1 /\ <<f>>[1] = f
  BY <1>1, SeqMonotonic
<1> HIDE DEF u, F
<1>3. t \in Seq(F) /\ Len(t) = Len(u) + 1 /\ t[1] = f
      /\ \A i \in 1..Len(u) : t[i + 1] = u[i]
  BY <1>2
<1>4. t # <<>> /\ Head(t) = f
  BY <1>2, <1>3
<1>5. Tail(t) \in Seq(F) /\ Len(Tail(t)) = Len(u)
      /\ \A i \in 1..Len(u) : Tail(t)[i] = u[i]
  BY <1>2, <1>3, <1>4
<1>6. Tail(t) = u
  BY <1>2, <1>5, SeqEqual
<1> QED
  BY <1>4, <1>6 DEF u

LEMMA BecomeShape ==
    ASSUME FramesOK, NEW r \in Requests, frames[r] # <<>>, NEW f, Become(r, f)
    PROVE  /\ frames'[r] # <<>> /\ Top(r)' = f /\ Tail(frames'[r]) = Tail(frames[r])
           /\ \A q \in Requests \ {r} : frames'[q] = frames[q]
<1>1. frames \in [Requests -> Seq(Frame)]
  BY DEF FramesOK
<1>2. frames'[r] = <<f>> \o Tail(frames[r])
      /\ \A q \in Requests \ {r} : frames'[q] = frames[q]
  BY <1>1 DEF Become
<1> QED
  BY <1>1, <1>2, ReplaceShape DEF Top

LEMMA GotoShape ==
    ASSUME FramesOK, NEW r \in Requests, frames[r] # <<>>, NEW pc, Goto(r, pc)
    PROVE  /\ frames'[r] # <<>> /\ Top(r)'.pc = pc /\ Tail(frames'[r]) = Tail(frames[r])
           /\ \A q \in Requests \ {r} : frames'[q] = frames[q]
<1>1. Top(r) \in Frame
  BY TopOK
<1>2. [Top(r) EXCEPT !.pc = pc, !.index = 1].pc = pc
  BY <1>1 DEF Frame
<1> QED
  BY <1>2, BecomeShape DEF Goto

LEMMA AdvanceShape ==
    ASSUME FramesOK, NEW r \in Requests, frames[r] # <<>>, Advance(r)
    PROVE  /\ frames'[r] # <<>> /\ Top(r)'.pc = Top(r).pc /\ Tail(frames'[r]) = Tail(frames[r])
           /\ \A q \in Requests \ {r} : frames'[q] = frames[q]
<1>1. Top(r) \in Frame
  BY TopOK
<1>2. [Top(r) EXCEPT !.index = @ + 1].pc = Top(r).pc
  BY <1>1 DEF Frame
<1> QED
  BY <1>2, BecomeShape DEF Advance

LEMMA ReturnShape ==
    ASSUME TypeOK, FramesOK, NEW r \in Requests, frames[r] # <<>>,
           NEW outcome \in {"ok", "raised"}, Return(r, outcome)
    PROVE  /\ \A q \in Requests \ {r} : frames'[q] = frames[q]
           /\ \/ Tail(frames[r]) = <<>> /\ frames'[r] = <<>>
              \/ /\ Tail(frames[r]) # <<>> /\ frames'[r] # <<>>
                 /\ Top(r)'.pc \in {"dispatch", "dispatchNow"}
<1>1. frames \in [Requests -> Seq(Frame)] /\ StackOK(frames[r])
  BY DEF FramesOK
<1>2. CASE Tail(frames[r]) = <<>>
  BY <1>1, <1>2, ReturnOK DEF Return
<1>3. CASE Tail(frames[r]) # <<>>
  <2>1. frames'[r] = Resumed(frames[r])
    BY <1>1, <1>3 DEF Return, Resumed
  <2>2. Resumed(frames[r]) # <<>>
    BY <1>1, <1>3, PopTop
  <2> QED
    BY <1>3, <2>1, <2>2, ReturnOK DEF Top
<1> QED
  BY <1>2, <1>3

LEMMA PushShape ==
    ASSUME NEW s \in Seq(Frame), NEW f \in Frame
    PROVE  LET t == <<f>> \o s IN t # <<>> /\ Head(t) = f /\ Tail(t) = s
<1> DEFINE t == <<f>> \o s
<1>1. t \in Seq(Frame) /\ Len(t) = Len(s) + 1 /\ t[1] = f
      /\ \A i \in 1..Len(s) : t[i + 1] = s[i]
  OBVIOUS
<1>2. t # <<>> /\ Head(t) = f
  BY <1>1
<1>3. Tail(t) \in Seq(Frame) /\ Len(Tail(t)) = Len(s)
      /\ \A i \in 1..Len(s) : Tail(t)[i] = s[i]
  BY <1>1, <1>2
<1>4. Tail(t) = s
  BY <1>3, SeqEqual
<1> QED
  BY <1>2, <1>4

\* The running frame of r moves on in place: it does not go back before its
\* `with` statement, nor to the read or the write of an allocation.
Moved(r) ==
    /\ frames'[r] # <<>> /\ Tail(frames'[r]) = Tail(frames[r])
    /\ Top(r)'.pc \in Before => Top(r).pc \in Before
    /\ Top(r)'.pc \notin {"load", "store"}

\* The running frame of r returns.
Returned(r) ==
    \/ Tail(frames[r]) = <<>> /\ frames'[r] = <<>>
    \/ Tail(frames[r]) # <<>> /\ frames'[r] # <<>> /\ Top(r)'.pc \in {"dispatch", "dispatchNow"}

Others(r) == \A q \in Requests \ {r} : frames'[q] = frames[q]

LEMMA EarlyMoves ==
    ASSUME IInv, NEW r \in Requests,
           \/ ReadProduct(r) \/ CreateOrder(r) \/ RefuseOrder(r)
           \/ GetOrder(r) \/ GetInventory(r) \/ Precheck(r)
    PROVE  Others(r) /\ frames[r] # <<>> /\ Top(r).pc \in Before /\ (Moved(r) \/ Returned(r))
<1>1. frames[r] # <<>> /\ FramesOK /\ TypeOK
      /\ Top(r).pc \in {"readProduct", "getOrder", "getInventory", "precheck"}
  BY DEF IInv, ReadProduct, CreateOrder, RefuseOrder, GetOrder, GetInventory, Precheck, At
<1>2. Top(r) \in Frame /\ Top(r).pc \in Before
  BY <1>1, TopOK DEF Before
<1>3. ASSUME Return(r, "raised") PROVE Others(r) /\ Returned(r)
  BY <1>1, <1>3, ReturnShape DEF Others, Returned
<1>4. ASSUME NEW f, f.pc \in Before, Become(r, f) PROVE Others(r) /\ Moved(r)
  BY <1>1, <1>2, <1>4, BecomeShape DEF Others, Moved, Before
<1>5. ASSUME Goto(r, "enter") \/ Advance(r) PROVE Others(r) /\ Moved(r)
  BY <1>1, <1>2, <1>5, GotoShape, AdvanceShape DEF Others, Moved, Before
<1>6. CASE ReadProduct(r)
  <2> DEFINE g == [Top(r) EXCEPT !.index = @ + 1,
                     !.currencies = @ \cup {repo.products[Line(r).sku]}]
  <2>1. g.pc = Top(r).pc /\ Become(r, g)
    BY <1>2, <1>6 DEF Frame, ReadProduct
  <2> QED
    BY <1>1, <1>2, <1>4, <2>1
<1>7. CASE GetOrder(r)
  <2> DEFINE g == [Top(r) EXCEPT !.pc = "getInventory",
                                 !.lines = repo.orders[Top(r).call.order]]
  <2>1. g.pc = "getInventory" /\ (Become(r, g) \/ Return(r, "raised"))
    BY <1>2, <1>7 DEF Frame, GetOrder
  <2> HIDE DEF g
  <2>2. g.pc \in Before
    BY <2>1 DEF Before
  <2>3. Others(r) /\ (Moved(r) \/ Returned(r))
    BY <1>3, <1>4, <2>1, <2>2
  <2> QED
    BY <1>1, <1>2, <2>3
<1>8. CASE GetInventory(r)
  <2> DEFINE g == [Top(r) EXCEPT !.pc = "precheck",
                                 !.inventory = repo.inventories[Top(r).call.location]]
  <2>1. g.pc = "precheck" /\ (Become(r, g) \/ Return(r, "raised"))
    BY <1>2, <1>8 DEF Frame, GetInventory
  <2> HIDE DEF g
  <2>2. g.pc \in Before
    BY <2>1 DEF Before
  <2>3. Others(r) /\ (Moved(r) \/ Returned(r))
    BY <1>3, <1>4, <2>1, <2>2
  <2> QED
    BY <1>1, <1>2, <2>3
<1>9. CASE CreateOrder(r) \/ RefuseOrder(r) \/ Precheck(r)
  BY <1>1, <1>2, <1>3, <1>5, <1>9 DEF CreateOrder, RefuseOrder, Precheck
<1> QED
  BY <1>6, <1>7, <1>8, <1>9

LEMMA InsideMoves ==
    ASSUME IInv, NEW r \in Requests,
           \/ TakeSnapshot(r) \/ ClearPending(r) \/ AddProduct(r) \/ AddOrder(r)
           \/ UpsertInventory(r) \/ StoreOnHand(r) \/ Publish(r) \/ Buffer(r) \/ SinkNow(r)
           \/ CopyPending(r) \/ ExtendSink(r) \/ DiscardPending(r) \/ ClearSnapshot(r)
           \/ SetCommitted(r) \/ Notify(r) \/ EndDispatch(r)
           \/ Rollback(r) \/ Restore(r) \/ RolledBack(r) \/ Enter(r)
    PROVE  Others(r) /\ frames[r] # <<>> /\ Moved(r)
<1>1. frames[r] # <<>> /\ FramesOK
  BY DEF IInv, TakeSnapshot, ClearPending, AddProduct, AddOrder, UpsertInventory, StoreOnHand,
     Publish, Buffer, SinkNow, CopyPending, ExtendSink, DiscardPending, ClearSnapshot,
     SetCommitted, Notify, EndDispatch, Dispatching, Rollback, Restore, RolledBack, Enter, At
<1>2. Top(r) \in Frame /\ Top(r).call \in AllCalls
  BY <1>1, TopOK DEF Frame
<1> DEFINE Later == PCs \ (Before \cup {"load", "store"})
<1>3. ASSUME NEW pc \in Later, Goto(r, pc) PROVE Others(r) /\ Moved(r)
  BY <1>1, <1>3, GotoShape DEF Others, Moved
<1>4. ASSUME Top(r).pc \in Later, Advance(r) PROVE Others(r) /\ Moved(r)
  BY <1>1, <1>4, AdvanceShape DEF Others, Moved
<1>5. ASSUME NEW f, f.pc \in Later, Become(r, f) PROVE Others(r) /\ Moved(r)
  BY <1>1, <1>5, BecomeShape DEF Others, Moved
<1>6. /\ \A pc \in {"snapshot", "clearPending", "copyPending", "publish", "buffer", "sinkNow",
                    "discard", "forget", "setCommitted", "rolledBack", "dispatch",
                    "restore", "forgetRestored", "exitRaising", "canFulfill", "dispatchNow",
                    "extendSink", "exit"} : pc \in Later
  BY DEF PCs, Before
<1>7. CASE \/ Enter(r) \/ AddProduct(r) \/ AddOrder(r) \/ Buffer(r) \/ ExtendSink(r)
           \/ DiscardPending(r) \/ SetCommitted(r) \/ RolledBack(r)
  BY <1>1, <1>3, <1>6, <1>7
     DEF Enter, AddProduct, AddOrder, Buffer, ExtendSink, DiscardPending, SetCommitted, RolledBack
<1>8. CASE UpsertInventory(r) \/ Publish(r) \/ Rollback(r)
  <2>1. PICK pc \in {"copyPending", "publish", "buffer", "sinkNow", "rolledBack", "restore"} :
          Goto(r, pc)
    BY <1>8 DEF UpsertInventory, Publish, Rollback
  <2> QED
    BY <1>1, <1>3, <1>6, <2>1
<1>9. CASE TakeSnapshot(r) \/ ClearSnapshot(r) \/ Restore(r)
  <2>1. Top(r).pc \in {"snapshot", "forget", "forgetRestored", "restore"}
    BY <1>9 DEF TakeSnapshot, ClearSnapshot, Restore, At
  <2>2. Advance(r) \/ \E pc \in {"clearPending", "setCommitted", "rolledBack",
                                 "forgetRestored", "exitRaising"} : Goto(r, pc)
    <3>1. \/ Advance(r) \/ Goto(r, "clearPending") \/ Goto(r, "setCommitted")
          \/ Goto(r, "rolledBack") \/ Goto(r, "forgetRestored") \/ Goto(r, "exitRaising")
      BY <1>9 DEF TakeSnapshot, ClearSnapshot, Restore
    <3> QED
      BY <3>1
  <2> QED
    BY <1>1, <1>3, <1>4, <1>6, <2>1, <2>2
<1>10. CASE ClearPending(r)
  <2>1. BodyStep(Top(r).call.op) \in {"addOrder", "canFulfill", "addProduct", "upsert"}
    <3>1. Top(r).call.op \in {"place", "allocate", "product", "stock"}
      BY <1>2, CallArguments
    <3> QED
      BY <3>1 DEF BodyStep
  <2>2. BodyStep(Top(r).call.op) \in Later
    BY <2>1 DEF PCs, Before
  <2> QED
    BY <1>1, <1>3, <1>10, <2>2 DEF ClearPending
<1>11. CASE StoreOnHand(r)
  <2> DEFINE g == [Top(r) EXCEPT !.pc = "canFulfill", !.index = @ + 1, !.onHand = 0]
  <2>1. g.pc = "canFulfill" /\ Become(r, g)
    BY <1>2, <1>11 DEF Frame, StoreOnHand
  <2> QED
    BY <1>1, <1>5, <1>6, <2>1
<1>12. CASE SinkNow(r) \/ CopyPending(r) \/ EndDispatch(r)
  <2>1. PICK pc \in {"dispatchNow", "extendSink", "exit", "copyPending"} :
          \E b : Become(r, [Top(r) EXCEPT !.pc = pc, !.batch = b])
    BY <1>12 DEF SinkNow, CopyPending, EndDispatch
  <2>2. PICK b : Become(r, [Top(r) EXCEPT !.pc = pc, !.batch = b])
    BY <2>1
  <2>3. [Top(r) EXCEPT !.pc = pc, !.batch = b].pc = pc
    BY <1>2 DEF Frame
  <2> QED
    BY <1>1, <1>5, <1>6, <2>1, <2>2, <2>3
<1>13. CASE Notify(r)
  <2>1. Top(r).pc \in {"dispatch", "dispatchNow"} /\ Become(r, [Top(r) EXCEPT !.batch = Tail(@)])
    BY <1>13 DEF Notify, Dispatching, At
  <2>2. [Top(r) EXCEPT !.batch = Tail(@)].pc = Top(r).pc
    BY <1>2 DEF Frame
  <2> QED
    BY <1>1, <1>5, <1>6, <2>1, <2>2
<1> QED
  BY <1>1, <1>7, <1>8, <1>9, <1>10, <1>11, <1>12, <1>13

LEMMA AllocationMoves ==
    ASSUME IInv, NEW r \in Requests, CanFulfill(r) \/ LoadOnHand(r)
    PROVE  /\ Others(r) /\ frames[r] # <<>> /\ frames'[r] # <<>>
           /\ Tail(frames'[r]) = Tail(frames[r])
           /\ CanFulfill(r) => Top(r)'.pc \in {"upsert", "load", "rollback"}
           /\ LoadOnHand(r) => Top(r)'.pc = "store"
<1>1. frames[r] # <<>> /\ FramesOK
  BY DEF IInv, CanFulfill, LoadOnHand, At
<1>2. Top(r) \in Frame
  BY <1>1, TopOK
<1>3. CASE CanFulfill(r)
  <2>1. PICK pc \in {"upsert", "load", "rollback"} : Become(r, [Top(r) EXCEPT !.pc = pc])
    BY <1>3 DEF CanFulfill
  <2>2. [Top(r) EXCEPT !.pc = pc].pc = pc
    BY <1>2 DEF Frame
  <2>3. ~LoadOnHand(r)
    BY <1>3 DEF CanFulfill, LoadOnHand, At
  <2> QED
    BY <1>1, <2>1, <2>2, <2>3, BecomeShape DEF Others
<1>4. CASE LoadOnHand(r)
  <2>1. Become(r, [Top(r) EXCEPT !.pc = "store", !.onHand = Available(r)])
    BY <1>4 DEF LoadOnHand
  <2>2. [Top(r) EXCEPT !.pc = "store", !.onHand = Available(r)].pc = "store"
    BY <1>2 DEF Frame
  <2>3. ~CanFulfill(r)
    BY <1>4 DEF CanFulfill, LoadOnHand, At
  <2> QED
    BY <1>1, <2>1, <2>2, <2>3, BecomeShape DEF Others
<1> QED
  BY <1>3, <1>4

LEMMA CallMoves ==
    ASSUME IInv, NEW r \in Requests, CallAllocate(r)
    PROVE  /\ Others(r) /\ frames[r] # <<>> /\ frames'[r] # <<>>
           /\ Tail(frames'[r]) # <<>> /\ Top(r)'.pc = "getOrder"
<1> DEFINE e == Head(Top(r).batch)
           c == [op |-> "allocate", order |-> e.order, location |-> DefaultLocation]
<1>1. frames[r] # <<>> /\ FramesOK /\ Top(r).batch # <<>>
  BY DEF IInv, CallAllocate, Dispatching, At
<1>2. Top(r) \in Frame
  BY <1>1, TopOK
<1>3. e \in Events
  BY <1>1, <1>2 DEF Frame
<1>4. e.order \in Requests
  BY <1>3 DEF Events, OrderPlaced, StockAllocated
<1>5. c \in AllCalls
  BY <1>4, NamesAssumption DEF AllCalls, AllocateCalls
<1>6. NewFrame(c) \in Frame /\ NewFrame(c).pc = "getOrder"
  BY <1>5, NewFrameOK DEF FrameOK, NewFrame, FirstStep
<1>7. frames \in [Requests -> Seq(Frame)]
      /\ frames' = [frames EXCEPT ![r] = <<NewFrame(c)>> \o frames[r]]
  BY <1>1 DEF FramesOK, CallAllocate
<1>8. Others(r) /\ frames'[r] = <<NewFrame(c)>> \o frames[r] /\ frames[r] \in Seq(Frame)
  BY <1>7 DEF Others
<1> HIDE DEF c
<1> QED
  BY <1>1, <1>6, <1>8, PushShape DEF Top

LEMMA ExitMoves ==
    ASSUME IInv, NEW r \in Requests, Exit(r)
    PROVE  Others(r) /\ frames[r] # <<>> /\ Returned(r)
  BY ReturnShape DEF IInv, Exit, At, Others, Returned

-----------------------------------------------------------------------------
(* No unit of work is left open, however many threads overlap *)

Flushing(q) == frames[q] # <<>> /\ Top(q).pc \in {"copyPending", "extendSink", "discard"}

\* The context flag is up only while some thread is in its `with` block, a
\* buffered event has a thread that will still clear the buffer, and a thread
\* serves a request that has arrived.
QuietInv ==
    /\ inContext => \E q \in Requests : Inside(q)
    /\ pending # <<>> => \E q \in Requests : Flushing(q)
    /\ \A q \in Requests : frames[q] # <<>> => calls[q] # None

LEMMA StepShape ==
    ASSUME IInv, NEW r \in Requests, Step(r)
    PROVE  Others(r) /\ frames[r] # <<>> /\ UNCHANGED calls
<1>1. Others(r) /\ frames[r] # <<>>
  BY EarlyMoves, InsideMoves, AllocationMoves, CallMoves, ExitMoves DEF Step
<1>2. UNCHANGED calls
  BY DEF Step, ReadProduct, CreateOrder, RefuseOrder, GetOrder, GetInventory,
     Precheck, Enter, TakeSnapshot, ClearPending, AddProduct, AddOrder, UpsertInventory,
     CanFulfill, LoadOnHand, StoreOnHand, Publish, Buffer, SinkNow, CopyPending, ExtendSink,
     DiscardPending, ClearSnapshot, SetCommitted, Notify, CallAllocate, EndDispatch,
     Rollback, Restore, RolledBack, Exit
<1> QED
  BY <1>1, <1>2

LEMMA InsideStays ==
    ASSUME IInv, NEW r \in Requests, Step(r), ~Exit(r), NEW q \in Requests, Inside(q)
    PROVE  Inside(q)'
<1>1. CASE q # r
  <2>1. Others(r)
    BY StepShape
  <2> QED
    BY <1>1, <2>1 DEF Others, Inside, Top
<1>2. CASE q = r
  <2>1. ASSUME Moved(r) PROVE Inside(r)'
    BY <1>2, <2>1 DEF Moved, Inside
  <2>2. ASSUME Returned(r), Top(r).pc \in Before PROVE Inside(r)'
    BY <1>2, <2>2 DEF Returned, Inside, Before
  <2>3. ASSUME CanFulfill(r) \/ LoadOnHand(r) PROVE Inside(r)'
    BY <1>2, <2>3, AllocationMoves DEF Inside, Before
  <2>4. ASSUME CallAllocate(r) PROVE Inside(r)'
    BY <2>4, CallMoves DEF Inside
  <2> QED
    BY <1>2, <2>1, <2>2, <2>3, <2>4, EarlyMoves, InsideMoves DEF Step
<1> QED
  BY <1>1, <1>2

LEMMA FlushingStays ==
    ASSUME IInv, NEW r \in Requests, Step(r), NEW q \in Requests, Flushing(q), pending' # <<>>
    PROVE  Flushing(q)'
<1>1. CASE q # r
  <2>1. Others(r)
    BY StepShape
  <2> QED
    BY <1>1, <2>1 DEF Others, Flushing, Top
<1>2. CASE q = r
  <2>1. FramesOK /\ frames[r] # <<>> /\ Top(r) \in Frame
    BY <1>2, TopOK DEF IInv, Flushing
  <2>2. CASE CopyPending(r)
    <3>1. [Top(r) EXCEPT !.pc = "extendSink", !.batch = pending].pc = "extendSink"
      BY <2>1 DEF Frame
    <3> QED
      BY <1>2, <2>1, <2>2, <3>1, BecomeShape DEF CopyPending, Flushing
  <2>3. CASE ExtendSink(r)
    BY <1>2, <2>1, <2>3, GotoShape DEF ExtendSink, Flushing
  <2>4. ~DiscardPending(r)
    BY DEF DiscardPending
  <2>5. CopyPending(r) \/ ExtendSink(r)
    BY <1>2, <2>4 DEF Flushing, Step, At, Dispatching, ReadProduct, CreateOrder, RefuseOrder,
       GetOrder, GetInventory, Precheck, Enter, TakeSnapshot, ClearPending, AddProduct, AddOrder,
       UpsertInventory, CanFulfill, LoadOnHand, StoreOnHand, Publish, Buffer, SinkNow,
       CopyPending, ExtendSink, DiscardPending, ClearSnapshot, SetCommitted, Notify,
       CallAllocate, EndDispatch, Rollback, Restore, RolledBack, Exit
  <2> QED
    BY <2>2, <2>3, <2>5
<1> QED
  BY <1>1, <1>2

LEMMA QuietStep ==
    ASSUME IInv, QuietInv, NEW r \in Requests, Step(r)
    PROVE  QuietInv'
<1>1. ASSUME inContext' PROVE \E q \in Requests : Inside(q)'
  <2>1. CASE Enter(r)
    <3>1. FramesOK /\ frames[r] # <<>> /\ Goto(r, "snapshot")
      BY <2>1 DEF IInv, Enter, At
    <3>2. Inside(r)'
      BY <3>1, GotoShape DEF Inside, Before
    <3> QED
      BY <3>2
  <2>2. CASE ~Enter(r)
    <3>1. ~Exit(r)
      BY <1>1 DEF Exit
    <3>2. UNCHANGED inContext
      BY <2>2, <3>1 DEF Step, ReadProduct, CreateOrder, RefuseOrder, GetOrder, GetInventory,
         Precheck, TakeSnapshot, ClearPending, AddProduct, AddOrder, UpsertInventory, CanFulfill,
         LoadOnHand, StoreOnHand, Publish, Buffer, SinkNow, CopyPending, ExtendSink,
         DiscardPending, ClearSnapshot, SetCommitted, Notify, CallAllocate, EndDispatch,
         Rollback, Restore, RolledBack, uow
    <3>3. PICK q \in Requests : Inside(q)
      BY <1>1, <3>2 DEF QuietInv
    <3> QED
      BY <3>1, <3>3, InsideStays
  <2> QED
    BY <2>1, <2>2
<1>2. ASSUME pending' # <<>> PROVE \E q \in Requests : Flushing(q)'
  <2>1. CASE Buffer(r)
    <3>1. FramesOK /\ frames[r] # <<>> /\ Goto(r, "copyPending")
      BY <2>1 DEF IInv, Buffer, At
    <3>2. Flushing(r)'
      BY <3>1, GotoShape DEF Flushing
    <3> QED
      BY <3>2
  <2>2. CASE ~Buffer(r)
    <3>1. UNCHANGED pending
      BY <1>2, <2>2 DEF Step, ReadProduct, CreateOrder, RefuseOrder, GetOrder, GetInventory,
         Precheck, Enter, TakeSnapshot, ClearPending, AddProduct, AddOrder, UpsertInventory,
         CanFulfill, LoadOnHand, StoreOnHand, Publish, SinkNow, CopyPending, ExtendSink,
         DiscardPending, ClearSnapshot, SetCommitted, Notify, CallAllocate, EndDispatch,
         Rollback, Restore, RolledBack, Exit, uow
    <3>2. PICK q \in Requests : Flushing(q)
      BY <1>2, <3>1 DEF QuietInv
    <3> QED
      BY <1>2, <3>2, FlushingStays
  <2> QED
    BY <2>1, <2>2
<1>3. \A q \in Requests : frames'[q] # <<>> => calls'[q] # None
  BY StepShape DEF Others, QuietInv
<1> QED
  BY <1>1, <1>2, <1>3 DEF QuietInv

LEMMA QuietReceive ==
    ASSUME IInv, QuietInv, NEW r \in Requests, NEW c \in Calls, Receive(r, c)
    PROVE  QuietInv'
<1>1. UNCHANGED <<inContext, pending>> /\ frames[r] = <<>>
  BY DEF Receive, uow, QuietInv
<1>2. \A q \in Requests \ {r} : frames'[q] = frames[q] /\ calls'[q] = calls[q]
  BY DEF IInv, TypeOK, FramesOK, Receive
<1>3. calls'[r] # None
  BY CallsAssumption DEF IInv, TypeOK, Receive
<1>4. inContext' => \E q \in Requests : Inside(q)'
  BY <1>1, <1>2 DEF QuietInv, Inside, Top
<1>5. pending' # <<>> => \E q \in Requests : Flushing(q)'
  BY <1>1, <1>2 DEF QuietInv, Flushing, Top
<1> QED
  BY <1>2, <1>3, <1>4, <1>5 DEF QuietInv

\* Whichever threads overlapped, when no request is running the context flag is
\* down and the event buffer is empty (__enter__, commit, rollback, __exit__).
THEOREM Quiet == Spec => []QuietWhenIdle
<1>1. Init => QuietInv
  BY Zenon DEF Init, QuietInv
<1>2. IInv /\ QuietInv /\ [Next]_vars => QuietInv'
  <2> SUFFICES ASSUME IInv, QuietInv, [Next]_vars PROVE QuietInv'
    OBVIOUS
  <2>1. CASE UNCHANGED vars
    BY <2>1 DEF QuietInv, Inside, Flushing, Top, vars
  <2> QED
    BY <2>1, QuietStep, QuietReceive DEF Next, AllServed
<1>3. QuietInv => QuietWhenIdle
  BY DEF QuietInv, QuietWhenIdle, Busy, Inside, Flushing
<1> QED
  BY <1>1, <1>2, <1>3, Inductive, PTL DEF Spec

-----------------------------------------------------------------------------
(* With one thread no unit of stock is promised twice *)

OneAtATime == \A q, r \in Requests : frames[q] # <<>> /\ frames[r] # <<>> => q = r

\* Between the check of Inventory.allocate and its write nothing touches the entry.
CheckHolds(r) ==
    frames[r] # <<>> =>
        /\ Top(r).pc \in {"load", "store"} => Available(r) >= Line(r).quantity
        /\ Top(r).pc = "store" => Top(r).onHand = Available(r)

SerialInv == OneAtATime /\ StockNonNegative /\ \A r \in Requests : CheckHolds(r)

LEMMA NobodyBusy ==
    ASSUME PoolSize = 1, NEW r \in Requests, NEW c \in Calls, Receive(r, c)
    PROVE  Busy = {}
<1>1. IsFiniteSet(Busy)
  BY NamesAssumption, FS_Subset DEF Busy
<1>2. Cardinality(Busy) \in Nat /\ Cardinality(Busy) < 1
  BY <1>1, FS_CardinalityType DEF Receive
<1> QED
  BY <1>1, <1>2, FS_EmptySet

LEMMA SerialReceive ==
    ASSUME PoolSize = 1, IInv, SerialInv, NEW r \in Requests, NEW c \in Calls, Receive(r, c)
    PROVE  SerialInv'
<1>1. Busy = {}
  BY NobodyBusy
<1>2. frames' = [frames EXCEPT ![r] = <<NewFrame(c)>>] /\ frames \in [Requests -> Seq(Frame)]
  BY DEF IInv, FramesOK, Receive
<1>3. \A q \in Requests \ {r} : frames'[q] = <<>>
  BY <1>1, <1>2 DEF Busy
<1>4. frames'[r] = <<NewFrame(c)>>
  BY <1>2
<1>5. c \in AllCalls
  BY CallsAssumption
<1>6. NewFrame(c).pc \in {"readProduct", "getOrder", "enter"}
  BY DEF NewFrame, FirstStep
<1>7. CheckHolds(r)'
  BY <1>4, <1>6 DEF CheckHolds, Top
<1>8. StockNonNegative'
  <2>1. c.op = "stock" => c.levels \in [Skus -> Nat]
    BY <1>5, CallArguments
  <2>2. stock \in [Objects -> [Skus -> Int]]
    BY DEF IInv, TypeOK, Levels
  <2> QED
    BY <2>1, <2>2 DEF SerialInv, StockNonNegative, Receive
<1>9. OneAtATime' /\ \A q \in Requests : CheckHolds(q)'
  BY <1>3, <1>7 DEF OneAtATime, CheckHolds
<1> QED
  BY <1>8, <1>9 DEF SerialInv

\* A step that leaves the stock alone and does not move to the read or the write.
LEMMA SerialIdle ==
    ASSUME IInv, SerialInv, NEW r \in Requests, Others(r), frames[r] # <<>>, UNCHANGED stock,
           frames'[r] # <<>> => Top(r)'.pc \notin {"load", "store"}
    PROVE  SerialInv'
<1>1. \A q \in Requests \ {r} : frames'[q] = <<>>
  BY DEF SerialInv, OneAtATime, Others
<1>2. OneAtATime' /\ \A q \in Requests : CheckHolds(q)'
  BY <1>1 DEF OneAtATime, CheckHolds
<1> QED
  BY <1>2 DEF SerialInv, StockNonNegative

LEMMA SerialAllocate ==
    ASSUME IInv, SerialInv, NEW r \in Requests, CanFulfill(r) \/ LoadOnHand(r) \/ StoreOnHand(r)
    PROVE  SerialInv'
<1>1. Others(r) /\ frames[r] # <<>> /\ FramesOK /\ Top(r) \in Frame /\ FrameOK(Top(r))
  <2>1. Others(r) /\ frames[r] # <<>> /\ FramesOK
    BY AllocationMoves, InsideMoves DEF IInv
  <2> QED
    BY <2>1, TopOK
<1>2. \A q \in Requests \ {r} : frames'[q] = <<>>
  BY <1>1 DEF SerialInv, OneAtATime, Others
<1>3. OneAtATime' /\ \A q \in Requests \ {r} : CheckHolds(q)'
  BY <1>2 DEF OneAtATime, CheckHolds
<1>4. CASE CanFulfill(r)
  <2> DEFINE pc == IF ~LinesLeft(r) THEN "upsert"
                   ELSE IF Available(r) >= Line(r).quantity THEN "load" ELSE "rollback"
             g == [Top(r) EXCEPT !.pc = pc]
  <2>1. pc = "load" => Available(r) >= Line(r).quantity
    OBVIOUS
  <2>2. pc # "store"
    OBVIOUS
  <2>3. Become(r, g)
    BY <1>4 DEF CanFulfill
  <2> HIDE DEF pc
  <2>4. g.pc = pc /\ g.lines = Top(r).lines /\ g.index = Top(r).index
        /\ g.inventory = Top(r).inventory
    BY <1>1 DEF Frame
  <2>5. Top(r)' = g
    BY <1>1, <2>3, BecomeShape
  <2>6. UNCHANGED stock
    BY <1>4 DEF CanFulfill, stores
  <2>7. CheckHolds(r)'
    BY <2>1, <2>2, <2>4, <2>5, <2>6 DEF CheckHolds, Available, Line
  <2> QED
    BY <1>3, <2>6, <2>7 DEF SerialInv, StockNonNegative
<1>5. CASE LoadOnHand(r)
  <2> DEFINE g == [Top(r) EXCEPT !.pc = "store", !.onHand = Available(r)]
  <2>1. Top(r)' = g
    BY <1>1, <1>5, BecomeShape DEF LoadOnHand
  <2>2. g.pc = "store" /\ g.lines = Top(r).lines /\ g.index = Top(r).index
        /\ g.inventory = Top(r).inventory /\ g.onHand = Available(r)
    BY <1>1 DEF Frame
  <2>3. UNCHANGED stock /\ Top(r).pc = "load"
    BY <1>5 DEF LoadOnHand, stores, At
  <2>4. Available(r) >= Line(r).quantity
    BY <1>1, <2>3 DEF SerialInv, CheckHolds
  <2>5. CheckHolds(r)'
    BY <2>1, <2>2, <2>3, <2>4 DEF CheckHolds, Available, Line
  <2> QED
    BY <1>3, <2>3, <2>5 DEF SerialInv, StockNonNegative
<1>6. CASE StoreOnHand(r)
  <2>1. Top(r).pc = "store"
    BY <1>6 DEF StoreOnHand, At
  <2>2. LinesLeft(r)
    BY <1>1, <2>1 DEF FrameOK, LinesLeft
  <2>3. Line(r).quantity \in Int /\ Available(r) \in Int
    BY <1>1, <2>1, <2>2, LineOK
  <2>4. Top(r).onHand - Line(r).quantity >= 0
    BY <1>1, <2>1, <2>3 DEF SerialInv, CheckHolds
  <2>5. stock \in [Objects -> [Skus -> Int]]
    BY DEF IInv, TypeOK, Levels
  <2>6. StockNonNegative'
    BY <1>6, <2>4, <2>5 DEF SerialInv, StockNonNegative, StoreOnHand
  <2>7. CheckHolds(r)'
    BY <1>6, InsideMoves DEF Moved, CheckHolds
  <2> QED
    BY <1>3, <2>6, <2>7 DEF SerialInv
<1> QED
  BY <1>4, <1>5, <1>6

LEMMA InSerial ==
    ASSUME PoolSize = 1
    PROVE  Spec => []SerialInv
<1>1. Init => SerialInv
  <2> SUFFICES ASSUME Init PROVE SerialInv
    OBVIOUS
  <2>1. \A x \in DOMAIN InitialStock : InitialStock[x] \in [Skus -> Nat]
    BY SeedAssumption DEF IsDict
  <2>2. StockNonNegative
    BY <2>1 DEF Init, StockNonNegative
  <2> QED
    BY <2>2 DEF Init, SerialInv, OneAtATime, CheckHolds
<1>2. IInv /\ SerialInv /\ [Next]_vars => SerialInv'
  <2> SUFFICES ASSUME IInv, SerialInv, [Next]_vars PROVE SerialInv'
    OBVIOUS
  <2>1. CASE UNCHANGED vars
    BY <2>1 DEF SerialInv, OneAtATime, StockNonNegative, CheckHolds, Available, Line, Top, vars
  <2>2. ASSUME NEW r \in Requests, Step(r) PROVE SerialInv'
    <3>1. CASE CanFulfill(r) \/ LoadOnHand(r) \/ StoreOnHand(r)
      BY <3>1, SerialAllocate
    <3>2. CASE ~(CanFulfill(r) \/ LoadOnHand(r) \/ StoreOnHand(r))
      <4>1. UNCHANGED stock
        BY <2>2, <3>2 DEF Step, ReadProduct, CreateOrder, RefuseOrder, GetOrder, GetInventory,
           Precheck, Enter, TakeSnapshot, ClearPending, AddProduct, AddOrder, UpsertInventory,
           Publish, Buffer, SinkNow, CopyPending, ExtendSink, DiscardPending, ClearSnapshot,
           SetCommitted, Notify, CallAllocate, EndDispatch, Rollback, Restore, RolledBack, Exit,
           stores
      <4>2. Moved(r) \/ Returned(r) \/ CallAllocate(r)
        BY <2>2, <3>2, EarlyMoves, InsideMoves, ExitMoves DEF Step
      <4>3. frames'[r] # <<>> => Top(r)'.pc \notin {"load", "store"}
        BY <4>2, CallMoves DEF Moved, Returned
      <4> QED
        BY <2>2, <4>1, <4>3, StepShape, SerialIdle
    <3> QED
      BY <3>1, <3>2
  <2> QED
    BY <2>1, <2>2, SerialReceive DEF Next, AllServed
<1> QED
  BY <1>1, <1>2, Inductive, PTL DEF Spec

\* Served by one thread, stock never goes below zero: not even for an order that
\* names a SKU twice, whose lines pass the precheck one by one and run out in the
\* middle of the allocation (inventory.py 50-53, allocate_stock.py 37-44).
THEOREM SerialStock ==
    ASSUME PoolSize = 1
    PROVE  Spec => []StockNonNegative
<1>1. SerialInv => StockNonNegative
  BY DEF SerialInv
<1> QED
  BY <1>1, InSerial, PTL

-----------------------------------------------------------------------------
(* No event without its cause, however many threads overlap *)

Completed(r) == result[r] = "ok" \/ (frames[r] # <<>> /\ Top(r).pc \in Announcing)

Justified(e) ==
    IF e.type = "OrderPlaced"
    THEN calls[e.order].op = "place" /\ Completed(e.order)
    ELSE \E r \in Requests :
            /\ calls[r] = [op |-> "allocate", order |-> e.order, location |-> e.location]
            /\ Completed(r)

\* The events whose cause is known.
Known == {e \in Events : Justified(e)}

\* Nothing is answered before it runs, and without handlers a thread has one frame.
Answering ==
    \A r \in Requests :
        /\ frames[r] # <<>> => /\ calls[r] # None /\ result[r] = "none"
                               /\ Tail(frames[r]) = <<>> /\ Top(r).call = calls[r]
        /\ calls[r] = None => result[r] = "none"

\* The events that can still reach the sink are those buffered and those a thread
\* has copied from the buffer.
CausesKnown ==
    /\ sink \in Seq(Known) /\ pending \in Seq(Known)
    /\ \A r \in Requests :
          frames[r] # <<>> /\ Top(r).pc = "extendSink" => Top(r).batch \in Seq(Known)

JustInv == Answering /\ CausesKnown

\* The running frame keeps its call, and what it copied, until it returns.
LEMMA AnsweringStep ==
    ASSUME IInv, Answering, ~Subscribed, NEW r \in Requests, Step(r)
    PROVE  /\ Answering'
           /\ UNCHANGED calls /\ Others(r)
           /\ \A q \in Requests \ {r} : result'[q] = result[q]
<1>1. /\ Others(r) /\ frames[r] # <<>> /\ UNCHANGED calls
      /\ FramesOK /\ TypeOK /\ Tail(frames[r]) = <<>>
  BY StepShape DEF IInv, Answering
<1>2. Top(r) \in Frame /\ Top(r).call = calls[r] /\ calls[r] # None /\ result[r] = "none"
  BY <1>1, TopOK DEF Answering
<1>3. result \in [Requests -> {"none", "ok", "raised"}]
  BY <1>1 DEF TypeOK
<1>4. ~CallAllocate(r)
  BY DEF CallAllocate
<1>5. CASE \E outcome \in {"ok", "raised"} : Return(r, outcome)
  <2>1. frames'[r] = <<>> /\ \A q \in Requests \ {r} : result'[q] = result[q]
    BY <1>1, <1>3, <1>5, ReturnShape DEF Return
  <2> QED
    BY <1>1, <1>2, <2>1 DEF Answering, Others, Top
<1>6. CASE UNCHANGED result /\ \E f : f.call = Top(r).call /\ Become(r, f)
  <2>1. frames'[r] # <<>> /\ Top(r)'.call = Top(r).call /\ Tail(frames'[r]) = <<>>
    BY <1>1, <1>6, BecomeShape
  <2> QED
    BY <1>1, <1>2, <1>6, <2>1 DEF Answering, Others, Top
<1>7. ASSUME NEW pc, Goto(r, pc) PROVE \E f : f.call = Top(r).call /\ Become(r, f)
  <2>1. [Top(r) EXCEPT !.pc = pc, !.index = 1].call = Top(r).call
    BY <1>2 DEF Frame
  <2> QED
    BY <1>7, <2>1 DEF Goto
<1>8. ASSUME Advance(r) PROVE \E f : f.call = Top(r).call /\ Become(r, f)
  <2>1. [Top(r) EXCEPT !.index = @ + 1].call = Top(r).call
    BY <1>2 DEF Frame
  <2> QED
    BY <1>8, <2>1 DEF Advance
<1>9. CASE Exit(r) \/ RefuseOrder(r)
  BY <1>5, <1>9 DEF Exit, RefuseOrder
<1>10. CASE Precheck(r)
  BY <1>5, <1>6, <1>7, <1>8, <1>10 DEF Precheck
<1>11. CASE \/ CreateOrder(r) \/ Enter(r) \/ TakeSnapshot(r) \/ ClearPending(r) \/ AddProduct(r)
            \/ AddOrder(r) \/ UpsertInventory(r) \/ Publish(r) \/ Buffer(r) \/ ExtendSink(r)
            \/ DiscardPending(r) \/ ClearSnapshot(r) \/ SetCommitted(r) \/ Rollback(r)
            \/ Restore(r) \/ RolledBack(r)
  <2>1. UNCHANGED result /\ (Advance(r) \/ \E pc : Goto(r, pc))
    BY <1>11 DEF CreateOrder, Enter, TakeSnapshot, ClearPending, AddProduct, AddOrder,
       UpsertInventory, Publish, Buffer, ExtendSink, DiscardPending, ClearSnapshot,
       SetCommitted, Rollback, Restore, RolledBack
  <2> QED
    BY <1>6, <1>7, <1>8, <2>1
<1>12. CASE GetOrder(r) \/ GetInventory(r)
  <2>1. \A x : [Top(r) EXCEPT !.pc = "getInventory", !.lines = x].call = Top(r).call
    BY <1>2 DEF Frame
  <2>2. \A x : [Top(r) EXCEPT !.pc = "precheck", !.inventory = x].call = Top(r).call
    BY <1>2 DEF Frame
  <2> QED
    BY <1>5, <1>6, <1>12, <2>1, <2>2 DEF GetOrder, GetInventory
<1>13. CASE ReadProduct(r)
  <2>1. \A x : [Top(r) EXCEPT !.index = @ + 1, !.currencies = @ \cup {x}].call = Top(r).call
    BY <1>2 DEF Frame
  <2> QED
    BY <1>6, <1>13, <2>1 DEF ReadProduct
<1>14. CASE CanFulfill(r) \/ LoadOnHand(r) \/ StoreOnHand(r)
  <2>1. \A x : /\ [Top(r) EXCEPT !.pc = x].call = Top(r).call
               /\ [Top(r) EXCEPT !.pc = "store", !.onHand = x].call = Top(r).call
               /\ [Top(r) EXCEPT !.pc = "canFulfill", !.index = @ + 1, !.onHand = 0].call = Top(r).call
    BY <1>2 DEF Frame
  <2> QED
    BY <1>6, <1>14, <2>1 DEF CanFulfill, LoadOnHand, StoreOnHand
<1>15. CASE SinkNow(r) \/ CopyPending(r) \/ EndDispatch(r)
  <2>1. PICK pc \in {"dispatchNow", "extendSink", "exit", "copyPending"} :
          \E b : Become(r, [Top(r) EXCEPT !.pc = pc, !.batch = b])
    BY <1>15 DEF SinkNow, CopyPending, EndDispatch
  <2>2. \A b : [Top(r) EXCEPT !.pc = pc, !.batch = b].call = Top(r).call
    BY <1>2 DEF Frame
  <2>3. UNCHANGED result
    BY <1>15 DEF SinkNow, CopyPending, EndDispatch
  <2> QED
    BY <1>6, <2>1, <2>2, <2>3
<1>16. ~Notify(r)
  BY DEF Notify
<1> QED
  BY <1>4, <1>9, <1>10, <1>11, <1>12, <1>13, <1>14, <1>15, <1>16 DEF Step

\* Who has gone through the allocation loop goes on to answer "ok".
LEMMA CompletedStays ==
    ASSUME IInv, Answering, ~Subscribed, NEW r \in Requests, Step(r),
           NEW q \in Requests, Completed(q)
    PROVE  Completed(q)'
<1>1. CASE q # r
  BY <1>1, AnsweringStep DEF Completed, Others, Top
<1>2. CASE q = r
  <2>1. frames[r] # <<>> /\ Top(r).pc \in Announcing /\ FramesOK /\ Top(r) \in Frame
    <3>1. frames[r] # <<>> /\ FramesOK
      BY StepShape DEF IInv
    <3> QED
      BY <1>2, <3>1, TopOK DEF Completed, Answering
  <2>2. ASSUME NEW pc \in Announcing, Goto(r, pc) PROVE Completed(r)'
    BY <2>1, <2>2, GotoShape DEF Completed
  <2>3. ASSUME Advance(r) PROVE Completed(r)'
    BY <2>1, <2>3, AdvanceShape DEF Completed
  <2>4. ASSUME NEW pc \in Announcing, NEW b, Become(r, [Top(r) EXCEPT !.pc = pc, !.batch = b])
        PROVE  Completed(r)'
    <3>1. [Top(r) EXCEPT !.pc = pc, !.batch = b].pc = pc
      BY <2>1 DEF Frame
    <3> QED
      BY <2>1, <2>4, <3>1, BecomeShape DEF Completed
  <2>5. /\ \A pc \in {"copyPending", "publish", "buffer", "sinkNow", "discard", "forget",
                      "setCommitted", "dispatch", "dispatchNow", "extendSink", "exit"} :
               pc \in Announcing
        /\ \A pc \in {"readProduct", "getOrder", "getInventory", "precheck", "enter", "snapshot",
                      "clearPending", "addProduct", "addOrder", "canFulfill", "load", "store",
                      "rollback", "restore", "forgetRestored", "rolledBack", "exitRaising"} :
               pc \notin Announcing
    BY DEF Announcing
  <2>6. CASE Exit(r)
    <3>1. Return(r, "ok") /\ Tail(frames[r]) = <<>>
      BY <2>1, <2>5, <2>6 DEF Exit, At, Answering
    <3>2. result'[r] = "ok"
      BY <3>1 DEF Return, IInv, TypeOK
    <3> QED
      BY <1>2, <3>2 DEF Completed
  <2>7. CASE UpsertInventory(r) \/ Publish(r)
    <3>1. PICK pc \in {"copyPending", "publish", "buffer", "sinkNow"} : Goto(r, pc)
      BY <2>7 DEF UpsertInventory, Publish
    <3> QED
      BY <1>2, <2>2, <2>5, <3>1
  <2>8. CASE Buffer(r) \/ ExtendSink(r) \/ DiscardPending(r) \/ SetCommitted(r)
    BY <1>2, <2>2, <2>5, <2>8 DEF Buffer, ExtendSink, DiscardPending, SetCommitted
  <2>9. CASE ClearSnapshot(r)
    BY <1>2, <2>1, <2>2, <2>3, <2>5, <2>9 DEF ClearSnapshot, At
  <2>10. CASE SinkNow(r) \/ CopyPending(r) \/ EndDispatch(r)
    <3>1. PICK pc \in {"dispatchNow", "extendSink", "exit", "copyPending"} :
            \E b : Become(r, [Top(r) EXCEPT !.pc = pc, !.batch = b])
      BY <2>10 DEF SinkNow, CopyPending, EndDispatch
    <3> QED
      BY <1>2, <2>4, <2>5, <3>1
  <2>11. /\ ~Notify(r) /\ ~CallAllocate(r)
    BY DEF Notify, CallAllocate
  <2>12. ~\/ ReadProduct(r) \/ CreateOrder(r) \/ RefuseOrder(r) \/ GetOrder(r) \/ GetInventory(r)
           \/ Precheck(r) \/ Enter(r) \/ TakeSnapshot(r) \/ ClearPending(r) \/ AddProduct(r)
           \/ AddOrder(r) \/ CanFulfill(r) \/ LoadOnHand(r) \/ StoreOnHand(r) \/ Rollback(r)
           \/ Restore(r) \/ RolledBack(r)
    BY <2>1, <2>5 DEF At, ReadProduct, CreateOrder, RefuseOrder, GetOrder, GetInventory,
       Precheck, Enter, TakeSnapshot, ClearPending, AddProduct, AddOrder, CanFulfill,
       LoadOnHand, StoreOnHand, Rollback, Restore, RolledBack
  <2> QED
    BY <2>6, <2>7, <2>8, <2>9, <2>10, <2>11, <2>12 DEF Step
<1> QED
  BY <1>1, <1>2

LEMMA KnownGrows ==
    ASSUME IInv, Answering, ~Subscribed, NEW r \in Requests, Step(r)
    PROVE  Known \subseteq Known'
<1>1. UNCHANGED calls
  BY AnsweringStep
<1>2. \A q \in Requests : Completed(q) => Completed(q)'
  BY CompletedStays
<1>3. \A e \in Events : e.order \in Requests
  BY DEF Events, OrderPlaced, StockAllocated
<1> QED
  BY <1>1, <1>2, <1>3 DEF Known, Justified

\* What a use case announces is its own doing.
LEMMA AnnouncementJustified ==
    ASSUME IInv, Answering, NEW r \in Requests, At(r, "buffer") \/ At(r, "sinkNow")
    PROVE  Announcement(r) \in Known
<1>1. frames[r] # <<>> /\ FramesOK /\ Top(r).pc \in {"buffer", "sinkNow"}
  BY DEF At, IInv
<1>2. FrameOK(Top(r)) /\ Top(r).call = calls[r] /\ calls[r] \in AllCalls
  BY <1>1, TopOK, CallsAssumption DEF Answering, FrameOK, Frame
<1>3. calls[r].op \in {"place", "allocate"}
  BY <1>1, <1>2 DEF FrameOK, Fits
<1>4. Completed(r)
  BY <1>1 DEF Completed, Announcing
<1>5. CASE calls[r].op = "place"
  <2>1. Announcement(r) = OrderPlaced(r)
    BY <1>2, <1>5 DEF Announcement
  <2> QED
    BY <1>4, <1>5, <2>1 DEF Known, Justified, OrderPlaced, Events
<1>6. CASE calls[r].op = "allocate"
  <2>1. /\ Announcement(r) = StockAllocated(calls[r].order, calls[r].location)
        /\ calls[r].order \in Requests /\ calls[r].location \in Locations
        /\ calls[r] = [op |-> "allocate", order |-> calls[r].order, location |-> calls[r].location]
    BY <1>2, <1>6 DEF Announcement, AllCalls, PlaceCalls, AllocateCalls, ProductCalls, StockCalls
  <2> QED
    BY <1>4, <2>1 DEF Known, Justified, StockAllocated, Events
<1> QED
  BY <1>3, <1>5, <1>6

LEMMA OnlyCopyExtends ==
    ASSUME IInv, NEW r \in Requests, Step(r), frames'[r] # <<>>, Top(r)'.pc = "extendSink"
    PROVE  CopyPending(r)
<1>1. frames[r] # <<>> /\ FramesOK /\ TypeOK /\ Top(r) \in Frame
  <2>1. frames[r] # <<>> /\ FramesOK /\ TypeOK
    BY StepShape DEF IInv
  <2> QED
    BY <2>1, TopOK
<1>2. ASSUME NEW pc, Goto(r, pc), pc # "extendSink" PROVE FALSE
  BY <1>1, <1>2, GotoShape
<1>3. ASSUME Advance(r), Top(r).pc # "extendSink" PROVE FALSE
  BY <1>1, <1>3, AdvanceShape
<1>4. ASSUME NEW f, Become(r, f), f.pc # "extendSink" PROVE FALSE
  BY <1>1, <1>4, BecomeShape
<1>5. ASSUME NEW outcome \in {"ok", "raised"}, Return(r, outcome) PROVE FALSE
  BY <1>1, <1>5, ReturnShape
<1>6. ~(Exit(r) \/ RefuseOrder(r) \/ CallAllocate(r))
  BY <1>5, CallMoves DEF Exit, RefuseOrder
<1>7. ~(Precheck(r) \/ CreateOrder(r) \/ Enter(r) \/ AddProduct(r) \/ AddOrder(r) \/ Buffer(r)
        \/ ExtendSink(r) \/ DiscardPending(r) \/ SetCommitted(r) \/ RolledBack(r))
  BY <1>2, <1>3, <1>5 DEF Precheck, CreateOrder, Enter, AddProduct, AddOrder, Buffer, ExtendSink,
     DiscardPending, SetCommitted, RolledBack, At
<1>8. ~(UpsertInventory(r) \/ Publish(r) \/ Rollback(r))
  <2>1. ASSUME NEW pc \in {"copyPending", "publish", "buffer", "sinkNow", "rolledBack", "restore"}
        PROVE  ~Goto(r, pc)
    BY <1>2
  <2> QED
    BY <2>1 DEF UpsertInventory, Publish, Rollback
<1>9. ~(TakeSnapshot(r) \/ ClearSnapshot(r) \/ Restore(r))
  BY <1>2, <1>3 DEF TakeSnapshot, ClearSnapshot, Restore, At
<1>10. ~ClearPending(r)
  <2>1. Top(r).call \in AllCalls
    BY <1>1 DEF Frame
  <2>2. BodyStep(Top(r).call.op) \in {"addOrder", "canFulfill", "addProduct", "upsert"}
    BY <2>1, CallArguments DEF BodyStep
  <2> QED
    BY <1>2, <2>2 DEF ClearPending
<1>11. ~(GetOrder(r) \/ GetInventory(r) \/ ReadProduct(r))
  <2>1. \A x : /\ [Top(r) EXCEPT !.pc = "getInventory", !.lines = x].pc = "getInventory"
               /\ [Top(r) EXCEPT !.pc = "precheck", !.inventory = x].pc = "precheck"
               /\ [Top(r) EXCEPT !.index = @ + 1, !.currencies = @ \cup {x}].pc = Top(r).pc
    BY <1>1 DEF Frame
  <2> QED
    BY <1>4, <1>5, <2>1 DEF GetOrder, GetInventory, ReadProduct, At
<1>12. ~(CanFulfill(r) \/ LoadOnHand(r) \/ StoreOnHand(r))
  <2>1. [Top(r) EXCEPT !.pc = "canFulfill", !.index = @ + 1, !.onHand = 0].pc = "canFulfill"
    BY <1>1 DEF Frame
  <2> QED
    BY <1>4, <2>1, AllocationMoves DEF StoreOnHand
<1>13. ~(SinkNow(r) \/ EndDispatch(r))
  <2>1. ASSUME NEW pc \in {"dispatchNow", "exit", "copyPending"}, NEW b
        PROVE  ~Become(r, [Top(r) EXCEPT !.pc = pc, !.batch = b])
    <3>1. [Top(r) EXCEPT !.pc = pc, !.batch = b].pc = pc
      BY <1>1 DEF Frame
    <3> QED
      BY <1>4, <3>1
  <2> QED
    BY <2>1 DEF SinkNow, EndDispatch
<1>14. ~Notify(r)
  <2>1. [Top(r) EXCEPT !.batch = Tail(@)].pc = Top(r).pc
    BY <1>1 DEF Frame
  <2> QED
    BY <1>4, <2>1 DEF Notify, Dispatching, At
<1> QED
  BY <1>6, <1>7, <1>8, <1>9, <1>10, <1>11, <1>12, <1>13, <1>14 DEF Step

LEMMA CausesStep ==
    ASSUME IInv, JustInv, ~Subscribed, NEW r \in Requests, Step(r)
    PROVE  JustInv'
<1>1. /\ Answering' /\ Others(r) /\ frames[r] # <<>> /\ FramesOK /\ Top(r) \in Frame
  <2>1. Answering' /\ Others(r) /\ frames[r] # <<>> /\ FramesOK
    BY StepShape, AnsweringStep DEF JustInv, IInv
  <2> QED
    BY <2>1, TopOK
<1>2. Seq(Known) \subseteq Seq(Known')
  BY KnownGrows, SeqMonotonic DEF JustInv
<1>3. sink \in Seq(Known') /\ pending \in Seq(Known')
  BY <1>2 DEF JustInv, CausesKnown
<1>4. At(r, "buffer") \/ At(r, "sinkNow") => Announcement(r) \in Known'
  BY KnownGrows, AnnouncementJustified DEF JustInv
<1>5. pending' \in Seq(Known')
  <2>1. \/ UNCHANGED pending \/ pending' = <<>>
        \/ At(r, "buffer") /\ pending' = Append(pending, Announcement(r))
    BY DEF Step, ReadProduct, CreateOrder, RefuseOrder, GetOrder, GetInventory,
       Precheck, Enter, TakeSnapshot, ClearPending, AddProduct, AddOrder, UpsertInventory,
       CanFulfill, LoadOnHand, StoreOnHand, Publish, Buffer, SinkNow, CopyPending, ExtendSink,
       DiscardPending, ClearSnapshot, SetCommitted, Notify, CallAllocate, EndDispatch,
       Rollback, Restore, RolledBack, Exit, uow
  <2>2. CASE UNCHANGED pending \/ pending' = <<>>
    BY <1>3, <2>2, EmptySeq
  <2>3. CASE At(r, "buffer") /\ pending' = Append(pending, Announcement(r))
    BY <1>3, <1>4, <2>3, AppendProperties
  <2> QED
    BY <2>1, <2>2, <2>3
<1>6. sink' \in Seq(Known')
  <2>1. \/ UNCHANGED sink
        \/ At(r, "sinkNow") /\ sink' = Append(sink, Announcement(r))
        \/ At(r, "extendSink") /\ sink' = sink \o Top(r).batch
    BY DEF Step, ReadProduct, CreateOrder, RefuseOrder, GetOrder, GetInventory,
       Precheck, Enter, TakeSnapshot, ClearPending, AddProduct, AddOrder, UpsertInventory,
       CanFulfill, LoadOnHand, StoreOnHand, Publish, Buffer, SinkNow, CopyPending, ExtendSink,
       DiscardPending, ClearSnapshot, SetCommitted, Notify, CallAllocate, EndDispatch,
       Rollback, Restore, RolledBack, Exit, logs
  <2>2. At(r, "extendSink") => Top(r).batch \in Seq(Known')
    BY <1>2 DEF At, JustInv, CausesKnown
  <2>3. CASE At(r, "sinkNow") /\ sink' = Append(sink, Announcement(r))
    BY <1>3, <1>4, <2>3, AppendProperties
  <2>4. CASE At(r, "extendSink") /\ sink' = sink \o Top(r).batch
    BY <1>3, <2>2, <2>4, ConcatProperties
  <2> QED
    BY <1>3, <2>1, <2>3, <2>4
<1>7. ASSUME NEW q \in Requests, frames'[q] # <<>>, Top(q)'.pc = "extendSink"
      PROVE  Top(q)'.batch \in Seq(Known')
  <2>1. CASE q # r
    BY <1>1, <1>2, <1>7, <2>1 DEF Others, Top, JustInv, CausesKnown
  <2>2. CASE q = r
    <3>1. CopyPending(r)
      BY <1>7, <2>2, OnlyCopyExtends
    <3>2. Top(r)' = [Top(r) EXCEPT !.pc = "extendSink", !.batch = pending]
      BY <1>1, <3>1, BecomeShape DEF CopyPending
    <3>3. Top(r)'.batch = pending
      BY <1>1, <3>2 DEF Frame
    <3> QED
      BY <1>3, <2>2, <3>3
  <2> QED
    BY <2>1, <2>2
<1> QED
  BY <1>1, <1>5, <1>6, <1>7 DEF JustInv, CausesKnown

LEMMA CausesReceive ==
    ASSUME IInv, JustInv, NEW r \in Requests, NEW c \in Calls, Receive(r, c)
    PROVE  JustInv'
<1>1. /\ calls[r] = None /\ frames[r] = <<>> /\ result[r] = "none"
      /\ calls' = [calls EXCEPT ![r] = c] /\ frames' = [frames EXCEPT ![r] = <<NewFrame(c)>>]
      /\ UNCHANGED <<sink, pending, result>> /\ c # None /\ c \in AllCalls
  BY CallsAssumption DEF Receive, JustInv, Answering, uow, logs
<1>2. calls \in [Requests -> Calls \cup {None}] /\ frames \in [Requests -> Seq(Frame)]
  BY DEF IInv, TypeOK, FramesOK
<1>3. /\ calls'[r] = c /\ frames'[r] = <<NewFrame(c)>>
      /\ \A q \in Requests \ {r} : calls'[q] = calls[q] /\ frames'[q] = frames[q]
  BY <1>1, <1>2
<1>4. /\ Top(r)'.call = c /\ Top(r)'.pc \in {"readProduct", "getOrder", "enter"}
      /\ frames'[r] # <<>> /\ Tail(frames'[r]) = <<>>
  <2>1. NewFrame(c).call = c /\ NewFrame(c).pc \in {"readProduct", "getOrder", "enter"}
    BY DEF NewFrame, FirstStep
  <2> QED
    BY <1>3, <2>1 DEF Top
<1>5. Answering'
  BY <1>1, <1>3, <1>4 DEF JustInv, Answering, Top
<1>6. Known \subseteq Known'
  <2>1. \A q \in Requests : Completed(q) => q # r /\ Completed(q)'
    BY <1>1, <1>3 DEF Completed, Top
  <2>2. \A e \in Events : e.order \in Requests
    BY DEF Events, OrderPlaced, StockAllocated
  <2> QED
    BY <1>3, <2>1, <2>2 DEF Known, Justified
<1>7. Seq(Known) \subseteq Seq(Known')
  BY <1>6, SeqMonotonic
<1>8. ASSUME NEW q \in Requests, frames'[q] # <<>>, Top(q)'.pc = "extendSink"
      PROVE  Top(q)'.batch \in Seq(Known')
  <2>1. q # r
    BY <1>4, <1>8
  <2> QED
    BY <1>3, <1>7, <1>8, <2>1 DEF Top, JustInv, CausesKnown
<1> QED
  BY <1>1, <1>5, <1>7, <1>8 DEF JustInv, CausesKnown

\* However many threads share the unit of work, and whoever commits what another
\* has buffered: an event in the sink or the buffer has a call that got past its
\* refusals and is answered "ok", or will be (publish, commit, AllocateStock).
\* The API subscribes no handlers, hence the hypothesis.
THEOREM EventsJustified ==
    ASSUME ~Subscribed
    PROVE  Spec => []JustifiedEvents
<1>1. Init => JustInv
  BY DEF Init, JustInv, Answering, CausesKnown
<1>2. IInv /\ JustInv /\ [Next]_vars => JustInv'
  <2> SUFFICES ASSUME IInv, JustInv, [Next]_vars PROVE JustInv'
    OBVIOUS
  <2>1. CASE UNCHANGED vars
    <3>1. Answering'
      BY <2>1 DEF JustInv, Answering, Top, vars
    <3>2. Known' = Known
      BY <2>1 DEF Known, Justified, Completed, Top, vars
    <3> QED
      BY <2>1, <3>1, <3>2 DEF JustInv, CausesKnown, Top, vars
  <2> QED
    BY <2>1, CausesStep, CausesReceive DEF Next, AllServed
<1>3. IInv /\ JustInv => JustifiedEvents
  <2> SUFFICES ASSUME IInv, JustInv, NEW i \in DOMAIN (sink \o pending)
               PROVE  Justified((sink \o pending)[i])
    BY DEF JustifiedEvents, Justified, Completed
  <2>1. sink \o pending \in Seq(Known)
    BY DEF JustInv, CausesKnown
  <2> QED
    BY <2>1 DEF Known
<1> QED
  BY <1>1, <1>2, <1>3, Inductive, PTL DEF Spec
=============================================================================
