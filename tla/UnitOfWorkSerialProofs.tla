----------------------- MODULE UnitOfWorkSerialProofs -----------------------
(***************************************************************************)
(* Theorems about UnitOfWork when one thread serves every request: the     *)
(* command line, the unit tests and the end-to-end test with its handlers. *)
(* In four parts: what the program counter says of the unit of work, with  *)
(* the theorems on snapshots, orders, events and handlers; sums over       *)
(* finite sets; the refinement of Shop; the balance of the stock.          *)
(***************************************************************************)
EXTENDS UnitOfWorkProofs, UnitOfWorkShop, WellFoundedInduction

-----------------------------------------------------------------------------
(* The state between two steps of the one thread *)

HandlerCall(r) == [op |-> "allocate", order |-> r, location |-> DefaultLocation]

\* The frame of the request itself, below a handler's frame if there is one.
Nested(r) == Tail(frames[r]) # <<>>
Own(r) == IF Nested(r) THEN Head(Tail(frames[r])) ELSE Top(r)

\* A busy thread is not answered yet; the only frame that can lie on top of a
\* request's own is that of the handler of the order it has placed.
Stack(r) ==
    /\ calls[r] = None => result[r] = "none"
    /\ frames[r] # <<>> =>
         /\ calls[r] # None /\ result[r] = "none" /\ Own(r).call = calls[r]
         /\ Nested(r) => /\ Tail(Tail(frames[r])) = <<>>
                         /\ Top(r).call = HandlerCall(r)
                         /\ calls[r].op = "place"
                         /\ Own(r).pc = "dispatch" /\ Own(r).batch = <<OrderPlaced(r)>>

\* The snapshots of the repositories before the n-th are taken, or forgotten.
TakenTo(n) == /\ n > 1 => snap.products = repo.products
              /\ n > 2 => snap.orders = repo.orders
              /\ n > 3 => snap.inventories = repo.inventories
ForgottenTo(n) == /\ n > 1 => snap.products = None
                  /\ n > 2 => snap.orders = None
                  /\ n > 3 => snap.inventories = None

Announced(r) == IF Top(r).call.op \in {"place", "allocate"} THEN <<Announcement(r)>> ELSE <<>>

\* Before a write of the body, or when it will be undone, the repositories are as the
\* snapshots have them.
Unchanged == {"clearPending", "addProduct", "addOrder", "canFulfill", "load", "store",
              "upsert", "rollback", "restore"}
Settled == Before \cup {"setCommitted", "dispatch", "exit", "rolledBack", "exitRaising"}
Undoing == {"rollback", "restore", "forgetRestored", "rolledBack", "exitRaising"}

\* What the program counter of the running frame says of the unit of work.
Phase(r) ==
    frames[r] # <<>> =>
        LET f == Top(r) IN
        /\ f.pc \notin {"sinkNow", "dispatchNow"}
        /\ f.pc \in Settled => ForgottenTo(4)
        /\ f.pc \in Unchanged => TakenTo(4)
        /\ f.pc = "snapshot" => TakenTo(f.index)
        /\ f.pc \in {"forget", "forgetRestored"} => ForgottenTo(f.index)
        /\ f.pc \in {"snapshot", "publish"} \cup Unchanged => inContext
        /\ f.pc \in Undoing => f.call.op = "allocate"
        /\ pending = IF f.pc \in {"copyPending", "extendSink", "discard"}
                     THEN Announced(r) ELSE <<>>
        /\ f.pc \in {"extendSink", "discard", "forget", "setCommitted"} => f.batch = Announced(r)
        /\ f.pc = "dispatch" => f.batch \in {Announced(r), <<>>}
        /\ f.pc = "exit" => f.batch = <<>>

Idle == (\A r \in Requests : frames[r] = <<>>) => ForgottenTo(4) /\ pending = <<>>

PhaseInv == Idle /\ \A r \in Requests : Stack(r) /\ Phase(r)

\* The steps of a request's own frame after its order is stored, and after it is announced.
AfterSink == {"discard", "forget", "setCommitted", "dispatch", "exit"}
AfterAdd == AfterSink \cup {"publish", "buffer", "copyPending", "extendSink"}

PlacedUpTo(q, steps) ==
    Placed(q) \/ (frames[q] # <<>> /\ calls[q].op = "place" /\ Own(q).pc \in steps)

Recorded(q) ==
    /\ q \in DOMAIN repo.orders <=> PlacedUpTo(q, AfterAdd)
    /\ Times(OrderPlaced(q)) = IF PlacedUpTo(q, AfterSink) THEN 1 ELSE 0

-----------------------------------------------------------------------------
(* The steps of the running frame *)

\* The running frame of r goes on, with this program counter and batch.
GoesOn(r, pc, batch) ==
    /\ Others(r) /\ frames'[r] # <<>> /\ Tail(frames'[r]) = Tail(frames[r])
    /\ Top(r)'.call = Top(r).call /\ Top(r)'.pc = pc /\ Top(r)'.batch = batch

LEMMA BecomeTop ==
    ASSUME FramesOK, NEW r \in Requests, frames[r] # <<>>, NEW f, Become(r, f),
           f.call = Top(r).call
    PROVE  GoesOn(r, f.pc, f.batch) /\ Top(r)' = f
  BY BecomeShape DEF GoesOn, Others

LEMMA GotoTop ==
    ASSUME FramesOK, NEW r \in Requests, frames[r] # <<>>, NEW pc, Goto(r, pc)
    PROVE  GoesOn(r, pc, Top(r).batch) /\ Top(r)'.index = 1
<1> DEFINE g == [Top(r) EXCEPT !.pc = pc, !.index = 1]
<1>1. Top(r) \in Frame
  BY TopOK
<1>2. g.call = Top(r).call /\ g.pc = pc /\ g.batch = Top(r).batch /\ g.index = 1
  BY <1>1 DEF Frame
<1>3. Become(r, g)
  BY DEF Goto
<1> HIDE DEF g
<1> QED
  BY <1>2, <1>3, BecomeTop

LEMMA AdvanceTop ==
    ASSUME FramesOK, NEW r \in Requests, frames[r] # <<>>, Advance(r)
    PROVE  GoesOn(r, Top(r).pc, Top(r).batch) /\ Top(r)'.index = Top(r).index + 1
<1> DEFINE g == [Top(r) EXCEPT !.index = @ + 1]
<1>1. Top(r) \in Frame
  BY TopOK
<1>2. g.call = Top(r).call /\ g.pc = Top(r).pc /\ g.batch = Top(r).batch
      /\ g.index = Top(r).index + 1
  BY <1>1 DEF Frame
<1>3. Become(r, g)
  BY DEF Advance
<1> HIDE DEF g
<1> QED
  BY <1>2, <1>3, BecomeTop

\* The pairs of program counters of a frame before and after a step of its own.
Flow == {<<"readProduct", "readProduct">>, <<"readProduct", "enter">>,
         <<"getOrder", "getInventory">>, <<"getInventory", "precheck">>,
         <<"precheck", "precheck">>, <<"precheck", "enter">>, <<"enter", "snapshot">>,
         <<"snapshot", "snapshot">>, <<"snapshot", "clearPending">>,
         <<"clearPending", "addOrder">>, <<"clearPending", "canFulfill">>,
         <<"clearPending", "addProduct">>, <<"clearPending", "upsert">>,
         <<"addProduct", "copyPending">>, <<"addOrder", "publish">>,
         <<"canFulfill", "load">>, <<"canFulfill", "upsert">>, <<"canFulfill", "rollback">>,
         <<"load", "store">>, <<"store", "canFulfill">>,
         <<"upsert", "copyPending">>, <<"upsert", "publish">>,
         <<"publish", "buffer">>, <<"publish", "sinkNow">>, <<"buffer", "copyPending">>,
         <<"sinkNow", "dispatchNow">>, <<"copyPending", "extendSink">>,
         <<"extendSink", "discard">>, <<"discard", "forget">>, <<"forget", "forget">>,
         <<"forget", "setCommitted">>, <<"setCommitted", "dispatch">>,
         <<"dispatch", "dispatch">>, <<"dispatchNow", "dispatchNow">>,
         <<"dispatch", "exit">>, <<"dispatchNow", "copyPending">>,
         <<"rollback", "restore">>, <<"rollback", "rolledBack">>,
         <<"restore", "restore">>, <<"restore", "forgetRestored">>,
         <<"restore", "exitRaising">>, <<"forgetRestored", "forgetRestored">>,
         <<"forgetRestored", "rolledBack">>, <<"rolledBack", "exitRaising">>}

\* The running frame takes a step of its own; only these steps change its batch.
OwnStep(r) ==
    /\ UNCHANGED <<result, errors>> /\ <<Top(r).pc, Top(r)'.pc>> \in Flow
    /\ GoesOn(r, Top(r)'.pc, Top(r)'.batch)
    /\ \/ CopyPending(r) \/ SinkNow(r) \/ Notify(r) \/ EndDispatch(r)
       \/ Top(r)'.batch = Top(r).batch

\* Where an exception leaves a frame.
Raising == {"readProduct", "getOrder", "getInventory", "precheck", "exitRaising"}

Ends(r) == \/ At(r, "exit") /\ Return(r, "ok")
           \/ frames[r] # <<>> /\ Top(r).pc \in Raising /\ Return(r, "raised")

\* The four ways a thread moves: a step of the running frame, its end, or a handler.
LEMMA Movement ==
    ASSUME IInv, NEW r \in Requests, Step(r)
    PROVE  OwnStep(r) \/ Ends(r) \/ CallAllocate(r)
<1> DEFINE f == Top(r)
<1>1. FramesOK /\ frames[r] # <<>> /\ f \in Frame
  <2>1. FramesOK /\ frames[r] # <<>>
    BY StepShape DEF IInv
  <2> QED
    BY <2>1, TopOK
<1> HIDE DEF f
<1>2. ASSUME NEW pc, Goto(r, pc), <<f.pc, pc>> \in Flow, UNCHANGED <<result, errors>>
      PROVE  OwnStep(r)
  BY <1>1, <1>2, GotoTop DEF OwnStep, GoesOn, f
<1>3. ASSUME Advance(r), <<f.pc, f.pc>> \in Flow, UNCHANGED <<result, errors>>
      PROVE  OwnStep(r)
  BY <1>1, <1>3, AdvanceTop DEF OwnStep, GoesOn, f
<1>4. ASSUME NEW g, Become(r, g), g.call = f.call, g.batch = f.batch, <<f.pc, g.pc>> \in Flow,
             UNCHANGED <<result, errors>>
      PROVE  OwnStep(r)
  BY <1>1, <1>4, BecomeTop DEF OwnStep, GoesOn, f
<1>5. ASSUME NEW g, Become(r, g), g.call = f.call, <<f.pc, g.pc>> \in Flow,
             CopyPending(r) \/ SinkNow(r) \/ Notify(r) \/ EndDispatch(r),
             UNCHANGED <<result, errors>>
      PROVE  OwnStep(r)
  BY <1>1, <1>5, BecomeTop DEF OwnStep, GoesOn, f
<1>6. CASE Exit(r) \/ RefuseOrder(r)
  BY <1>6 DEF Exit, RefuseOrder, Ends, Raising, At
<1>7. CASE CreateOrder(r) \/ Enter(r) \/ AddProduct(r) \/ AddOrder(r) \/ Buffer(r) \/ ExtendSink(r)
           \/ DiscardPending(r) \/ SetCommitted(r) \/ RolledBack(r)
  BY <1>2, <1>7 DEF CreateOrder, Enter, AddProduct, AddOrder, Buffer, ExtendSink, DiscardPending,
     SetCommitted, RolledBack, At, Flow, logs, f
<1>8. CASE UpsertInventory(r) \/ Publish(r) \/ Rollback(r)
  <2>1. UNCHANGED <<result, errors>> /\ \E pc : <<f.pc, pc>> \in Flow /\ Goto(r, pc)
    BY <1>8 DEF UpsertInventory, Publish, Rollback, At, Flow, logs, f
  <2> QED
    BY <1>2, <2>1
<1>9. CASE TakeSnapshot(r) \/ ClearSnapshot(r)
  <2>1. UNCHANGED <<result, errors>> /\ \/ <<f.pc, f.pc>> \in Flow /\ Advance(r)
                                        \/ \E pc : <<f.pc, pc>> \in Flow /\ Goto(r, pc)
    BY <1>9 DEF TakeSnapshot, ClearSnapshot, At, Flow, logs, f
  <2> QED
    BY <1>2, <1>3, <2>1
<1>10. CASE Restore(r)
  <2>1. UNCHANGED <<result, errors>> /\ \/ <<f.pc, f.pc>> \in Flow /\ Advance(r)
                                        \/ \E pc : <<f.pc, pc>> \in Flow /\ Goto(r, pc)
    BY <1>10 DEF Restore, At, Flow, logs, f
  <2> QED
    BY <1>2, <1>3, <2>1
<1>11. CASE ClearPending(r)
  <2>1. f.call \in AllCalls
    BY <1>1 DEF Frame
  <2>2. BodyStep(f.call.op) \in {"addOrder", "canFulfill", "addProduct", "upsert"}
    BY <2>1, CallArguments DEF BodyStep
  <2>3. <<f.pc, BodyStep(f.call.op)>> \in Flow
    BY <1>11, <2>2 DEF ClearPending, At, Flow, f
  <2> QED
    BY <1>2, <1>11, <2>3 DEF ClearPending, logs, f
<1>12. CASE Precheck(r)
  BY <1>1, <1>2, <1>3, <1>12 DEF Precheck, At, Flow, Ends, Raising, f
<1>13. CASE GetOrder(r) \/ GetInventory(r)
  <2>1. ASSUME NEW x
        PROVE  LET g == [f EXCEPT !.pc = "getInventory", !.lines = x]
               IN  g.call = f.call /\ g.batch = f.batch /\ g.pc = "getInventory"
    BY <1>1 DEF Frame
  <2>2. ASSUME NEW x
        PROVE  LET g == [f EXCEPT !.pc = "precheck", !.inventory = x]
               IN  g.call = f.call /\ g.batch = f.batch /\ g.pc = "precheck"
    BY <1>1 DEF Frame
  <2>3. CASE Return(r, "raised")
    BY <1>13, <2>3 DEF GetOrder, GetInventory, At, Ends, Raising
  <2>4. CASE ~Return(r, "raised")
    BY <1>1, <1>4, <1>13, <2>1, <2>2, <2>4 DEF GetOrder, GetInventory, At, Flow, f
  <2> QED
    BY <2>3, <2>4
<1>14. CASE ReadProduct(r)
  <2>1. ASSUME NEW x
        PROVE  LET g == [f EXCEPT !.index = @ + 1, !.currencies = @ \cup {x}]
               IN  g.call = f.call /\ g.batch = f.batch /\ g.pc = f.pc
    BY <1>1 DEF Frame
  <2> QED
    BY <1>1, <1>4, <1>14, <2>1 DEF ReadProduct, At, Flow, logs, f
<1>15. CASE CanFulfill(r) \/ LoadOnHand(r) \/ StoreOnHand(r)
  <2>1. ASSUME NEW x
        PROVE  LET g == [f EXCEPT !.pc = x]
               IN  g.call = f.call /\ g.batch = f.batch /\ g.pc = x
    BY <1>1 DEF Frame
  <2>2. ASSUME NEW x
        PROVE  LET g == [f EXCEPT !.pc = "store", !.onHand = x]
               IN  g.call = f.call /\ g.batch = f.batch /\ g.pc = "store"
    BY <1>1 DEF Frame
  <2>3. LET g == [f EXCEPT !.pc = "canFulfill", !.index = @ + 1, !.onHand = 0]
        IN  g.call = f.call /\ g.batch = f.batch /\ g.pc = "canFulfill"
    BY <1>1 DEF Frame
  <2>4. CASE CanFulfill(r)
    <3>1. PICK pc \in {"upsert", "load", "rollback"} : Become(r, [f EXCEPT !.pc = pc])
      BY <2>4 DEF CanFulfill, f
    <3>2. <<f.pc, pc>> \in Flow
      BY <2>4, <3>1 DEF CanFulfill, At, Flow, f
    <3> QED
      BY <1>4, <2>1, <2>4, <3>1, <3>2 DEF CanFulfill, logs
  <2>5. CASE LoadOnHand(r)
    BY <1>4, <2>2, <2>5 DEF LoadOnHand, At, Flow, logs, f
  <2>6. CASE StoreOnHand(r)
    BY <1>4, <2>3, <2>6 DEF StoreOnHand, At, Flow, logs, f
  <2> QED
    BY <1>15, <2>4, <2>5, <2>6
<1>16. CASE SinkNow(r) \/ CopyPending(r) \/ EndDispatch(r)
  <2>1. ASSUME NEW pc, NEW b
        PROVE  LET g == [f EXCEPT !.pc = pc, !.batch = b] IN g.call = f.call /\ g.pc = pc
    BY <1>1 DEF Frame
  <2>2. CASE SinkNow(r) \/ CopyPending(r)
    <3>1. PICK pc \in {"dispatchNow", "extendSink"}, b \in {pending, <<Announcement(r)>>} :
            Become(r, [f EXCEPT !.pc = pc, !.batch = b])
            /\ f.pc = IF pc = "dispatchNow" THEN "sinkNow" ELSE "copyPending"
      BY <2>2 DEF SinkNow, CopyPending, At, f
    <3>2. <<f.pc, pc>> \in Flow /\ UNCHANGED <<result, errors>>
      BY <2>2, <3>1 DEF SinkNow, CopyPending, Flow, logs
    <3> QED
      BY <1>5, <1>16, <2>1, <3>1, <3>2
  <2>3. CASE EndDispatch(r)
    <3> DEFINE pc == IF f.pc = "dispatch" THEN "exit" ELSE "copyPending"
    <3>1. <<f.pc, pc>> \in Flow
      BY <2>3 DEF EndDispatch, Dispatching, At, Flow, f
    <3>2. UNCHANGED <<result, errors>> /\ Become(r, [f EXCEPT !.pc = pc, !.batch = <<>>])
      BY <2>3 DEF EndDispatch, logs, f
    <3> HIDE DEF pc
    <3> QED
      BY <1>5, <1>16, <2>1, <3>1, <3>2
  <2> QED
    BY <1>16, <2>2, <2>3
<1>17. CASE Notify(r)
  <2>1. LET g == [f EXCEPT !.batch = Tail(@)] IN g.call = f.call /\ g.pc = f.pc
    BY <1>1 DEF Frame
  <2> QED
    BY <1>5, <1>17, <2>1 DEF Notify, Dispatching, At, Flow, f
<1> QED
  BY <1>6, <1>7, <1>8, <1>9, <1>10, <1>11, <1>12, <1>13, <1>14, <1>15, <1>16, <1>17 DEF Step

-----------------------------------------------------------------------------
(* The state between two steps is as PhaseInv says *)

\* The others have no frame, before or after, and no answer from this step.
LEMMA Alone ==
    ASSUME IInv, OneAtATime, NEW r \in Requests, Step(r)
    PROVE  /\ OneAtATime' /\ frames[r] # <<>> /\ UNCHANGED calls
           /\ \A q \in Requests \ {r} :
                 frames[q] = <<>> /\ frames'[q] = <<>> /\ result'[q] = result[q]
<1>1. Others(r) /\ frames[r] # <<>> /\ UNCHANGED calls
  BY StepShape
<1>2. \A q \in Requests \ {r} : frames[q] = <<>> /\ frames'[q] = <<>>
  BY <1>1 DEF OneAtATime, Others
<1>3. result \in [Requests -> {"none", "ok", "raised"}]
  BY DEF IInv, TypeOK
<1>4. \A q \in Requests \ {r} : result'[q] = result[q]
  BY <1>3, Movement DEF OwnStep, Ends, Return, CallAllocate
<1> QED
  BY <1>1, <1>2, <1>4 DEF OneAtATime

\* The frame of a handler is gone and its caller's batch is done; or the request is
\* answered.
LEMMA ReturnTop ==
    ASSUME IInv, NEW r \in Requests, frames[r] # <<>>, Stack(r),
           NEW outcome \in {"ok", "raised"}, Return(r, outcome)
    PROVE  \/ /\ ~Nested(r) /\ frames'[r] = <<>> /\ result'[r] = outcome /\ UNCHANGED errors
           \/ /\ Nested(r) /\ UNCHANGED result
              /\ frames'[r] # <<>> /\ Tail(frames'[r]) = <<>>
              /\ Top(r)'.call = calls[r] /\ Top(r)'.pc = "dispatch" /\ Top(r)'.batch = <<>>
              /\ errors' = IF outcome = "raised" THEN errors \cup {OrderPlaced(r)} ELSE errors
<1>1. frames \in [Requests -> Seq(Frame)] /\ result \in [Requests -> {"none", "ok", "raised"}]
  BY DEF IInv, TypeOK
<1>2. CASE Tail(frames[r]) = <<>>
  BY <1>1, <1>2 DEF Return, Nested
<1>3. CASE Tail(frames[r]) # <<>>
  <2> DEFINE g == [Own(r) EXCEPT !.batch = Tail(@)]
  <2>1. /\ Own(r) = Head(Tail(frames[r])) /\ Tail(Tail(frames[r])) = <<>>
        /\ Own(r).pc = "dispatch" /\ Own(r).batch = <<OrderPlaced(r)>> /\ Own(r).call = calls[r]
    BY <1>3 DEF Stack, Nested, Own
  <2>2. Own(r) \in Frame
    <3>1. Tail(frames[r]) \in Seq(Frame)
      BY <1>1
    <3> QED
      BY <1>3, <2>1, <3>1
  <2>3. g.call = calls[r] /\ g.pc = "dispatch" /\ g.batch = <<>>
    <3>1. Tail(<<OrderPlaced(r)>>) = <<>> /\ Head(<<OrderPlaced(r)>>) = OrderPlaced(r)
      OBVIOUS
    <3>2. \A b : LET h == [Own(r) EXCEPT !.batch = b]
                 IN  h.call = Own(r).call /\ h.pc = Own(r).pc /\ h.batch = b
      BY <2>2 DEF Frame
    <3> QED
      BY <2>1, <3>1, <3>2
  <2>4. frames' = [frames EXCEPT ![r] = <<g>> \o <<>>] /\ UNCHANGED result
        /\ errors' = IF outcome = "raised" THEN errors \cup {Head(<<OrderPlaced(r)>>)} ELSE errors
    BY <1>3, <2>1 DEF Return
  <2>5. frames'[r] = <<g>>
    <3>1. <<g>> \o <<>> = <<g>>
      OBVIOUS
    <3> QED
      BY <1>1, <2>4, <3>1
  <2> HIDE DEF g
  <2>6. frames'[r] # <<>> /\ Top(r)' = g /\ Tail(frames'[r]) = <<>>
    BY <2>5 DEF Top
  <2>7. Head(<<OrderPlaced(r)>>) = OrderPlaced(r)
    OBVIOUS
  <2> QED
    BY <1>3, <2>3, <2>4, <2>6, <2>7 DEF Nested
<1> QED
  BY <1>2, <1>3

\* A handler is called only by the frame of a request that has placed its order.
LEMMA CallTop ==
    ASSUME IInv, NEW r \in Requests, frames[r] # <<>>, Stack(r), Phase(r), CallAllocate(r)
    PROVE  /\ ~Nested(r) /\ calls[r].op = "place" /\ Top(r).call = calls[r]
           /\ Top(r).pc = "dispatch" /\ Top(r).batch = <<OrderPlaced(r)>>
           /\ frames'[r] # <<>> /\ Tail(frames'[r]) = frames[r]
           /\ Top(r)' = NewFrame(HandlerCall(r))
<1> DEFINE c == Top(r).call
           e == Head(Top(r).batch)
<1>1. Top(r).pc = "dispatch" /\ Top(r).batch # <<>> /\ e.type = "OrderPlaced"
  BY DEF CallAllocate, Dispatching, At, Phase
<1>2. Top(r).batch = Announced(r)
  BY <1>1 DEF Phase
<1>3. c.op = "place" /\ Top(r).batch = <<OrderPlaced(r)>>
  BY <1>1, <1>2 DEF Announced, Announcement, StockAllocated
<1>4. e.order = r
  BY <1>3 DEF OrderPlaced
<1>5. ~Nested(r)
  BY <1>3 DEF Stack, HandlerCall
<1>6. frames' = [frames EXCEPT ![r] = <<NewFrame(HandlerCall(r))>> \o frames[r]]
  BY <1>4 DEF CallAllocate, HandlerCall
<1>7. HandlerCall(r) \in AllCalls
  BY NamesAssumption DEF HandlerCall, AllCalls, AllocateCalls
<1>8. NewFrame(HandlerCall(r)) \in Frame /\ frames \in [Requests -> Seq(Frame)]
  BY <1>7, NewFrameOK DEF FrameOK, IInv, TypeOK
<1>9. /\ frames'[r] # <<>> /\ Tail(frames'[r]) = frames[r]
      /\ Top(r)' = NewFrame(HandlerCall(r))
  BY <1>6, <1>8, PushShape DEF Top
<1> QED
  BY <1>1, <1>3, <1>5, <1>9 DEF Stack, Own

LEMMA StackStep ==
    ASSUME IInv, OneAtATime, PhaseInv, NEW r \in Requests, Step(r)
    PROVE  \A q \in Requests : Stack(q)'
<1>1. /\ frames[r] # <<>> /\ UNCHANGED calls /\ Stack(r) /\ Phase(r)
      /\ \A q \in Requests \ {r} : frames'[q] = <<>> /\ result'[q] = result[q]
  BY Alone DEF PhaseInv
<1> SUFFICES Stack(r)'
  BY <1>1 DEF PhaseInv, Stack
<1>3. CASE OwnStep(r)
  <2>1. frames'[r] # <<>> /\ Tail(frames'[r]) = Tail(frames[r])
        /\ Top(r)'.call = Top(r).call /\ UNCHANGED result
    BY <1>3 DEF OwnStep, GoesOn
  <2> QED
    BY <1>1, <2>1 DEF Stack, Nested, Own
<1>4. CASE Ends(r)
  <2>1. PICK outcome \in {"ok", "raised"} : Return(r, outcome)
    BY <1>4 DEF Ends
  <2> QED
    BY <1>1, <2>1, ReturnTop DEF Stack, Nested, Own
<1>5. CASE CallAllocate(r)
  <2>1. NewFrame(HandlerCall(r)).call = HandlerCall(r)
    BY DEF NewFrame
  <2>2. /\ ~Nested(r) /\ calls[r].op = "place" /\ Top(r).pc = "dispatch"
        /\ Top(r).batch = <<OrderPlaced(r)>> /\ Top(r).call = calls[r]
        /\ frames'[r] # <<>> /\ Tail(frames'[r]) = frames[r]
        /\ Top(r)'.call = HandlerCall(r) /\ UNCHANGED result
    BY <1>1, <1>5, <2>1, CallTop DEF CallAllocate
  <2>3. Nested(r)' /\ Own(r)' = Top(r)
    BY <1>1, <2>2 DEF Nested, Own, Top
  <2> QED
    BY <1>1, <2>2, <2>3 DEF Stack, Nested
<1> QED
  BY <1>3, <1>4, <1>5, Movement

\* A snapshot that has been taken is a dictionary, so rollback will find it.
LEMMA TakenIsKept ==
    ASSUME IInv, TakenTo(4)
    PROVE  \A k \in DOMAIN snap : snap[k] # None
<1>1. IsProducts(repo.products) /\ IsOrders(repo.orders) /\ IsInventories(repo.inventories)
      /\ DOMAIN snap = {"products", "orders", "inventories"}
  BY DEF IInv, TypeOK
<1>2. repo.products # None
  BY <1>1, NoneAssumption DEF IsProducts, IsDict
<1>3. repo.orders # None
  BY <1>1, NoneAssumption DEF IsOrders, IsDict
<1>4. repo.inventories # None
  BY <1>1, NoneAssumption DEF IsInventories, IsDict, Objects
<1> QED
  BY <1>1, <1>2, <1>3, <1>4 DEF TakenTo

SameRepo == /\ repo'.products = repo.products /\ repo'.orders = repo.orders
            /\ repo'.inventories = repo.inventories

\* The k-th snapshot is taken, forgotten, or put back.
LEMMA NthSnapshot ==
    ASSUME TypeOK, NEW k \in Nat \ {0}, k <= 3
    PROVE  /\ snap' = [snap EXCEPT ![Repos[k]] = repo[Repos[k]]] /\ UNCHANGED repo
                 /\ TakenTo(k) => TakenTo(k + 1)'
           /\ snap' = [snap EXCEPT ![Repos[k]] = None] /\ ForgottenTo(k) => ForgottenTo(k + 1)'
           /\ TakenTo(4) /\ repo' = [repo EXCEPT ![Repos[k]] = snap[Repos[k]]] => SameRepo
<1>1. k = 1 \/ k = 2 \/ k = 3
  OBVIOUS
<1>2. DOMAIN repo = {"products", "orders", "inventories"} /\ DOMAIN snap = DOMAIN repo
  BY DEF TypeOK
<1>3. Repos[1] = "products" /\ Repos[2] = "orders" /\ Repos[3] = "inventories"
  BY DEF Repos
<1>4. snap' = [snap EXCEPT ![Repos[k]] = repo[Repos[k]]] /\ UNCHANGED repo /\ TakenTo(k)
        => TakenTo(k + 1)'
  BY <1>1, <1>2, <1>3 DEF TakenTo
<1>5. snap' = [snap EXCEPT ![Repos[k]] = None] /\ ForgottenTo(k) => ForgottenTo(k + 1)'
  BY <1>1, <1>2, <1>3 DEF ForgottenTo
<1>6. TakenTo(4) => snap[Repos[k]] = repo[Repos[k]]
  BY <1>1, <1>3 DEF TakenTo
<1>7. TakenTo(4) /\ repo' = [repo EXCEPT ![Repos[k]] = snap[Repos[k]]] => SameRepo
  BY <1>1, <1>2, <1>3, <1>6 DEF SameRepo
<1> QED
  BY <1>4, <1>5, <1>7

LEMMA PhaseOwnStep ==
    ASSUME IInv, NEW r \in Requests, frames[r] # <<>>, Stack(r), Phase(r), Step(r), OwnStep(r)
    PROVE  Phase(r)'
<1>1. FramesOK /\ TypeOK /\ Top(r) \in Frame /\ FrameOK(Top(r))
  BY TopOK DEF IInv
<1>2. /\ frames'[r] # <<>> /\ Top(r)'.call = Top(r).call /\ <<Top(r).pc, Top(r)'.pc>> \in Flow
      /\ CopyPending(r) \/ SinkNow(r) \/ Notify(r) \/ EndDispatch(r) \/ Top(r)'.batch = Top(r).batch
  BY DEF OwnStep, GoesOn
<1>3. Announced(r)' = Announced(r)
  BY <1>2 DEF Announced, Announcement
<1>4. CASE \/ ReadProduct(r) \/ CreateOrder(r) \/ GetOrder(r) \/ GetInventory(r) \/ Precheck(r)
  <2>1. Top(r).pc \in {"readProduct", "getOrder", "getInventory", "precheck"}
        /\ UNCHANGED <<snap, pending>>
    BY <1>4 DEF ReadProduct, CreateOrder, GetOrder, GetInventory, Precheck, At, uow
  <2>2. Top(r)'.pc \in Before
    BY <1>2, <2>1 DEF Flow, Before
  <2> QED
    BY <1>2, <2>1, <2>2 DEF Phase, Before, Settled, Unchanged, Undoing, ForgottenTo
<1>5. CASE Enter(r)
  <2>1. Top(r).pc = "enter" /\ Top(r)'.pc = "snapshot" /\ Top(r)'.index = 1
        /\ UNCHANGED <<snap, pending>> /\ inContext'
    BY <1>1, <1>5, GotoTop DEF Enter, At, GoesOn
  <2> QED
    BY <2>1 DEF Phase, Before, Settled, Unchanged, Undoing, TakenTo, ForgottenTo
<1>6. CASE TakeSnapshot(r)
  <2>1. PICK k \in {1, 2, 3} : Top(r).index = k
    BY <1>1, <1>6 DEF TakeSnapshot, At, FrameOK, Frame
  <2>2. /\ Top(r).pc = "snapshot" /\ snap' = [snap EXCEPT ![Repos[k]] = repo[Repos[k]]]
        /\ UNCHANGED <<repo, pending, inContext>>
    BY <1>6, <2>1 DEF TakeSnapshot, At, stores
  <2>3. TakenTo(k + 1)'
    <3>1. TakenTo(k)
      BY <2>1, <2>2 DEF Phase
    <3>2. k \in Nat \ {0} /\ k <= 3
      OBVIOUS
    <3> QED
      BY <1>1, <2>2, <3>1, <3>2, NthSnapshot
  <2>4. CASE k < 3
    <3>1. Top(r)'.pc = "snapshot" /\ Top(r)'.index = k + 1
      BY <1>1, <1>6, <2>1, <2>2, <2>4, AdvanceTop DEF TakeSnapshot, GoesOn, Repos
    <3>2. TakenTo(Top(r).index)'
      BY <2>3, <3>1
    <3> QED
      BY <2>2, <3>1, <3>2 DEF Phase, Before, Settled, Unchanged, Undoing
  <2>5. CASE k = 3
    <3>1. Top(r)'.pc = "clearPending"
      BY <1>1, <1>6, <2>1, <2>5, GotoTop DEF TakeSnapshot, GoesOn, Repos
    <3>2. TakenTo(4)'
      BY <2>3, <2>5
    <3> QED
      BY <2>2, <3>1, <3>2 DEF Phase, Before, Settled, Unchanged, Undoing
  <2> QED
    BY <2>1, <2>4, <2>5
<1>7. CASE ClearPending(r)
  <2>1. Top(r).pc = "clearPending" /\ pending' = <<>> /\ UNCHANGED <<repo, snap, inContext>>
    BY <1>7 DEF ClearPending, At, stores
  <2>2. Top(r)'.pc \in {"addProduct", "addOrder", "canFulfill", "upsert"}
    BY <1>2, <2>1 DEF Flow
  <2> QED
    BY <2>1, <2>2 DEF Phase, Before, Settled, Unchanged, Undoing, TakenTo
<1>8. CASE AddProduct(r) \/ AddOrder(r) \/ UpsertInventory(r)
  <2>1. UNCHANGED <<snap, pending, inContext>>
    BY <1>8 DEF AddProduct, AddOrder, UpsertInventory, uow
  <2>2. CASE AddProduct(r) \/ (UpsertInventory(r) /\ Top(r).call.op = "stock")
    <3>1. /\ Top(r).pc \in {"addProduct", "upsert"} /\ Top(r).call.op \in {"product", "stock"}
          /\ Top(r)'.pc = "copyPending"
      BY <1>1, <2>2, GotoTop DEF AddProduct, UpsertInventory, At, GoesOn, FrameOK, Fits
    <3>2. Announced(r)' = <<>>
      BY <1>3, <3>1 DEF Announced
    <3> QED
      BY <2>1, <3>1, <3>2 DEF Phase, Before, Settled, Unchanged, Undoing
  <2>3. CASE AddOrder(r) \/ (UpsertInventory(r) /\ Top(r).call.op # "stock")
    <3>1. Top(r).pc \in {"addOrder", "upsert"} /\ Top(r)'.pc = "publish"
      BY <1>1, <2>3, GotoTop DEF AddOrder, UpsertInventory, At, GoesOn
    <3> QED
      BY <2>1, <3>1 DEF Phase, Before, Settled, Unchanged, Undoing
  <2> QED
    BY <1>8, <2>2, <2>3
<1>9. CASE CanFulfill(r) \/ LoadOnHand(r) \/ StoreOnHand(r)
  <2>1. Top(r).pc \in {"canFulfill", "load", "store"} /\ UNCHANGED <<repo, snap, pending, inContext>>
    BY <1>9 DEF CanFulfill, LoadOnHand, StoreOnHand, At, stores, uow
  <2>2. Top(r)'.pc \in {"canFulfill", "load", "store", "upsert", "rollback"}
        /\ Top(r).call.op = "allocate"
    BY <1>1, <1>2, <2>1 DEF Flow, FrameOK, Fits
  <2> QED
    BY <1>2, <2>1, <2>2 DEF Phase, Before, Settled, Unchanged, Undoing, TakenTo
<1>10. CASE Publish(r) \/ Buffer(r) \/ SinkNow(r)
  <2>1. ~SinkNow(r)
    BY DEF SinkNow, At, Phase
  <2>2. CASE Publish(r)
    <3>1. Top(r).pc = "publish" /\ UNCHANGED <<snap, pending, inContext>>
      BY <2>2 DEF Publish, At, uow
    <3>2. inContext
      BY <3>1 DEF Phase
    <3>3. Top(r)'.pc = "buffer"
      BY <1>1, <2>2, <3>2, GotoTop DEF Publish, GoesOn
    <3> QED
      BY <3>1, <3>3 DEF Phase, Before, Settled, Unchanged, Undoing
  <2>3. CASE Buffer(r)
    <3>1. Top(r).pc = "buffer" /\ pending' = Append(pending, Announcement(r))
      BY <2>3 DEF Buffer, At
    <3>2. pending = <<>> /\ Top(r).call.op \in {"place", "allocate"}
      BY <1>1, <3>1 DEF Phase, FrameOK, Fits
    <3>3. pending' = Announced(r)'
      BY <1>3, <3>1, <3>2 DEF Announced
    <3>4. Top(r)'.pc = "copyPending"
      BY <1>1, <2>3, GotoTop DEF Buffer, GoesOn
    <3> QED
      BY <3>3, <3>4 DEF Phase, Before, Settled, Unchanged, Undoing
  <2> QED
    BY <1>10, <2>1, <2>2, <2>3
<1>11. CASE CopyPending(r)
  <2> DEFINE g == [Top(r) EXCEPT !.pc = "extendSink", !.batch = pending]
  <2>1. g.pc = "extendSink" /\ g.batch = pending /\ Become(r, g)
    BY <1>1, <1>11 DEF CopyPending, Frame
  <2> HIDE DEF g
  <2>2. Top(r)'.pc = "extendSink" /\ Top(r)'.batch = pending
    BY <1>1, <2>1, BecomeShape
  <2>3. Top(r).pc = "copyPending" /\ UNCHANGED <<snap, pending>>
    BY <1>11 DEF CopyPending, At, uow
  <2>4. pending = Announced(r)'
    BY <1>3, <2>3 DEF Phase
  <2> QED
    BY <2>2, <2>3, <2>4 DEF Phase, Before, Settled, Unchanged, Undoing
<1>12. CASE ExtendSink(r)
  <2>1. Top(r).pc = "extendSink" /\ Top(r)'.pc = "discard" /\ Top(r)'.batch = Top(r).batch
        /\ UNCHANGED <<snap, pending>>
    BY <1>1, <1>12, GotoTop DEF ExtendSink, At, GoesOn, uow
  <2> QED
    BY <1>3, <2>1 DEF Phase, Before, Settled, Unchanged, Undoing
<1>13. CASE DiscardPending(r)
  <2>1. Top(r).pc = "discard" /\ Top(r)'.pc = "forget" /\ Top(r)'.batch = Top(r).batch
        /\ Top(r)'.index = 1 /\ UNCHANGED snap /\ pending' = <<>>
    BY <1>1, <1>13, GotoTop DEF DiscardPending, At, GoesOn
  <2> QED
    BY <1>3, <2>1 DEF Phase, Before, Settled, Unchanged, Undoing, ForgottenTo
<1>14. CASE ClearSnapshot(r)
  <2>1. PICK pc \in {"forget", "forgetRestored"}, k \in {1, 2, 3} :
          /\ Top(r).pc = pc /\ Top(r).index = k /\ snap' = [snap EXCEPT ![Repos[k]] = None]
          /\ IF k < Len(Repos) THEN Advance(r)
             ELSE Goto(r, IF pc = "forget" THEN "setCommitted" ELSE "rolledBack")
    <3>1. Top(r).index \in {1, 2, 3}
      BY <1>1, <1>14 DEF ClearSnapshot, At, FrameOK, Frame
    <3> QED
      BY <1>14, <3>1 DEF ClearSnapshot, At
  <2>2. UNCHANGED pending /\ Len(Repos) = 3
    BY <1>14 DEF ClearSnapshot, Repos
  <2>3. ForgottenTo(k + 1)'
    <3>1. ForgottenTo(k)
      BY <2>1 DEF Phase
    <3>2. k \in Nat \ {0} /\ k <= 3
      OBVIOUS
    <3> QED
      BY <1>1, <2>1, <3>1, <3>2, NthSnapshot
  <2>4. Top(r)'.batch = Top(r).batch
    BY <1>1, <2>1, GotoTop, AdvanceTop DEF GoesOn
  <2>5. CASE k < 3
    <3>1. Top(r)'.pc = pc /\ Top(r)'.index = k + 1
      BY <1>1, <2>1, <2>2, <2>5, AdvanceTop DEF GoesOn
    <3>2. ForgottenTo(Top(r).index)'
      BY <2>3, <3>1
    <3> QED
      BY <1>2, <1>3, <2>1, <2>2, <2>4, <3>1, <3>2 DEF Phase, Before, Settled, Unchanged, Undoing
  <2>6. CASE k = 3
    <3>1. Top(r)'.pc = IF pc = "forget" THEN "setCommitted" ELSE "rolledBack"
      BY <1>1, <2>1, <2>2, <2>6, GotoTop DEF GoesOn
    <3>2. ForgottenTo(4)'
      BY <2>3, <2>6
    <3> QED
      BY <1>2, <1>3, <2>1, <2>2, <2>4, <3>1, <3>2 DEF Phase, Before, Settled, Unchanged, Undoing
  <2> QED
    BY <2>1, <2>5, <2>6
<1>15. CASE SetCommitted(r)
  <2>1. Top(r).pc = "setCommitted" /\ Top(r)'.pc = "dispatch" /\ Top(r)'.batch = Top(r).batch
        /\ UNCHANGED <<snap, pending>>
    BY <1>1, <1>15, GotoTop DEF SetCommitted, At, GoesOn
  <2> QED
    BY <1>3, <2>1 DEF Phase, Before, Settled, Unchanged, Undoing, ForgottenTo
<1>16. CASE Notify(r)
  <2> DEFINE g == [Top(r) EXCEPT !.batch = Tail(@)]
  <2>1. g.pc = Top(r).pc /\ g.batch = Tail(Top(r).batch) /\ Become(r, g)
    BY <1>1, <1>16 DEF Notify, Frame
  <2> HIDE DEF g
  <2>2. Top(r)'.pc = Top(r).pc /\ Top(r)'.batch = Tail(Top(r).batch)
    BY <1>1, <2>1, BecomeShape
  <2>3. Top(r).pc = "dispatch" /\ Top(r).batch # <<>> /\ UNCHANGED <<snap, pending>>
    BY <1>16 DEF Notify, Dispatching, At, Phase, uow
  <2>4. Top(r).batch = <<Announcement(r)>>
    BY <2>3 DEF Phase, Announced
  <2>5. Tail(Top(r).batch) = <<>>
    BY <2>4
  <2> QED
    BY <2>2, <2>3, <2>5 DEF Phase, Before, Settled, Unchanged, Undoing, ForgottenTo
<1>17. CASE EndDispatch(r)
  <2>1. Top(r).pc = "dispatch" /\ UNCHANGED <<snap, pending>>
    BY <1>17 DEF EndDispatch, Dispatching, At, Phase, uow
  <2> DEFINE g == [Top(r) EXCEPT !.pc = "exit", !.batch = <<>>]
  <2>2. g.pc = "exit" /\ g.batch = <<>> /\ Become(r, g)
    BY <1>1, <1>17, <2>1 DEF EndDispatch, Frame
  <2> HIDE DEF g
  <2>3. Top(r)'.pc = "exit" /\ Top(r)'.batch = <<>>
    BY <1>1, <2>2, BecomeShape
  <2> QED
    BY <2>1, <2>3 DEF Phase, Before, Settled, Unchanged, Undoing, ForgottenTo
<1>18. CASE Rollback(r)
  <2>1. Top(r).pc = "rollback" /\ UNCHANGED <<repo, snap, pending, inContext>>
    BY <1>18 DEF Rollback, At, stores, uow
  <2>2. \A k \in DOMAIN snap : snap[k] # None
    BY <2>1, TakenIsKept DEF Phase, Unchanged
  <2>3. Top(r)'.pc = "restore"
    BY <1>1, <1>18, <2>2, GotoTop DEF Rollback, GoesOn
  <2> QED
    BY <1>2, <2>1, <2>3 DEF Phase, Before, Settled, Unchanged, Undoing, TakenTo
<1>19. CASE Restore(r)
  <2>1. PICK k \in {1, 2, 3} : Top(r).index = k
    BY <1>1, <1>19 DEF Restore, At, FrameOK, Frame
  <2>2. Top(r).pc = "restore" /\ UNCHANGED <<snap, pending, inContext>>
    BY <1>19 DEF Restore, At, uow
  <2>3. TakenTo(4)
    BY <2>2 DEF Phase, Unchanged
  <2>4. snap[Repos[k]] # None
    BY <1>1, <2>3, TakenIsKept, ReposOK DEF TypeOK
  <2>5. repo' = [repo EXCEPT ![Repos[k]] = snap[Repos[k]]]
        /\ IF k < Len(Repos) THEN Advance(r) ELSE Goto(r, "forgetRestored")
    BY <1>19, <2>1, <2>4 DEF Restore
  <2>6. TakenTo(4)'
    <3>1. k \in Nat \ {0} /\ k <= 3
      OBVIOUS
    <3>2. SameRepo
      BY <1>1, <2>3, <2>5, <3>1, NthSnapshot
    <3> QED
      BY <2>2, <2>3, <3>2 DEF TakenTo, SameRepo
  <2>7. Top(r)'.pc = "restore" \/ (Top(r)'.pc = "forgetRestored" /\ Top(r)'.index = 1)
    BY <1>1, <2>2, <2>5, GotoTop, AdvanceTop DEF GoesOn
  <2>8. ForgottenTo(1)'
    BY DEF ForgottenTo
  <2>9. CASE Top(r)'.pc = "restore"
    BY <1>2, <2>2, <2>6, <2>9 DEF Phase, Before, Settled, Unchanged, Undoing
  <2>10. CASE Top(r)'.pc = "forgetRestored" /\ Top(r)'.index = 1
    <3>1. ForgottenTo(Top(r).index)'
      BY <2>8, <2>10
    <3> QED
      BY <1>2, <2>2, <2>10, <3>1 DEF Phase, Before, Settled, Unchanged, Undoing
  <2> QED
    BY <2>7, <2>9, <2>10
<1>20. CASE RolledBack(r)
  <2>1. Top(r).pc = "rolledBack" /\ Top(r)'.pc = "exitRaising" /\ UNCHANGED snap /\ pending' = <<>>
    BY <1>1, <1>20, GotoTop DEF RolledBack, At, GoesOn
  <2> QED
    BY <1>2, <2>1 DEF Phase, Before, Settled, Unchanged, Undoing, ForgottenTo
<1>21. ~(RefuseOrder(r) \/ Exit(r) \/ CallAllocate(r))
  <2>1. frames'[r] # <<>> /\ Tail(frames'[r]) = Tail(frames[r])
    BY DEF OwnStep, GoesOn
  <2>2. ASSUME NEW outcome \in {"ok", "raised"}, Return(r, outcome) PROVE FALSE
    BY <2>1, <2>2, ReturnTop DEF Nested
  <2>3. ~CallAllocate(r)
    BY <2>1, CallTop DEF Nested
  <2> QED
    BY <2>2, <2>3 DEF RefuseOrder, Exit
<1> QED
  BY <1>4, <1>5, <1>6, <1>7, <1>8, <1>9, <1>10, <1>11, <1>12, <1>13, <1>14, <1>15, <1>16, <1>17,
     <1>18, <1>19, <1>20, <1>21 DEF Step

LEMMA EndsKeeps ==
    ASSUME NEW r \in Requests, Step(r), Ends(r)
    PROVE  UNCHANGED <<stores, snap, pending, sink, sent, calls>>
<1>1. frames[r] # <<>> /\ Top(r).pc \in {"exit"} \cup Raising
  BY DEF Ends, At
<1>2. \/ ReadProduct(r) \/ CreateOrder(r) \/ RefuseOrder(r) \/ GetOrder(r) \/ GetInventory(r)
      \/ Precheck(r) \/ Exit(r)
  BY <1>1 DEF Step, At, Raising, Enter, TakeSnapshot, ClearPending, AddProduct, AddOrder,
     UpsertInventory, CanFulfill, LoadOnHand, StoreOnHand, Publish, Buffer, SinkNow, CopyPending,
     ExtendSink, DiscardPending, ClearSnapshot, SetCommitted, Notify, CallAllocate, EndDispatch,
     Dispatching, Rollback, Restore, RolledBack
<1> QED
  BY <1>2 DEF ReadProduct, CreateOrder, RefuseOrder, GetOrder, GetInventory, Precheck, Exit,
     stores, uow, logs

LEMMA PhaseStep ==
    ASSUME IInv, OneAtATime, PhaseInv, NEW r \in Requests, Step(r)
    PROVE  PhaseInv'
<1>1. /\ frames[r] # <<>> /\ Stack(r) /\ Phase(r)
      /\ \A q \in Requests \ {r} : frames'[q] = <<>>
  BY Alone DEF PhaseInv
<1>2. \A q \in Requests : Stack(q)'
  BY StackStep
<1>3. \A q \in Requests \ {r} : Phase(q)'
  BY <1>1 DEF Phase
<1> SUFFICES Idle' /\ Phase(r)'
  BY <1>2, <1>3 DEF PhaseInv
<1>4. CASE OwnStep(r)
  BY <1>1, <1>4, PhaseOwnStep DEF OwnStep, GoesOn, Idle
<1>5. CASE Ends(r)
  <2>1. PICK outcome \in {"ok", "raised"} : Return(r, outcome)
    BY <1>5 DEF Ends
  <2>2. ForgottenTo(4) /\ pending = <<>>
    <3>1. Top(r).pc \in {"exit"} \cup Raising
      BY <1>5 DEF Ends, At
    <3> QED
      BY <1>1, <3>1 DEF Phase, Settled, Before, Raising
  <2>3. ForgottenTo(4)' /\ pending' = <<>>
    BY <1>5, <2>2, EndsKeeps DEF ForgottenTo
  <2>4. CASE frames'[r] = <<>>
    BY <2>3, <2>4 DEF Idle, Phase
  <2>5. CASE frames'[r] # <<>>
    <3>1. Top(r)'.pc = "dispatch" /\ Top(r)'.batch = <<>>
      BY <1>1, <2>1, <2>5, ReturnTop
    <3>2. Phase(r)'
      BY <2>3, <3>1 DEF Phase, Before, Settled, Unchanged, Undoing
    <3> QED
      BY <2>5, <3>2 DEF Idle
  <2> QED
    BY <2>4, <2>5
<1>6. CASE CallAllocate(r)
  <2>1. Top(r).pc = "dispatch" /\ frames'[r] # <<>> /\ Top(r)' = NewFrame(HandlerCall(r))
    BY <1>1, <1>6, CallTop
  <2>2. NewFrame(HandlerCall(r)).pc = "getOrder"
    BY DEF NewFrame, HandlerCall, FirstStep
  <2>3. Top(r)'.pc = "getOrder"
    BY <2>1, <2>2
  <2>4. ForgottenTo(4)' /\ pending' = <<>>
    BY <1>1, <1>6, <2>1 DEF Phase, Before, Settled, CallAllocate, uow, ForgottenTo
  <2>5. Phase(r)'
    BY <2>3, <2>4 DEF Phase, Before, Settled, Unchanged, Undoing
  <2> QED
    BY <2>1, <2>5 DEF Idle
<1> QED
  BY <1>4, <1>5, <1>6, Movement

LEMMA PhaseReceive ==
    ASSUME PoolSize = 1, IInv, PhaseInv, NEW r \in Requests, NEW c \in Calls, Receive(r, c)
    PROVE  OneAtATime' /\ PhaseInv'
<1>1. /\ calls[r] = None /\ calls' = [calls EXCEPT ![r] = c]
      /\ frames' = [frames EXCEPT ![r] = <<NewFrame(c)>>]
      /\ UNCHANGED <<snap, pending, result>>
  BY DEF Receive, uow
<1>2. frames \in [Requests -> Seq(Frame)] /\ calls \in [Requests -> Calls \cup {None}]
  BY DEF IInv, TypeOK
<1>3. \A q \in Requests : frames[q] = <<>>
  BY NobodyBusy DEF Busy
<1>4. /\ frames'[r] = <<NewFrame(c)>> /\ calls'[r] = c
      /\ \A q \in Requests \ {r} : frames'[q] = <<>> /\ calls'[q] = calls[q]
  BY <1>1, <1>2, <1>3
<1>5. /\ frames'[r] # <<>> /\ Tail(frames'[r]) = <<>>
      /\ Top(r)'.call = c /\ Top(r)'.pc \in {"readProduct", "getOrder", "enter"}
  <2>1. NewFrame(c).call = c /\ NewFrame(c).pc \in {"readProduct", "getOrder", "enter"}
    BY DEF NewFrame, FirstStep
  <2> QED
    BY <1>4, <2>1 DEF Top
<1>6. ForgottenTo(4)' /\ pending' = <<>>
  BY <1>1, <1>3 DEF PhaseInv, Idle, ForgottenTo
<1>7. Phase(r)' /\ Idle'
  BY <1>5, <1>6 DEF Phase, Idle, Before, Settled, Unchanged, Undoing
<1>8. c # None /\ result[r] = "none"
  BY <1>1, CallsAssumption DEF PhaseInv, Stack
<1>9. Stack(r)'
  BY <1>1, <1>4, <1>5, <1>8 DEF Stack, Nested, Own
<1>10. \A q \in Requests \ {r} : Stack(q)' /\ Phase(q)'
  BY <1>1, <1>4 DEF PhaseInv, Stack, Phase
<1> QED
  BY <1>4, <1>7, <1>9, <1>10 DEF PhaseInv, OneAtATime

LEMMA PhaseStutter ==
    ASSUME PhaseInv, UNCHANGED vars
    PROVE  PhaseInv'
<1>1. \A r \in Requests : Stack(r)'
  BY DEF PhaseInv, Stack, Nested, Own, Top, vars
<1>2. \A r \in Requests : Phase(r)'
  BY DEF PhaseInv, Phase, TakenTo, ForgottenTo, Announced, Announcement, Top, vars
<1>3. Idle'
  BY DEF PhaseInv, Idle, ForgottenTo, vars
<1> QED
  BY <1>1, <1>2, <1>3 DEF PhaseInv

LEMMA InPhase ==
    ASSUME PoolSize = 1
    PROVE  Spec => [](OneAtATime /\ PhaseInv)
<1>1. Init => OneAtATime /\ PhaseInv
  BY DEF Init, OneAtATime, PhaseInv, Idle, Stack, Phase, ForgottenTo
<1>2. IInv /\ (OneAtATime /\ PhaseInv) /\ [Next]_vars => (OneAtATime /\ PhaseInv)'
  <2> SUFFICES ASSUME IInv, OneAtATime, PhaseInv, [Next]_vars PROVE OneAtATime' /\ PhaseInv'
    OBVIOUS
  <2>1. CASE UNCHANGED vars
    BY <2>1, PhaseStutter DEF OneAtATime, vars
  <2> QED
    BY <2>1, Alone, PhaseStep, PhaseReceive DEF Next, AllServed
<1> QED
  BY <1>1, <1>2, Inductive, PTL DEF Spec

\* Served by one thread, a unit of work leaves no snapshot behind, however it ends: the
\* commit, the rollback and the exceptions before the `with` block forget or never take
\* the three of them, so that no later rollback can restore an old repository (commit,
\* _restore_snapshots, _clear_snapshots).
THEOREM SnapshotsForgotten ==
    ASSUME PoolSize = 1
    PROVE  Spec => []NoSnapshotLeft
<1>1. IInv /\ OneAtATime /\ PhaseInv => NoSnapshotLeft
  BY DEF IInv, TypeOK, PhaseInv, Idle, ForgottenTo, NoSnapshotLeft, Busy
<1> QED
  BY <1>1, InPhase, Inductive, PTL

-----------------------------------------------------------------------------
(* Counting in the logs *)

Occurrences(s, e) == Cardinality({i \in DOMAIN s : s[i] = e})

\* A log grows by one event, or not at all.
LEMMA LogGrows ==
    ASSUME NEW s \in Seq(Events), NEW x \in Events, NEW e
    PROVE  /\ Occurrences(s, e) \in Nat
           /\ Occurrences(s \o <<x>>, e) = Occurrences(s, e) + (IF x = e THEN 1 ELSE 0)
           /\ s \o <<>> = s
<1> DEFINE n == Len(s) + 1
           t == s \o <<x>>
           A == {i \in DOMAIN s : s[i] = e}
           B == {i \in DOMAIN t : t[i] = e}
<1>1. /\ DOMAIN s = 1..Len(s) /\ DOMAIN t = 1..n /\ n \in Nat /\ Len(s) \in Nat
      /\ t[n] = x /\ \A i \in 1..Len(s) : t[i] = s[i]
  OBVIOUS
<1>2. IsFiniteSet(A) /\ Cardinality(A) \in Nat
  <2>1. IsFiniteSet(1..Len(s))
    BY <1>1, FS_Interval
  <2>2. A \subseteq 1..Len(s)
    BY <1>1
  <2> QED
    BY <2>1, <2>2, FS_Subset, FS_CardinalityType
<1>3. n \notin A
  BY <1>1
<1>4. B = IF x = e THEN A \cup {n} ELSE A
  BY <1>1
<1>5. Cardinality(A \cup {n}) = Cardinality(A) + 1
  BY <1>2, <1>3, FS_AddElement
<1>6. Occurrences(s, e) = Cardinality(A) /\ Occurrences(t, e) = Cardinality(B)
  BY DEF Occurrences
<1>7. s \o <<>> = s
  OBVIOUS
<1> HIDE DEF A, B, t, n
<1>8. Occurrences(t, e) = Occurrences(s, e) + (IF x = e THEN 1 ELSE 0)
  BY <1>2, <1>4, <1>5, <1>6
<1> QED
  BY <1>2, <1>6, <1>7, <1>8 DEF t

-----------------------------------------------------------------------------
(* The repository and the sink tell the same story *)

\* Only AddOrder changes the orders, and only ExtendSink the sink.
LEMMA StepLogs ==
    ASSUME IInv, NEW r \in Requests, frames[r] # <<>>, Phase(r), Step(r)
    PROVE  /\ \/ AddOrder(r)
              \/ Top(r).pc # "addOrder" /\ repo'.orders = repo.orders
           /\ \/ ExtendSink(r) /\ sink' = sink \o Announced(r)
              \/ Top(r).pc # "extendSink" /\ UNCHANGED sink
<1>1. /\ DOMAIN repo = {"products", "orders", "inventories"} /\ TypeOK /\ FrameOK(Top(r))
      /\ Top(r) \in Frame
  BY TopOK DEF IInv, TypeOK
<1>2. \/ AddOrder(r)
      \/ Top(r).pc # "addOrder" /\ repo'.orders = repo.orders
  <2>1. CASE Restore(r)
    <3>1. PICK k \in {1, 2, 3} : Top(r).index = k
      BY <1>1, <2>1 DEF Restore, At, FrameOK, Frame
    <3>2. Top(r).pc = "restore"
      BY <2>1 DEF Restore, At
    <3>3. UNCHANGED repo \/ repo' = [repo EXCEPT ![Repos[k]] = snap[Repos[k]]]
      BY <2>1, <3>1 DEF Restore
    <3>4. TakenTo(4) /\ k \in Nat \ {0} /\ k <= 3
      BY <3>2 DEF Phase, Unchanged
    <3> QED
      BY <1>1, <3>2, <3>3, <3>4, NthSnapshot DEF SameRepo
  <2>2. CASE AddProduct(r) \/ UpsertInventory(r)
    BY <1>1, <2>2 DEF AddProduct, UpsertInventory, At
  <2>3. CASE ~Restore(r) /\ ~AddProduct(r) /\ ~UpsertInventory(r) /\ ~AddOrder(r)
    BY <2>3 DEF Step, At, ReadProduct, CreateOrder, RefuseOrder, GetOrder, GetInventory,
       Precheck, Enter, TakeSnapshot, ClearPending, CanFulfill, LoadOnHand, StoreOnHand, Publish,
       Buffer, SinkNow, CopyPending, ExtendSink, DiscardPending, ClearSnapshot, SetCommitted,
       Notify, CallAllocate, EndDispatch, Dispatching, Rollback, RolledBack, Exit, stores
  <2> QED
    BY <2>1, <2>2, <2>3
<1>3. \/ ExtendSink(r) /\ sink' = sink \o Announced(r)
      \/ Top(r).pc # "extendSink" /\ UNCHANGED sink
  <2>1. CASE ExtendSink(r)
    BY <2>1 DEF ExtendSink, At, Phase
  <2>2. CASE ~ExtendSink(r)
    BY <2>2 DEF Phase, Step, At, ReadProduct, CreateOrder, RefuseOrder, GetOrder, GetInventory,
       Precheck, Enter, TakeSnapshot, ClearPending, AddProduct, AddOrder, UpsertInventory,
       CanFulfill, LoadOnHand, StoreOnHand, Publish, Buffer, SinkNow, CopyPending, DiscardPending,
       ClearSnapshot, SetCommitted, Notify, CallAllocate, EndDispatch, Dispatching, Rollback,
       Restore, RolledBack, Exit, logs
  <2> QED
    BY <2>1, <2>2
<1> QED
  BY <1>2, <1>3

\* A request gets past AddOrder by AddOrder and past ExtendSink by ExtendSink, once.
LEMMA PlacedSteps ==
    ASSUME IInv, NEW r \in Requests, frames[r] # <<>>, Stack(r), Phase(r), Step(r), UNCHANGED calls
    PROVE  /\ PlacedUpTo(r, AfterAdd)' <=> PlacedUpTo(r, AfterAdd) \/ AddOrder(r)
           /\ PlacedUpTo(r, AfterSink)' <=> \/ PlacedUpTo(r, AfterSink)
                                            \/ ExtendSink(r) /\ Top(r).call.op = "place"
           /\ AddOrder(r) => ~PlacedUpTo(r, AfterAdd)
           /\ ExtendSink(r) /\ Top(r).call.op = "place" => ~PlacedUpTo(r, AfterSink)
<1>1. FrameOK(Top(r)) /\ result[r] = "none"
  BY TopOK DEF IInv, Stack
<1>2. AddOrder(r) <=> Top(r).pc = "addOrder"
  BY StepLogs DEF AddOrder, At
<1>3. ExtendSink(r) <=> Top(r).pc = "extendSink"
  BY StepLogs DEF ExtendSink, At
<1>4. AddOrder(r) => Top(r).call.op = "place"
  BY <1>1, <1>2 DEF FrameOK, Fits
<1>5. CASE Nested(r)
  <2>1. Top(r).call.op = "allocate" /\ calls[r].op = "place" /\ Own(r).pc = "dispatch"
    BY <1>5 DEF Stack, HandlerCall
  <2>2. PlacedUpTo(r, AfterAdd) /\ PlacedUpTo(r, AfterSink)
    BY <2>1 DEF PlacedUpTo, AfterAdd, AfterSink
  <2>3. frames'[r] # <<>> /\ Own(r)'.pc = "dispatch"
    <3>1. CASE OwnStep(r)
      BY <1>5, <2>1, <3>1 DEF OwnStep, GoesOn, Nested, Own
    <3>2. CASE Ends(r)
      BY <1>5, <3>2, ReturnTop DEF Ends, Nested, Own
    <3>3. ~CallAllocate(r)
      BY <1>5, CallTop
    <3> QED
      BY <3>1, <3>2, <3>3, Movement
  <2>4. PlacedUpTo(r, AfterAdd)' /\ PlacedUpTo(r, AfterSink)'
    BY <2>1, <2>3 DEF PlacedUpTo, AfterAdd, AfterSink
  <2> QED
    BY <1>4, <2>1, <2>2, <2>4
<1>6. CASE ~Nested(r) /\ calls[r].op # "place"
  <2>1. Top(r).call = calls[r]
    BY <1>6 DEF Stack, Own
  <2> QED
    BY <1>4, <1>6, <2>1 DEF PlacedUpTo, Placed
<1>7. CASE ~Nested(r) /\ calls[r].op = "place"
  <2>1. Top(r).call = calls[r] /\ Own(r) = Top(r)
    BY <1>7 DEF Stack, Own
  <2>2. /\ PlacedUpTo(r, AfterAdd) <=> Top(r).pc \in AfterAdd
        /\ PlacedUpTo(r, AfterSink) <=> Top(r).pc \in AfterSink
    BY <1>1, <1>7, <2>1 DEF PlacedUpTo, Placed
  <2>3. Top(r).pc \notin {"getOrder", "getInventory", "precheck", "canFulfill", "load", "store",
                          "addProduct", "upsert", "sinkNow", "dispatchNow"} \cup Undoing
    BY <1>1, <1>7, <2>1 DEF FrameOK, Fits, Phase, Undoing
  <2>4. CASE OwnStep(r)
    <3>1. /\ frames'[r] # <<>> /\ Own(r)' = Top(r)' /\ UNCHANGED result
          /\ <<Top(r).pc, Top(r)'.pc>> \in Flow
      BY <1>7, <2>4 DEF OwnStep, GoesOn, Nested, Own
    <3>2. /\ PlacedUpTo(r, AfterAdd)' <=> Top(r)'.pc \in AfterAdd
          /\ PlacedUpTo(r, AfterSink)' <=> Top(r)'.pc \in AfterSink
      BY <1>1, <1>7, <3>1 DEF PlacedUpTo, Placed
    <3>3. Top(r)'.pc # "sinkNow"
      BY <2>4, <3>1, PhaseOwnStep DEF Phase
    <3>4. /\ Top(r)'.pc \in AfterAdd <=> Top(r).pc \in AfterAdd \cup {"addOrder"}
          /\ Top(r)'.pc \in AfterSink <=> Top(r).pc \in AfterSink \cup {"extendSink"}
      BY <2>3, <3>1, <3>3 DEF Flow, AfterAdd, AfterSink, Undoing
    <3> QED
      BY <1>2, <1>3, <1>7, <2>1, <2>2, <3>2, <3>4 DEF AfterAdd, AfterSink
  <2>5. CASE Ends(r)
    <3>1. PICK outcome \in {"ok", "raised"} : Return(r, outcome)
            /\ IF outcome = "ok" THEN Top(r).pc = "exit" ELSE Top(r).pc \in Raising
      BY <2>5 DEF Ends, At
    <3>2. frames'[r] = <<>> /\ result'[r] = outcome
      BY <1>7, <3>1, ReturnTop
    <3>3. Top(r).pc = IF outcome = "ok" THEN "exit" ELSE "readProduct"
      BY <2>3, <3>1 DEF Raising, Undoing
    <3>4. /\ PlacedUpTo(r, AfterAdd)' <=> outcome = "ok"
          /\ PlacedUpTo(r, AfterSink)' <=> outcome = "ok"
      BY <1>7, <3>2 DEF PlacedUpTo, Placed
    <3> QED
      BY <1>2, <1>3, <2>2, <3>3, <3>4 DEF AfterAdd, AfterSink
  <2>6. CASE CallAllocate(r)
    <3>1. /\ Top(r).pc = "dispatch" /\ frames'[r] # <<>> /\ Tail(frames'[r]) = frames[r]
      BY <2>6, CallTop
    <3>2. Own(r)' = Top(r)
      BY <3>1 DEF Own, Nested, Top
    <3> QED
      BY <1>2, <1>3, <1>7, <2>2, <3>1, <3>2 DEF PlacedUpTo, AfterAdd, AfterSink
  <2> QED
    BY <2>4, <2>5, <2>6, Movement
<1> QED
  BY <1>5, <1>6, <1>7

LEMMA AnnouncedOK ==
    ASSUME IInv, NEW r \in Requests, frames[r] # <<>>
    PROVE  Announced(r) = <<>> \/ (Announcement(r) \in Events /\ Announced(r) = <<Announcement(r)>>)
<1>1. Top(r).call \in AllCalls
  BY TopOK DEF IInv, Frame
<1>2. CASE Top(r).call.op = "place"
  BY <1>2 DEF Announced, Announcement, Events
<1>3. CASE Top(r).call.op = "allocate"
  BY <1>1, <1>3, CallArguments DEF Announced, Announcement, Events
<1> QED
  BY <1>2, <1>3 DEF Announced

LEMMA RecordedStep ==
    ASSUME IInv, OneAtATime, PhaseInv, NEW r \in Requests, Step(r),
           NEW q \in Requests, Recorded(q)
    PROVE  Recorded(q)'
<1>1. /\ frames[r] # <<>> /\ Stack(r) /\ Phase(r) /\ UNCHANGED calls
      /\ q # r => frames[q] = <<>> /\ frames'[q] = <<>> /\ result'[q] = result[q]
  BY Alone DEF PhaseInv
<1>2. sink \in Seq(Events) /\ IsOrders(repo.orders) /\ Top(r) \in Frame
      /\ DOMAIN repo = {"products", "orders", "inventories"}
  BY <1>1, TopOK DEF IInv, TypeOK
<1>3. AddOrder(r) => DOMAIN repo'.orders = DOMAIN repo.orders \cup {r}
  BY <1>2 DEF AddOrder, Put
<1>4. q \in DOMAIN repo'.orders <=> q \in DOMAIN repo.orders \/ (q = r /\ AddOrder(r))
  BY <1>1, <1>3, StepLogs
<1>5. /\ Times(OrderPlaced(q)) = Occurrences(sink, OrderPlaced(q))
      /\ Times(OrderPlaced(q))' = Occurrences(sink', OrderPlaced(q))
      /\ Times(OrderPlaced(q)) \in Nat
  <2>1. ASSUME NEW e PROVE Times(e) = Occurrences(sink, e) /\ Times(e)' = Occurrences(sink', e)
    BY DEF Times, Occurrences
  <2>2. OrderPlaced(q) \in Events
    BY DEF Events
  <2>3. Occurrences(sink, OrderPlaced(q)) \in Nat
    BY <1>2, <2>2, LogGrows
  <2> QED
    BY <2>1, <2>3
<1>6. Times(OrderPlaced(q))' = Times(OrderPlaced(q)) +
        (IF ExtendSink(r) /\ Top(r).call.op = "place" /\ q = r THEN 1 ELSE 0)
  <2>1. CASE ExtendSink(r) /\ sink' = sink \o Announced(r)
    <3>1. CASE Announced(r) = <<>>
      <4>1. Top(r).call.op # "place"
        BY <3>1 DEF Announced
      <4> QED
        BY <1>2, <1>5, <2>1, <3>1, <4>1, LogGrows
    <3>2. CASE Announcement(r) \in Events /\ Announced(r) = <<Announcement(r)>>
      <4>1. Announcement(r) = OrderPlaced(q) <=> Top(r).call.op = "place" /\ q = r
        BY DEF Announcement, OrderPlaced, StockAllocated
      <4> QED
        BY <1>2, <1>5, <2>1, <3>2, <4>1, LogGrows
    <3> QED
      BY <1>1, <3>1, <3>2, AnnouncedOK
  <2>2. CASE ~ExtendSink(r) /\ UNCHANGED sink
    BY <1>5, <2>2
  <2> QED
    BY <1>1, <2>1, <2>2, StepLogs DEF ExtendSink, At
<1>7. CASE q = r
  BY <1>1, <1>4, <1>5, <1>6, <1>7, PlacedSteps DEF Recorded
<1>8. CASE q # r
  <2>1. PlacedUpTo(q, AfterAdd)' = PlacedUpTo(q, AfterAdd)
        /\ PlacedUpTo(q, AfterSink)' = PlacedUpTo(q, AfterSink)
    BY <1>1, <1>8 DEF PlacedUpTo, Placed
  <2> QED
    BY <1>4, <1>5, <1>6, <1>8, <2>1 DEF Recorded
<1> QED
  BY <1>7, <1>8

LEMMA RecordedReceive ==
    ASSUME PoolSize = 1, IInv, PhaseInv, NEW r \in Requests, NEW c \in Calls, Receive(r, c),
           NEW q \in Requests, Recorded(q)
    PROVE  Recorded(q)'
<1>1. frames \in [Requests -> Seq(Frame)] /\ calls \in [Requests -> Calls \cup {None}]
  BY DEF IInv, TypeOK
<1>2. /\ frames'[r] = <<NewFrame(c)>> /\ result[r] = "none"
      /\ \A p \in Requests \ {r} : frames'[p] = frames[p] /\ calls'[p] = calls[p]
      /\ UNCHANGED <<repo, sink, result>> /\ frames[q] = <<>>
  BY <1>1, NobodyBusy DEF Receive, PhaseInv, Stack, logs, Busy
<1>3. Times(OrderPlaced(q))' = Times(OrderPlaced(q))
  BY <1>2 DEF Times
<1>4. NewFrame(c).pc \in {"readProduct", "getOrder", "enter"}
  BY DEF NewFrame, FirstStep
<1>5. q = r => ~Nested(r)' /\ Own(r)'.pc \in {"readProduct", "getOrder", "enter"}
  BY <1>2, <1>4 DEF Nested, Own, Top
<1>6. \A steps \in {AfterAdd, AfterSink} : PlacedUpTo(q, steps)' <=> PlacedUpTo(q, steps)
  BY <1>2, <1>5 DEF PlacedUpTo, Placed, AfterAdd, AfterSink
<1> QED
  BY <1>2, <1>3, <1>6 DEF Recorded

AllRecorded == \A q \in Requests : Recorded(q)

LEMMA InRecord ==
    ASSUME PoolSize = 1
    PROVE  Spec => []AllRecorded
<1>1. Init => AllRecorded
  <2> SUFFICES ASSUME Init, NEW q \in Requests PROVE Recorded(q)
    BY DEF AllRecorded
  <2>1. DOMAIN repo.orders = {} /\ DOMAIN sink = {} /\ frames[q] = <<>> /\ result[q] = "none"
    BY DEF Init
  <2>2. Times(OrderPlaced(q)) = 0
    BY <2>1, FS_EmptySet DEF Times
  <2> QED
    BY <2>1, <2>2 DEF Recorded, PlacedUpTo, Placed
<1>2. IInv /\ OneAtATime /\ PhaseInv /\ AllRecorded /\ [Next]_vars => AllRecorded'
  <2> SUFFICES ASSUME IInv, OneAtATime, PhaseInv, AllRecorded, [Next]_vars PROVE AllRecorded'
    OBVIOUS
  <2>1. CASE UNCHANGED vars
    BY <2>1 DEF AllRecorded, Recorded, PlacedUpTo, Placed, Own, Nested, Top, Times, vars
  <2> QED
    BY <2>1, RecordedStep, RecordedReceive DEF AllRecorded, Next, AllServed
<1> QED
  BY <1>1, <1>2, InPhase, Inductive, PTL DEF Spec

\* Served by one thread, the repository and the event log never part: an order is there
\* if and only if its PlaceOrder succeeded, and then it was announced exactly once; what
\* was refused or raised left nothing behind (place_order.py 67-70, commit, rollback).
THEOREM OrdersTold ==
    ASSUME PoolSize = 1
    PROVE  Spec => []OrdersMatchEvents
<1>1. IInv /\ PhaseInv /\ AllRecorded => OrdersMatchEvents
  BY DEF AllRecorded, Recorded, PlacedUpTo, OrdersMatchEvents, Busy
<1> QED
  BY <1>1, InPhase, InRecord, Inductive, PTL

\* Nor does a later request of the one thread take back what an earlier one has
\* committed.  With two threads it can: see the run that expects the violation.
THEOREM CommitsKept ==
    ASSUME PoolSize = 1
    PROVE  Spec => []CommitKept
<1>1. AllRecorded => CommitKept
  <2> SUFFICES ASSUME NEW r \in Requests, Recorded(r), Placed(r)
               PROVE  r \in DOMAIN repo.orders /\ Times(OrderPlaced(r)) > 0
    BY DEF AllRecorded, CommitKept
  <2>1. Times(OrderPlaced(r)) = 1
    BY DEF Recorded, PlacedUpTo
  <2> QED
    BY <2>1 DEF Recorded, PlacedUpTo
<1> QED
  BY <1>1, InRecord, PTL

\* What is in the order repository stays as it is.
OrdersGrow == \A o \in DOMAIN repo.orders :
                 o \in DOMAIN repo'.orders /\ repo'.orders[o] = repo.orders[o]

LEMMA OrdersKept ==
    ASSUME IInv, OneAtATime, PhaseInv, AllRecorded, NEW r \in Requests, Step(r)
    PROVE  OrdersGrow
<1>1. /\ frames[r] # <<>> /\ Stack(r) /\ Phase(r) /\ UNCHANGED calls
      /\ DOMAIN repo = {"products", "orders", "inventories"}
  BY Alone DEF PhaseInv, IInv, TypeOK
<1>2. CASE AddOrder(r)
  <2>1. r \notin DOMAIN repo.orders
    BY <1>1, <1>2, PlacedSteps DEF AllRecorded, Recorded
  <2>2. repo'.orders = Put(repo.orders, r, Top(r).lines)
    BY <1>1, <1>2 DEF AddOrder
  <2> QED
    BY <2>1, <2>2 DEF Put, OrdersGrow
<1>3. CASE repo'.orders = repo.orders
  BY <1>3 DEF OrdersGrow
<1> QED
  BY <1>1, <1>2, <1>3, StepLogs

\* A rollback of the one thread undoes nothing but its own work: whatever step is
\* taken, the orders stay and keep their lines (rollback, _restore_snapshots, and
\* InMemoryOrderRepository.add, which nobody calls twice with one id).
THEOREM OrdersStay ==
    ASSUME PoolSize = 1
    PROVE  Spec => OrdersOnlyGrow
<1>1. IInv /\ OneAtATime /\ PhaseInv /\ AllRecorded /\ [Next]_vars => [OrdersGrow]_vars
  <2> SUFFICES ASSUME IInv, OneAtATime, PhaseInv, AllRecorded, Next
               PROVE  OrdersGrow \/ UNCHANGED vars
    BY DEF vars
  <2>1. ASSUME NEW r \in Requests, NEW c \in Calls, Receive(r, c) PROVE OrdersGrow
    BY <2>1 DEF Receive, OrdersGrow
  <2> QED
    BY <2>1, OrdersKept DEF Next, AllServed
<1> QED
  BY <1>1, InPhase, InRecord, Inductive, PTL DEF Spec, OrdersOnlyGrow, OrdersGrow

-----------------------------------------------------------------------------
(* What the handlers do with an order *)

\* The running frame of q has nothing left to dispatch.
Dispatched(q) == Top(q).pc \in {"dispatch", "exit"} /\ Top(q).batch = <<>>

\* The handler of q's order has returned; it is running.
Tried(q) ==
    \/ Placed(q)
    \/ frames[q] # <<>> /\ ~Nested(q) /\ calls[q].op = "place" /\ Dispatched(q)
Handling(q) == frames[q] # <<>> /\ Nested(q)

Done(q) == StockAllocated(q, DefaultLocation)
Notified(q) == Occurrences(sent, Done(q))

\* What the sink, the notifier and the error list say of an order as its handler goes on.
Story(q) ==
    /\ Tried(q) => IF OrderPlaced(q) \in errors THEN Times(Done(q)) = 0 /\ Notified(q) = 0
                   ELSE Times(Done(q)) = 1 /\ Notified(q) = 1
    /\ Handling(q) => /\ OrderPlaced(q) \notin errors
                      /\ Times(Done(q)) = IF Top(q).pc \in AfterSink THEN 1 ELSE 0
                      /\ Notified(q) = IF Dispatched(q) THEN 1 ELSE 0
    /\ ~Tried(q) /\ ~Handling(q) =>
         OrderPlaced(q) \notin errors /\ Times(Done(q)) = 0 /\ Notified(q) = 0

\* A client that asks for the allocation the handler makes would make it twice.
OnlyHandlersAllocate ==
    \A c \in Calls : c.op = "allocate" => c.location # DefaultLocation

\* The frame's batch is dispatched by Notify, and announced by ExtendSink, once.
LEMMA DispatchSteps ==
    ASSUME IInv, NEW r \in Requests, frames[r] # <<>>, Stack(r), Phase(r), Step(r), OwnStep(r),
           Subscribed, Top(r).call.op \in {"place", "allocate"}
    PROVE  /\ Dispatched(r)' <=> Dispatched(r) \/ Notify(r)
           /\ Notify(r) => ~Dispatched(r)
           /\ Top(r)'.pc \in AfterSink <=> Top(r).pc \in AfterSink \/ ExtendSink(r)
           /\ ExtendSink(r) => Top(r).pc \notin AfterSink
<1>1. /\ frames'[r] # <<>> /\ <<Top(r).pc, Top(r)'.pc>> \in Flow /\ Phase(r)' /\ Phase(r)
      /\ Announced(r)' = Announced(r) /\ Announced(r) = <<Announcement(r)>>
  BY PhaseOwnStep DEF OwnStep, GoesOn, Announced, Announcement
<1>2. Top(r).pc \notin {"sinkNow", "dispatchNow"} /\ Top(r)'.pc \notin {"sinkNow", "dispatchNow"}
  BY <1>1 DEF Phase
<1>3. ExtendSink(r) <=> Top(r).pc = "extendSink"
  BY StepLogs DEF ExtendSink, At
<1>4. /\ Top(r)'.pc \in AfterSink <=> Top(r).pc \in AfterSink \/ ExtendSink(r)
      /\ ExtendSink(r) => Top(r).pc \notin AfterSink
  BY <1>1, <1>2, <1>3 DEF Flow, AfterSink
<1>5. Top(r).pc = "dispatch" => Notify(r) \/ EndDispatch(r)
  <2>1. ~CallAllocate(r)
    BY CallTop DEF OwnStep, GoesOn, Nested
  <2>2. SUFFICES ASSUME Top(r).pc = "dispatch" PROVE Notify(r) \/ EndDispatch(r)
    OBVIOUS
  <2> QED
    BY <2>1, <2>2 DEF Step, At, ReadProduct, CreateOrder, RefuseOrder, GetOrder, GetInventory,
       Precheck, Enter, TakeSnapshot, ClearPending, AddProduct, AddOrder, UpsertInventory,
       CanFulfill, LoadOnHand, StoreOnHand, Publish, Buffer, SinkNow, CopyPending, ExtendSink,
       DiscardPending, ClearSnapshot, SetCommitted, Rollback, Restore, RolledBack, Exit
<1>6. CASE Notify(r)
  <2>1. Top(r).pc = "dispatch" /\ Top(r).batch # <<>>
    BY <1>2, <1>6 DEF Notify, Dispatching, At
  <2> DEFINE g == [Top(r) EXCEPT !.batch = Tail(@)]
  <2>2. g.pc = Top(r).pc /\ g.batch = Tail(Top(r).batch) /\ Become(r, g)
    BY <1>6, TopOK DEF Notify, Frame, IInv
  <2> HIDE DEF g
  <2>3. Top(r)'.pc = "dispatch" /\ Top(r)'.batch = Tail(Top(r).batch)
    BY <2>1, <2>2, BecomeShape DEF IInv
  <2>4. Top(r).batch = <<Announcement(r)>>
    BY <1>1, <2>1 DEF Phase
  <2>5. Tail(Top(r).batch) = <<>>
    BY <2>4
  <2> QED
    BY <1>4, <1>6, <2>1, <2>3, <2>5 DEF Dispatched
<1>7. CASE Top(r).pc = "dispatch" /\ EndDispatch(r) /\ ~Notify(r)
  <2>1. Top(r).batch = <<>>
    BY <1>7 DEF EndDispatch
  <2> DEFINE g == [Top(r) EXCEPT !.pc = "exit", !.batch = <<>>]
  <2>2. g.pc = "exit" /\ Become(r, g)
    BY <1>7, TopOK DEF EndDispatch, Frame, IInv
  <2> HIDE DEF g
  <2>3. Top(r)'.pc = "exit"
    BY <2>2, BecomeShape DEF IInv
  <2> QED
    BY <1>1, <1>4, <1>7, <2>1, <2>3 DEF Dispatched, Phase
<1>8. CASE Top(r).pc = "setCommitted"
  <2>1. Top(r)'.pc = "dispatch" /\ Top(r)'.batch = Top(r).batch
    BY <1>1, <1>8 DEF Flow, OwnStep, CopyPending, SinkNow, Notify, EndDispatch, Dispatching, At
  <2>2. Top(r).batch = <<Announcement(r)>>
    BY <1>1, <1>8 DEF Phase
  <2> QED
    BY <1>4, <1>8, <2>1, <2>2 DEF Dispatched, Notify, Dispatching, At
<1>9. CASE Top(r).pc \notin {"setCommitted", "dispatch"}
  <2>1. Top(r)'.pc \notin {"dispatch", "exit"} /\ Top(r).pc # "exit" /\ ~Notify(r)
    BY <1>1, <1>2, <1>9 DEF Flow, Notify, Dispatching, At
  <2> QED
    BY <1>4, <1>9, <2>1 DEF Dispatched
<1> QED
  BY <1>5, <1>6, <1>7, <1>8, <1>9

\* What is announced at DefaultLocation is announced by the handler of that order.
LEMMA HandlerAnnounces ==
    ASSUME IInv, OnlyHandlersAllocate, NEW r \in Requests, frames[r] # <<>>, Stack(r),
           Announced(r) # <<>>, NEW q \in Requests
    PROVE  Announcement(r) = Done(q) <=> Nested(r) /\ q = r
<1>1. CASE Nested(r)
  BY <1>1 DEF Stack, HandlerCall, Announcement, Done, StockAllocated
<1>2. CASE ~Nested(r)
  <2>1. Top(r).call = calls[r] /\ calls[r] \in Calls
    BY <1>2 DEF Stack, Own, IInv, TypeOK
  <2>2. Top(r).call.op = "allocate" => Top(r).call.location # DefaultLocation
    BY <2>1 DEF OnlyHandlersAllocate
  <2> QED
    BY <1>2, <2>2 DEF Announced, Announcement, Done, OrderPlaced, StockAllocated
<1> QED
  BY <1>1, <1>2

\* The sink, the notifier and the error list change as the handler of r goes on.
LEMMA StoryCounts ==
    ASSUME IInv, OneAtATime, PhaseInv, OnlyHandlersAllocate, NEW r \in Requests, Step(r),
           NEW q \in Requests
    PROVE  /\ Times(Done(q)) \in Nat /\ Notified(q) \in Nat
           /\ Times(Done(q))' = Times(Done(q)) +
                (IF ExtendSink(r) /\ Nested(r) /\ q = r THEN 1 ELSE 0)
           /\ Notified(q)' = Notified(q) + (IF Notify(r) /\ Nested(r) /\ q = r THEN 1 ELSE 0)
           /\ OrderPlaced(q) \in errors' <=>
                \/ OrderPlaced(q) \in errors
                \/ q = r /\ Nested(r) /\ Top(r).pc \in Raising /\ Ends(r)
<1>1. frames[r] # <<>> /\ Stack(r) /\ Phase(r) /\ sink \in Seq(Events) /\ sent \in Seq(Events)
  BY Alone DEF PhaseInv, IInv, TypeOK
<1>2. Done(q) \in Events
  BY NamesAssumption DEF Done, Events
<1>3. Times(Done(q)) = Occurrences(sink, Done(q)) /\ Times(Done(q))' = Occurrences(sink', Done(q))
  BY DEF Times, Occurrences
<1>4. Notified(q) = Occurrences(sent, Done(q)) /\ Notified(q)' = Occurrences(sent', Done(q))
  BY DEF Notified
<1>5. Times(Done(q)) \in Nat /\ Notified(q) \in Nat
  BY <1>1, <1>2, <1>3, <1>4, LogGrows
<1>6. Announced(r) # <<>> => (Announcement(r) = Done(q) <=> Nested(r) /\ q = r)
  BY <1>1, HandlerAnnounces
<1>7. Times(Done(q))' = Times(Done(q)) + (IF ExtendSink(r) /\ Nested(r) /\ q = r THEN 1 ELSE 0)
  <2>1. CASE ExtendSink(r) /\ sink' = sink \o Announced(r)
    <3>1. CASE Announced(r) = <<>>
      <4>1. ~Nested(r)
        BY <1>1, <3>1 DEF Announced, Stack, HandlerCall
      <4> QED
        BY <1>1, <1>2, <1>3, <1>5, <2>1, <3>1, <4>1, LogGrows
    <3>2. CASE Announcement(r) \in Events /\ Announced(r) = <<Announcement(r)>>
      BY <1>1, <1>3, <1>6, <2>1, <3>2, LogGrows
    <3> QED
      BY <1>1, <3>1, <3>2, AnnouncedOK
  <2>2. CASE ~ExtendSink(r) /\ UNCHANGED sink
    BY <1>3, <1>5, <2>2
  <2> QED
    BY <1>1, <2>1, <2>2, StepLogs DEF ExtendSink, At
<1>8. Notified(q)' = Notified(q) + (IF Notify(r) /\ Nested(r) /\ q = r THEN 1 ELSE 0)
  <2>1. CASE Notify(r)
    <3>1. /\ Top(r).pc = "dispatch" /\ Top(r).batch # <<>> /\ sent' = Append(sent, Head(Top(r).batch))
      BY <1>1, <2>1 DEF Notify, Dispatching, At, Phase
    <3>2. /\ Announced(r) # <<>> /\ Announcement(r) \in Events
          /\ Top(r).batch = <<Announcement(r)>>
      BY <1>1, <3>1, AnnouncedOK DEF Phase
    <3>3. Head(Top(r).batch) = Announcement(r) /\ sent' = sent \o <<Announcement(r)>>
      BY <1>1, <3>1, <3>2
    <3> QED
      BY <1>1, <1>4, <1>6, <2>1, <3>2, <3>3, LogGrows
  <2>2. CASE ~Notify(r)
    <3>1. UNCHANGED sent
      BY <2>2 DEF Step, ReadProduct, CreateOrder, RefuseOrder, GetOrder, GetInventory, Precheck,
         Enter, TakeSnapshot, ClearPending, AddProduct, AddOrder, UpsertInventory, CanFulfill,
         LoadOnHand, StoreOnHand, Publish, Buffer, SinkNow, CopyPending, ExtendSink,
         DiscardPending, ClearSnapshot, SetCommitted, CallAllocate, EndDispatch, Rollback, Restore,
         RolledBack, Exit, logs
    <3> QED
      BY <1>4, <1>5, <2>2, <3>1
  <2> QED
    BY <2>1, <2>2
<1>9. OrderPlaced(q) \in errors' <=>
        \/ OrderPlaced(q) \in errors
        \/ q = r /\ Nested(r) /\ Top(r).pc \in Raising /\ Ends(r)
  <2>1. OrderPlaced(q) = OrderPlaced(r) <=> q = r
    BY DEF OrderPlaced
  <2>2. CASE Ends(r)
    BY <1>1, <2>1, <2>2, ReturnTop DEF Ends, At, Raising
  <2>3. CASE ~Ends(r) /\ OwnStep(r)
    BY <2>3 DEF OwnStep
  <2>4. CASE ~Ends(r) /\ CallAllocate(r)
    BY <2>4 DEF CallAllocate, logs
  <2> QED
    BY <2>2, <2>3, <2>4, Movement
<1> QED
  BY <1>5, <1>7, <1>8, <1>9

LEMMA StoryStep ==
    ASSUME IInv, OneAtATime, PhaseInv, Subscribed, OnlyHandlersAllocate,
           NEW r \in Requests, Step(r), NEW q \in Requests, Story(q)
    PROVE  Story(q)'
<1>1. /\ frames[r] # <<>> /\ Stack(r) /\ Phase(r) /\ UNCHANGED calls /\ result[r] = "none"
      /\ q # r => frames[q] = <<>> /\ frames'[q] = <<>> /\ result'[q] = result[q]
  BY Alone DEF PhaseInv, Stack
<1>2. /\ Times(Done(q)) \in Nat /\ Notified(q) \in Nat
      /\ Times(Done(q))' = Times(Done(q)) +
           (IF ExtendSink(r) /\ Nested(r) /\ q = r THEN 1 ELSE 0)
      /\ Notified(q)' = Notified(q) + (IF Notify(r) /\ Nested(r) /\ q = r THEN 1 ELSE 0)
      /\ OrderPlaced(q) \in errors' <=>
           \/ OrderPlaced(q) \in errors
           \/ q = r /\ Nested(r) /\ Top(r).pc \in Raising /\ Ends(r)
  BY StoryCounts
<1>3. CASE q # r
  <2>1. /\ Tried(q)' = Tried(q) /\ ~Handling(q) /\ ~Handling(q)'
        /\ Times(Done(q))' = Times(Done(q)) /\ Notified(q)' = Notified(q)
        /\ OrderPlaced(q) \in errors' <=> OrderPlaced(q) \in errors
    BY <1>1, <1>2, <1>3 DEF Tried, Handling, Placed
  <2> QED
    BY <2>1 DEF Story
<1>4. CASE q = r /\ Nested(r)
  <2>1. /\ Handling(r) /\ ~Tried(r) /\ Top(r).call.op = "allocate" /\ calls[r].op = "place"
    BY <1>1, <1>4 DEF Handling, Tried, Placed, Stack, HandlerCall
  <2>2. CASE OwnStep(r)
    <3>1. /\ Handling(r)' /\ ~Tried(r)'
      BY <1>1, <1>4, <2>2 DEF OwnStep, GoesOn, Handling, Tried, Nested, Placed
    <3>2. ~Ends(r)
      BY <1>1, <1>4, <2>2, ReturnTop DEF Ends, OwnStep, GoesOn, Nested
    <3> QED
      BY <1>1, <1>2, <1>4, <2>1, <2>2, <3>1, <3>2, DispatchSteps DEF Story
  <2>3. CASE Ends(r)
    <3>1. PICK outcome \in {"ok", "raised"} : Return(r, outcome)
            /\ IF outcome = "ok" THEN Top(r).pc = "exit" ELSE Top(r).pc \in Raising
      BY <2>3 DEF Ends, At
    <3>2. /\ frames'[r] # <<>> /\ ~Nested(r)' /\ Dispatched(r)'
      BY <1>1, <1>4, <3>1, ReturnTop DEF Nested, Dispatched
    <3>3. Tried(r)' /\ ~Handling(r)'
      BY <1>1, <2>1, <3>2 DEF Tried, Handling
    <3>4. ~ExtendSink(r) /\ ~Notify(r)
      BY <3>1 DEF ExtendSink, Notify, Dispatching, At, Raising
    <3>5. /\ Top(r).pc \in AfterSink <=> outcome = "ok"
          /\ Dispatched(r) <=> outcome = "ok"
          /\ Top(r).pc \in Raising <=> outcome = "raised"
      BY <1>1, <3>1 DEF Raising, AfterSink, Dispatched, Phase
    <3> QED
      BY <1>2, <1>4, <2>1, <2>3, <3>3, <3>4, <3>5 DEF Story
  <2> QED
    BY <1>1, <1>4, <2>2, <2>3, CallTop, Movement
<1>5. CASE q = r /\ ~Nested(r)
  <2>1. /\ ~Handling(r) /\ Top(r).call = calls[r]
        /\ Tried(r) <=> calls[r].op = "place" /\ Dispatched(r)
        /\ Times(Done(r))' = Times(Done(r)) /\ Notified(r)' = Notified(r)
        /\ OrderPlaced(r) \in errors' <=> OrderPlaced(r) \in errors
    BY <1>1, <1>2, <1>5 DEF Handling, Tried, Placed, Stack, Own
  <2>2. CASE OwnStep(r)
    <3>1. /\ frames'[r] # <<>> /\ ~Nested(r)' /\ UNCHANGED result
      BY <1>1, <1>5, <2>2 DEF OwnStep, GoesOn, Nested
    <3>2. ~Handling(r)' /\ (Tried(r)' <=> calls[r].op = "place" /\ Dispatched(r)')
      BY <1>1, <3>1 DEF Handling, Tried, Placed
    <3>3. calls[r].op = "place" => (Dispatched(r)' <=> Dispatched(r))
      <4>1. SUFFICES ASSUME calls[r].op = "place" PROVE ~Notify(r)
        BY <1>1, <2>1, <2>2, DispatchSteps
      <4>2. Announced(r) = <<OrderPlaced(r)>>
        BY <2>1, <4>1 DEF Announced, Announcement
      <4>3. SUFFICES ASSUME Notify(r) PROVE FALSE
        OBVIOUS
      <4>4. Top(r).batch = <<OrderPlaced(r)>> /\ Head(Top(r).batch).type = "StockAllocated"
        BY <1>1, <4>2, <4>3 DEF Notify, Dispatching, At, Phase
      <4> QED
        BY <4>4 DEF OrderPlaced
    <3> QED
      BY <1>5, <2>1, <3>2, <3>3 DEF Story
  <2>3. CASE Ends(r)
    <3>1. PICK outcome \in {"ok", "raised"} : Return(r, outcome)
            /\ IF outcome = "ok" THEN Top(r).pc = "exit" ELSE Top(r).pc \in Raising
      BY <2>3 DEF Ends, At
    <3>2. frames'[r] = <<>> /\ result'[r] = outcome
      BY <1>1, <1>5, <3>1, ReturnTop
    <3>3. ~Handling(r)' /\ (Tried(r)' <=> calls[r].op = "place" /\ outcome = "ok")
      BY <1>1, <3>2 DEF Handling, Tried, Placed
    <3>4. Dispatched(r) <=> outcome = "ok"
      BY <1>1, <3>1 DEF Raising, Dispatched, Phase
    <3> QED
      BY <1>5, <2>1, <3>3, <3>4 DEF Story
  <2>4. CASE CallAllocate(r)
    <3>1. /\ Top(r).batch = <<OrderPlaced(r)>> /\ frames'[r] # <<>> /\ Tail(frames'[r]) = frames[r]
          /\ Top(r)' = NewFrame(HandlerCall(r)) /\ UNCHANGED result
      BY <1>1, <2>4, CallTop DEF CallAllocate
    <3>2. NewFrame(HandlerCall(r)).pc = "getOrder"
      BY DEF NewFrame, HandlerCall, FirstStep
    <3>3. Top(r)'.pc = "getOrder"
      BY <3>1, <3>2
    <3>4. ~Dispatched(r)' /\ Top(r)'.pc \notin AfterSink
      BY <3>3 DEF Dispatched, AfterSink
    <3>5. ~Tried(r)
      <4>1. <<OrderPlaced(r)>> # <<>>
        OBVIOUS
      <4> QED
        BY <2>1, <3>1, <4>1 DEF Dispatched
    <3>6. Handling(r)' /\ ~Tried(r)'
      BY <1>1, <3>1 DEF Handling, Tried, Placed, Nested
    <3> QED
      BY <1>5, <2>1, <3>4, <3>5, <3>6 DEF Story
  <2> QED
    BY <2>2, <2>3, <2>4, Movement
<1> QED
  BY <1>3, <1>4, <1>5

LEMMA StoryReceive ==
    ASSUME PoolSize = 1, IInv, PhaseInv, NEW r \in Requests, NEW c \in Calls, Receive(r, c),
           NEW q \in Requests, Story(q)
    PROVE  Story(q)'
<1>1. frames \in [Requests -> Seq(Frame)] /\ calls \in [Requests -> Calls \cup {None}]
  BY DEF IInv, TypeOK
<1>2. /\ frames'[r] = <<NewFrame(c)>> /\ result[r] = "none"
      /\ \A p \in Requests \ {r} : frames'[p] = frames[p] /\ calls'[p] = calls[p]
      /\ UNCHANGED <<sink, sent, errors, result>> /\ frames[q] = <<>>
  BY <1>1, NobodyBusy DEF Receive, PhaseInv, Stack, logs, Busy
<1>3. Times(Done(q))' = Times(Done(q)) /\ Notified(q)' = Notified(q)
  BY <1>2 DEF Times, Notified
<1>4. NewFrame(c).pc \in {"readProduct", "getOrder", "enter"}
  BY DEF NewFrame, FirstStep
<1>5. ~Handling(q) /\ ~Handling(q)' /\ (Tried(q)' <=> Tried(q))
  <2>1. CASE q # r
    BY <1>2, <2>1 DEF Handling, Tried, Placed
  <2>2. CASE q = r
    <3>1. ~Nested(r)' /\ Top(r)'.pc \in {"readProduct", "getOrder", "enter"}
      BY <1>2, <1>4 DEF Nested, Top
    <3> QED
      BY <1>2, <2>2, <3>1 DEF Handling, Tried, Placed, Dispatched
  <2> QED
    BY <2>1, <2>2
<1> QED
  BY <1>2, <1>3, <1>5 DEF Story

AllStories == \A q \in Requests : Story(q)

\* With the handlers of the end-to-end test subscribed and one thread, no announced order
\* is lost by the bus, which swallows what its handlers raise: between two requests it is
\* allocated and notified, once each, or it is on the error list and has left neither
\* event nor message (MessageBus.publish, AllocateStock, InMemoryNotifier).  A client that
\* asks for the handler's own allocation gets a second one, hence the last hypothesis.
THEOREM OrdersHandled ==
    ASSUME PoolSize = 1, Subscribed, OnlyHandlersAllocate
    PROVE  Spec => []HandledOrRecorded
<1>1. Init => AllStories
  <2> SUFFICES ASSUME Init, NEW q \in Requests PROVE Story(q)
    BY DEF AllStories
  <2>1. DOMAIN sink = {} /\ DOMAIN sent = {} /\ frames[q] = <<>> /\ result[q] = "none"
        /\ errors = {}
    BY DEF Init
  <2>2. Times(Done(q)) = 0 /\ Notified(q) = 0
    BY <2>1, FS_EmptySet DEF Times, Notified, Occurrences
  <2> QED
    BY <2>1, <2>2 DEF Story, Tried, Handling, Placed
<1>2. IInv /\ OneAtATime /\ PhaseInv /\ AllStories /\ [Next]_vars => AllStories'
  <2> SUFFICES ASSUME IInv, OneAtATime, PhaseInv, AllStories, [Next]_vars PROVE AllStories'
    OBVIOUS
  <2>1. CASE UNCHANGED vars
    BY <2>1 DEF AllStories, Story, Tried, Handling, Placed, Nested, Top, Dispatched, Times,
       Notified, vars
  <2> QED
    BY <2>1, StoryStep, StoryReceive DEF AllStories, Next, AllServed
<1>3. IInv /\ AllRecorded /\ AllStories => HandledOrRecorded
  <2> SUFFICES ASSUME IInv, AllRecorded, AllStories, Busy = {}, NEW r \in Requests,
                      Times(OrderPlaced(r)) > 0
               PROVE  IF OrderPlaced(r) \in errors
                      THEN Times(Done(r)) = 0 /\ {i \in DOMAIN sent : sent[i] = Done(r)} = {}
                      ELSE Times(Done(r)) = 1 /\ Notified(r) = 1
    BY DEF HandledOrRecorded, Done, Notified, Occurrences
  <2>1. Placed(r)
    BY DEF AllRecorded, Recorded, PlacedUpTo, Busy
  <2>2. Story(r) /\ Tried(r)
    BY <2>1 DEF AllStories, Tried
  <2>3. Notified(r) = 0 => {i \in DOMAIN sent : sent[i] = Done(r)} = {}
    <3>1. IsFiniteSet(DOMAIN sent)
      <4>1. sent \in Seq(Events)
        BY DEF IInv, TypeOK
      <4>2. DOMAIN sent = 1..Len(sent) /\ Len(sent) \in Nat
        BY <4>1
      <4> QED
        BY <4>2, FS_Interval
    <3>2. IsFiniteSet({i \in DOMAIN sent : sent[i] = Done(r)})
      BY <3>1, FS_Subset
    <3> QED
      BY <3>2, FS_EmptySet DEF Notified, Occurrences
  <2> QED
    BY <2>2, <2>3 DEF Story
<1> QED
  BY <1>1, <1>2, <1>3, InPhase, InRecord, Inductive, PTL DEF Spec

-----------------------------------------------------------------------------
(* Sums over finite sets *)

\* A set of naturals has a least element: induction over the naturals, for sets.
LEMMA NatInduct ==
    ASSUME NEW P, 0 \in P, \A n \in P \cap Nat : n + 1 \in P
    PROVE  Nat \subseteq P
<1>1. IsWellFoundedOn({ss \in Nat \X Nat : ss[1] < ss[2]}, Nat)
  BY NatLessThanWellFounded DEF OpToRel
<1> DEFINE T == Nat \ P
<1>2. T \subseteq Nat
  OBVIOUS
<1>3. SUFFICES ASSUME T # {} PROVE FALSE
  OBVIOUS
<1>4. PICK x \in T : \A y \in T : <<y, x>> \notin {ss \in Nat \X Nat : ss[1] < ss[2]}
  BY <1>1, <1>2, <1>3, WFMin, Zenon
<1>5. x \in Nat \ {0} /\ x - 1 \in Nat
  OBVIOUS
<1>6. x - 1 \notin T
  <2>1. x - 1 < x /\ <<x - 1, x>> \in {ss \in Nat \X Nat : ss[1] < ss[2]}
    BY <1>5
  <2> QED
    BY <1>4, <2>1
<1>7. (x - 1) + 1 \in P
  BY <1>5, <1>6
<1> QED
  BY <1>5, <1>7

\* The element a fold takes from a set first, and the function it is computed by.
Pick(s) == CHOOSE x \in s : TRUE
Partial(g, f, D) ==
    g = [s \in D |-> IF s = {} THEN 0 ELSE f[Pick(s)] + g[s \ {Pick(s)}]]

LEMMA SumIs ==
    ASSUME NEW f, NEW T
    PROVE  SumFunctionOnSet(f, T) = (CHOOSE g : Partial(g, f, SUBSET T))[T]
BY DEF SumFunctionOnSet, FoldFunctionOnSet, MapThenFoldSet, Partial, Pick

\* The subsets of T of at most n elements.
Small(T, n) == {s \in SUBSET T : Cardinality(s) <= n}

LEMMA SmallSets ==
    ASSUME NEW T, IsFiniteSet(T), NEW s \in SUBSET T
    PROVE  /\ IsFiniteSet(s) /\ Cardinality(s) \in Nat /\ Cardinality(s) <= Cardinality(T)
           /\ s = {} <=> Cardinality(s) = 0
           /\ \A x \in s : Cardinality(s \ {x}) = Cardinality(s) - 1
           /\ \A x \in T \ s : Cardinality(s \cup {x}) = Cardinality(s) + 1
           /\ s # {} => Pick(s) \in s
<1>1. IsFiniteSet(s) /\ Cardinality(s) \in Nat /\ Cardinality(s) <= Cardinality(T)
  BY FS_Subset, FS_CardinalityType
<1>2. s = {} <=> Cardinality(s) = 0
  BY <1>1, FS_EmptySet
<1>3. \A x \in s : Cardinality(s \ {x}) = Cardinality(s) - 1
  BY <1>1, FS_RemoveElement
<1>4. \A x \in T \ s : Cardinality(s \cup {x}) = Cardinality(s) + 1
  BY <1>1, FS_AddElement
<1>5. s # {} => Pick(s) \in s
  BY DEF Pick
<1> QED
  BY <1>1, <1>2, <1>3, <1>4, <1>5

LEMMA FoldExists ==
    ASSUME NEW f, NEW T, IsFiniteSet(T)
    PROVE  \E g : Partial(g, f, SUBSET T)
<1> DEFINE P == {n \in Nat : \E g : Partial(g, f, Small(T, n))}
<1>1. 0 \in P
  <2>1. \A s \in Small(T, 0) : s = {}
    BY SmallSets DEF Small
  <2>2. Partial([s \in Small(T, 0) |-> 0], f, Small(T, 0))
    BY <2>1 DEF Partial
  <2> QED
    BY <2>2
<1>2. ASSUME NEW n \in Nat, n \in P PROVE n + 1 \in P
  <2>1. PICK g : Partial(g, f, Small(T, n))
    BY <1>2
  <2> DEFINE h == [s \in Small(T, n + 1) |->
                     IF s = {} THEN 0 ELSE f[Pick(s)] + g[s \ {Pick(s)}]]
  <2>2. ASSUME NEW s \in Small(T, n + 1), s # {}
        PROVE  h[s \ {Pick(s)}] = g[s \ {Pick(s)}]
    <3> DEFINE u == s \ {Pick(s)}
    <3>1. s \in SUBSET T /\ Cardinality(s) <= n + 1 /\ Pick(s) \in s /\ Cardinality(s) \in Nat
          /\ Cardinality(u) = Cardinality(s) - 1 /\ u \in SUBSET T /\ Cardinality(u) \in Nat
      BY <2>2, SmallSets DEF Small
    <3>2. u \in Small(T, n) /\ u \in Small(T, n + 1)
      BY <3>1 DEF Small
    <3> HIDE DEF u
    <3>3. g[u] = IF u = {} THEN 0 ELSE f[Pick(u)] + g[u \ {Pick(u)}]
      BY <2>1, <3>2 DEF Partial
    <3> QED
      BY <3>2, <3>3 DEF u
  <2>3. Partial(h, f, Small(T, n + 1))
    BY <2>2 DEF Partial
  <2> QED
    BY <2>3
<1>3. Nat \subseteq P
  BY <1>1, <1>2, NatInduct
<1>4. Cardinality(T) \in Nat /\ Small(T, Cardinality(T)) = SUBSET T
  BY SmallSets DEF Small
<1> QED
  BY <1>3, <1>4

\* What the fold computes is a sum.
Terms(f, T) == \A x \in T : f[x] \in Int
Sums(g, f, T) == \A s \in SUBSET T : /\ g[s] \in Int
                                     /\ \A x \in T \ s : g[s \cup {x}] = g[s] + f[x]
LEMMA FoldSums ==
    ASSUME NEW T, IsFiniteSet(T), NEW f, Terms(f, T), NEW g, Partial(g, f, SUBSET T)
    PROVE  Sums(g, f, T)
<1> USE DEF Terms, Sums
<1> DEFINE Good(s) == g[s] \in Int /\ \A x \in T \ s : g[s \cup {x}] = g[s] + f[x]
           P == {n \in Nat : \A s \in Small(T, n) : Good(s)}
<1>1. \A s \in SUBSET T : g[s] = IF s = {} THEN 0 ELSE f[Pick(s)] + g[s \ {Pick(s)}]
  BY DEF Partial
<1>2. 0 \in P
  <2>1. \A s \in Small(T, 0) : s = {}
    BY SmallSets DEF Small
  <2>2. g[{}] = 0
    BY <1>1
  <2>3. ASSUME NEW x \in T PROVE g[{} \cup {x}] = g[{}] + f[x]
    <3>1. Pick({x}) = x
      BY DEF Pick
    <3>2. {x} \in SUBSET T /\ {x} # {} /\ {x} \ {x} = {} /\ {} \cup {x} = {x} /\ f[x] \in Int
      OBVIOUS
    <3>3. g[{x}] = f[x] + g[{}]
      BY <1>1, <3>1, <3>2
    <3> QED
      BY <2>2, <3>2, <3>3
  <2>4. Good({})
    <3>1. \A x \in T \ {} : g[{} \cup {x}] = g[{}] + f[x]
      BY <2>3
    <3>2. g[{}] \in Int
      BY <2>2
    <3> QED
      BY <3>1, <3>2
  <2> HIDE DEF Good
  <2> QED
    BY <2>1, <2>4
<1>3. ASSUME NEW n \in Nat, n \in P PROVE n + 1 \in P
  <2> SUFFICES ASSUME NEW s \in Small(T, n + 1) PROVE Good(s)
    OBVIOUS
  <2>1. CASE s = {}
    <3>1. {} \in Small(T, n)
      BY SmallSets DEF Small
    <3> QED
      BY <1>3, <2>1, <3>1
  <2>2. CASE s # {}
    <3> DEFINE p == Pick(s)
               t == s \ {p}
    <3>1. s \in SUBSET T /\ p \in s /\ t \in Small(T, n)
      BY <2>2, SmallSets DEF Small
    <3>2. Good(t) /\ t \in SUBSET T
      BY <1>3, <3>1 DEF Small
    <3>3. g[s] = g[t] + f[p] /\ f[p] \in Int
      BY <1>1, <2>2, <3>1, <3>2
    <3>4. ASSUME NEW x \in T \ s PROVE g[s \cup {x}] = g[s] + f[x]
      <4> DEFINE u == s \cup {x}
                 q == Pick(u)
      <4>1. u \in SUBSET T /\ u # {} /\ q \in u
        BY <3>1, SmallSets
      <4>2. g[u] = f[q] + g[u \ {q}] /\ f[x] \in Int /\ f[q] \in Int
        BY <1>1, <4>1
      <4>0. g[s] \in Int
        BY <3>2, <3>3
      <4> HIDE DEF q
      <4>3. CASE q = x
        <5>1. u \ {q} = s
          BY <4>3
        <5> HIDE DEF u
        <5>2. g[u] = f[x] + g[s]
          BY <4>2, <4>3, <5>1
        <5>3. g[u] = g[s] + f[x]
          BY <4>0, <4>2, <5>2
        <5> QED
          BY <5>3 DEF u
      <4>4. CASE q # x
        <5> DEFINE v == s \ {q}
        <5>1. q \in s /\ v \in Small(T, n)
          <6>1. q \in s
            BY <4>1, <4>4
          <6>2. Cardinality(v) = Cardinality(s) - 1 /\ v \in SUBSET T /\ Cardinality(s) <= n + 1
                /\ Cardinality(s) \in Nat
            BY <3>1, <6>1, SmallSets DEF Small
          <6> QED
            BY <6>1, <6>2 DEF Small
        <5>2. u \ {q} = v \cup {x} /\ s = v \cup {q} /\ q \in T \ v /\ x \in T \ v
          BY <3>1, <4>4, <5>1
        <5>3. Good(v)
          BY <1>3, <5>1
        <5>4. g[v \cup {x}] = g[v] + f[x] /\ g[v \cup {q}] = g[v] + f[q] /\ g[v] \in Int
          BY <5>2, <5>3
        <5> HIDE DEF u, v
        <5>5. g[s] = g[v] + f[q] /\ g[u \ {q}] = g[v] + f[x]
          BY <5>2, <5>4
        <5>6. g[u] = g[s] + f[x]
          BY <4>2, <5>4, <5>5
        <5> QED
          BY <5>6 DEF u
      <4> QED
        BY <4>3, <4>4
    <3>5. g[s] \in Int
      BY <3>2, <3>3
    <3> QED
      BY <3>4, <3>5
  <2> QED
    BY <2>1, <2>2
<1>4. Nat \subseteq P
  BY <1>2, <1>3, NatInduct
<1>5. Cardinality(T) \in Nat /\ Small(T, Cardinality(T)) = SUBSET T
  BY SmallSets DEF Small
<1> QED
  BY <1>4, <1>5

\* It depends on the terms only.
Alike(g, k, V) == g[V] = k[V]
Within(V, T) == V \subseteq T
Agree(f, h, V) == \A x \in V : f[x] = h[x]
LEMMA FoldSame ==
    ASSUME NEW V, NEW T, NEW U, NEW f, NEW h, NEW g, NEW k,
           IsFiniteSet(V), Within(V, T), Within(V, U), Agree(f, h, V),
           Partial(g, f, SUBSET T), Partial(k, h, SUBSET U)
    PROVE  Alike(g, k, V)
<1> USE DEF Agree, Within, Alike
<1> DEFINE P == {n \in Nat : \A s \in Small(V, n) : g[s] = k[s]}
<1>1. \A s \in SUBSET V : /\ g[s] = IF s = {} THEN 0 ELSE f[Pick(s)] + g[s \ {Pick(s)}]
                          /\ k[s] = IF s = {} THEN 0 ELSE h[Pick(s)] + k[s \ {Pick(s)}]
  BY DEF Partial
<1>2. 0 \in P
  <2>1. \A s \in Small(V, 0) : s = {}
    BY SmallSets DEF Small
  <2>2. g[{}] = k[{}]
    BY <1>1
  <2> QED
    BY <2>1, <2>2
<1>3. ASSUME NEW n \in Nat, n \in P PROVE n + 1 \in P
  <2> SUFFICES ASSUME NEW s \in Small(V, n + 1), s # {} PROVE g[s] = k[s]
    BY <1>1
  <2> DEFINE p == Pick(s)
             t == s \ {p}
  <2>1. /\ s \in SUBSET V /\ p \in s /\ t \in SUBSET V /\ Cardinality(s) <= n + 1
        /\ Cardinality(s) \in Nat /\ Cardinality(t) = Cardinality(s) - 1
    BY SmallSets DEF Small
  <2>2. t \in Small(V, n)
    BY <2>1 DEF Small
  <2>3. g[t] = k[t] /\ f[p] = h[p]
    BY <1>3, <2>1, <2>2
  <2> QED
    BY <1>1, <2>1, <2>3
<1>4. Nat \subseteq P
  BY <1>2, <1>3, NatInduct
<1>5. Cardinality(V) \in Nat /\ V \in Small(V, Cardinality(V))
  BY SmallSets DEF Small
<1> QED
  BY <1>4, <1>5

LEMMA SumAdds ==
    ASSUME NEW T, IsFiniteSet(T), NEW f, \A y \in T : f[y] \in Int,
           NEW V \in SUBSET T
    PROVE  /\ SumFunctionOnSet(f, V) \in Int
           /\ \A x \in T \ V : SumFunctionOnSet(f, V \cup {x}) = SumFunctionOnSet(f, V) + f[x]
<1>1. PICK g : Partial(g, f, SUBSET T)
  BY FoldExists
<1>2. ASSUME NEW U \in SUBSET T PROVE SumFunctionOnSet(f, U) = g[U]
  <2>1. IsFiniteSet(U)
    BY FS_Subset
  <2> DEFINE k == CHOOSE h : Partial(h, f, SUBSET U)
  <2>2. Partial(k, f, SUBSET U)
    BY <2>1, FoldExists
  <2>3. SumFunctionOnSet(f, U) = k[U]
    BY SumIs
  <2> HIDE DEF k
  <2>4. Within(U, T) /\ Within(U, U) /\ Agree(f, f, U)
    BY DEF Agree, Within
  <2>5. Alike(g, k, U)
    BY <1>1, <2>1, <2>2, <2>4, FoldSame
  <2> QED
    BY <2>3, <2>5 DEF Alike
<1>3. \A U \in SUBSET T : g[U] \in Int /\ \A x \in T \ U : g[U \cup {x}] = g[U] + f[x]
  <2>1. Terms(f, T)
    BY DEF Terms
  <2>2. Sums(g, f, T)
    BY <1>1, <2>1, FoldSums
  <2> QED
    BY <2>2 DEF Sums
<1>4. ASSUME NEW x \in T \ V
      PROVE  SumFunctionOnSet(f, V \cup {x}) = SumFunctionOnSet(f, V) + f[x]
  <2>1. V \cup {x} \in SUBSET T
    OBVIOUS
  <2> QED
    BY <1>2, <1>3, <2>1
<1> QED
  BY <1>2, <1>3, <1>4

\* The sum over a function with one term more, and with one term changed.
LEMMA SumSame ==
    ASSUME NEW T, IsFiniteSet(T), NEW f, NEW h, \A x \in T : f[x] = h[x]
    PROVE  SumFunctionOnSet(f, T) = SumFunctionOnSet(h, T)
<1> DEFINE g == CHOOSE q : Partial(q, f, SUBSET T)
           k == CHOOSE q : Partial(q, h, SUBSET T)
<1>1. Partial(g, f, SUBSET T) /\ Partial(k, h, SUBSET T)
  BY FoldExists
<1>2. SumFunctionOnSet(f, T) = g[T] /\ SumFunctionOnSet(h, T) = k[T]
  BY SumIs
<1> HIDE DEF g, k
<1>3. g[T] = k[T]
  <2>1. Within(T, T) /\ Agree(f, h, T)
    BY DEF Agree, Within
  <2>2. Alike(g, k, T)
    BY <1>1, <2>1, FoldSame
  <2> QED
    BY <2>2 DEF Alike
<1> QED
  BY <1>2, <1>3

LEMMA SumNone ==
    ASSUME NEW f, DOMAIN f = {}
    PROVE  SumFunction(f) = 0
<1>1. IsFiniteSet({}) /\ \A x \in {} : f[x] \in Int
  BY FS_EmptySet
<1>2. PICK g : Partial(g, f, SUBSET {})
  BY <1>1, FoldExists
<1> DEFINE k == CHOOSE h : Partial(h, f, SUBSET {})
<1>3. Partial(k, f, SUBSET {})
  BY <1>2
<1>4. SumFunctionOnSet(f, {}) = k[{}]
  BY SumIs
<1> HIDE DEF k
<1>5. k[{}] = 0
  BY <1>3 DEF Partial
<1> QED
  BY <1>4, <1>5 DEF SumFunction

\* A function from T to the integers.
IntsOn(f, T) == f \in [T -> Int]
OneMore(T, x, U) == x \notin T /\ U = T \cup {x}

LEMMA SumInt ==
    ASSUME NEW T, NEW f, IsFiniteSet(T), IntsOn(f, T)
    PROVE  SumFunction(f) \in Int
<1>1. T \in SUBSET T /\ DOMAIN f = T /\ \A y \in T : f[y] \in Int
  BY DEF IntsOn
<1>2. SumFunctionOnSet(f, T) \in Int
  BY <1>1, SumAdds
<1> QED
  BY <1>1, <1>2 DEF SumFunction

LEMMA SumMore ==
    ASSUME NEW T, NEW x, NEW U, NEW f, NEW h, IsFiniteSet(T), OneMore(T, x, U),
           IntsOn(f, T), IntsOn(h, U), Agree(f, h, T)
    PROVE  SumFunction(f) \in Int /\ SumFunction(h) = SumFunction(f) + h[x]
<1>1. IsFiniteSet(U) /\ x \notin T /\ U = T \cup {x}
  BY FS_AddElement DEF OneMore
<1>2. DOMAIN f = T /\ DOMAIN h = U /\ \A y \in T : f[y] = h[y]
  BY DEF IntsOn, Agree
<1>3. SumFunctionOnSet(h, T) \in Int /\ SumFunctionOnSet(h, U) = SumFunctionOnSet(h, T) + h[x]
  <2>1. T \in SUBSET U /\ x \in U \ T /\ \A y \in U : h[y] \in Int
    BY <1>1 DEF IntsOn
  <2>2. /\ SumFunctionOnSet(h, T) \in Int
        /\ \A z \in U \ T : SumFunctionOnSet(h, T \cup {z}) = SumFunctionOnSet(h, T) + h[z]
    BY <1>1, <2>1, SumAdds
  <2> QED
    BY <1>1, <2>1, <2>2
<1>4. SumFunctionOnSet(f, T) = SumFunctionOnSet(h, T)
  BY <1>2, SumSame
<1> QED
  BY <1>2, <1>3, <1>4 DEF SumFunction

LEMMA SumChanged ==
    ASSUME NEW T, NEW x, NEW U, NEW f, NEW h, IsFiniteSet(T), OneMore(U, x, T),
           IntsOn(f, T), IntsOn(h, T), Agree(f, h, U)
    PROVE  SumFunction(f) \in Int /\ SumFunction(h) = SumFunction(f) - f[x] + h[x]
<1> DEFINE r == [y \in U |-> f[y]]
<1>1. IsFiniteSet(U) /\ x \notin U /\ T = U \cup {x}
  BY FS_Subset DEF OneMore
<1>2. IntsOn(r, U) /\ Agree(r, f, U) /\ Agree(r, h, U)
  BY <1>1 DEF IntsOn, Agree
<1> HIDE DEF r
<1>3. /\ SumFunction(r) \in Int /\ SumFunction(f) = SumFunction(r) + f[x]
      /\ SumFunction(h) = SumFunction(r) + h[x]
  BY <1>1, <1>2, SumMore
<1>4. f[x] \in Int /\ h[x] \in Int
  BY <1>1 DEF IntsOn
<1> QED
  BY <1>3, <1>4

LEMMA SumOne ==
    ASSUME NEW x, NEW f, IntsOn(f, {x})
    PROVE  SumFunction(f) = f[x]
<1> DEFINE e == [y \in {} |-> 0]
<1>1. IsFiniteSet({}) /\ OneMore({}, x, {x})
  BY FS_EmptySet DEF OneMore
<1>2. IntsOn(e, {}) /\ Agree(e, f, {}) /\ DOMAIN e = {}
  BY DEF IntsOn, Agree
<1> HIDE DEF e
<1>3. SumFunction(e) = 0
  BY <1>2, SumNone
<1>4. SumFunction(f) = SumFunction(e) + f[x]
  BY <1>1, <1>2, SumMore
<1>5. f[x] \in Int
  BY DEF IntsOn
<1> QED
  BY <1>3, <1>4, <1>5

-----------------------------------------------------------------------------
(* What the running frame has read, and what it has taken *)

\* A client names a SKU on one line of an order only: otherwise a rollback leaves the
\* earlier line's units out of the Inventory object (allocate_stock.py 42-47).
EachSkuOnce ==
    \A c \in Calls : c.op = "place" =>
        \A i, j \in DOMAIN c.items : c.items[i].sku = c.items[j].sku => i = j

\* An order is what its PlaceOrder asked for; an Inventory object stays at its location.
Stored == \A o \in DOMAIN repo.orders :
             /\ calls[o] # None /\ calls[o].op = "place"
             /\ repo.orders[o] = calls[o].items
Shelved == \A l \in DOMAIN repo.inventories : repo.inventories[l] \in ObjectsOf(l)

\* Line n can be filled from the inventory that f has read.
Enough(f, n, st) == st[f.inventory][f.lines[n].sku] >= f.lines[n].quantity

\* An allocation works on the stored order and inventory.  All its lines have passed the
\* precheck, and those from index on have still to be taken: it is never rolled back.
Allocating(f, rp, st) ==
    f.call.op = "allocate" =>
        /\ f.pc \notin Undoing
        /\ f.pc # "getOrder" =>
             /\ f.call.order \in DOMAIN rp.orders /\ f.lines = rp.orders[f.call.order]
        /\ f.pc \notin {"getOrder", "getInventory"} =>
             /\ f.call.location \in DOMAIN rp.inventories
             /\ f.inventory = rp.inventories[f.call.location]
        /\ f.pc \in {"getOrder", "getInventory"} => f.index = 1
        /\ f.pc = "precheck" => \A n \in DOMAIN f.lines : n < f.index => Enough(f, n, st)
        /\ f.pc \in {"enter", "snapshot", "clearPending"} =>
             \A n \in DOMAIN f.lines : Enough(f, n, st)
        /\ f.pc \in {"canFulfill", "load", "store"} =>
             /\ f.index <= Len(f.lines) + 1
             /\ \A n \in DOMAIN f.lines : n >= f.index => Enough(f, n, st)

\* A PlaceOrder on its way to the sink has checked every line against the products.
Checked(f, n, rp) == f.lines[n].sku \in DOMAIN rp.products /\ f.lines[n].quantity > 0
ToTheSink == {"enter", "snapshot", "clearPending", "addOrder", "publish", "buffer",
              "copyPending", "extendSink"}
Placing(f, rp) ==
    f.call.op = "place" =>
        /\ f.lines = f.call.items
        /\ f.pc = "readProduct" => \A n \in DOMAIN f.lines : n < f.index =>
             Checked(f, n, rp) /\ rp.products[f.lines[n].sku] \in f.currencies
        /\ f.pc \in ToTheSink =>
             /\ f.lines # <<>>
             /\ \A n \in DOMAIN f.lines : Checked(f, n, rp)
             /\ \A m, n \in DOMAIN f.lines :
                   rp.products[f.lines[m].sku] = rp.products[f.lines[n].sku]

\* The write of the body is the only difference between repositories and snapshots.
Written == {"publish", "buffer", "copyPending", "extendSink"}
Writing(f, r, rp, sn) ==
    f.pc \in Written =>
        /\ sn.products # None /\ sn.orders # None /\ sn.inventories # None
        /\ rp.products = IF f.call.op = "product"
                         THEN Put(sn.products, f.call.sku, f.call.currency) ELSE sn.products
        /\ rp.orders = IF f.call.op = "place" THEN Put(sn.orders, r, f.lines) ELSE sn.orders
        /\ rp.inventories = IF f.call.op = "stock"
                            THEN Put(sn.inventories, f.call.location, r) ELSE sn.inventories
        /\ f.call.op = "place" => r \notin DOMAIN sn.orders

\* Only an allocation holds an Inventory; the one a PUT brings is as it came.
Holding(f, r, st) ==
    /\ f.call.op # "allocate" => f.inventory = None
    /\ f.call.op = "stock" => st[r] = f.call.levels

Works(f, r, rp, sn, st) ==
    Allocating(f, rp, st) /\ Placing(f, rp) /\ Writing(f, r, rp, sn) /\ Holding(f, r, st)

Working(r) == frames[r] # <<>> /\ Top(r).pc \notin AfterSink
                => Works(Top(r), r, repo, snap, stock)

WorkInv == Stored /\ Shelved /\ \A r \in Requests : Working(r)

\* An announced allocation is of an order in the repository.
Backed == \A i \in DOMAIN sink :
             sink[i].type = "StockAllocated" => sink[i].order \in DOMAIN repo.orders

\* What is missing at a location was allocated there, or is in the running frame's hands.
InHand(r, l, s) ==
    IF r \in Uncommitted /\ Top(r).call.op = "allocate" /\ Top(r).call.location = l
    THEN TakenOf(r, s) ELSE 0
Accounted ==
    /\ Backed
    /\ StockAccounted
    /\ \A r \in Busy : \A l \in Locations, s \in Skus :
          Missing(l, s) = Allocated(l, s) + InHand(r, l, s)

\* What a step leaves of the running frame.
Same(f, g) == g.call = f.call /\ g.lines = f.lines /\ g.inventory = f.inventory

LEMMA GotoSame ==
    ASSUME FramesOK, NEW r \in Requests, frames[r] # <<>>, NEW pc \in PCs, Goto(r, pc)
    PROVE  Same(Top(r), Top(r)') /\ Top(r)'.pc = pc /\ Top(r)'.index = 1
<1>1. Top(r) \in Frame
  BY TopOK
<1>2. Top(r)' = [Top(r) EXCEPT !.pc = pc, !.index = 1]
  BY BecomeShape DEF Goto
<1> QED
  BY <1>1, <1>2 DEF Same, Frame

LEMMA AdvanceSame ==
    ASSUME FramesOK, NEW r \in Requests, frames[r] # <<>>, Advance(r)
    PROVE  Same(Top(r), Top(r)') /\ Top(r)'.pc = Top(r).pc /\ Top(r)'.index = Top(r).index + 1
<1>1. Top(r) \in Frame
  BY TopOK
<1>2. Top(r)' = [Top(r) EXCEPT !.index = @ + 1]
  BY BecomeShape DEF Advance
<1> QED
  BY <1>1, <1>2, AdvanceFrame DEF Same

\* A frame that ends leaves none, or its caller in the dispatch loop.
LEMMA WorkReturn ==
    ASSUME IInv, NEW r \in Requests, frames[r] # <<>>, Stack(r),
           NEW outcome \in {"ok", "raised"}, Return(r, outcome)
    PROVE  Working(r)'
  BY ReturnTop DEF Working, AfterSink

\* The lines of a frame, and the line at its index.
LEMMA FrameLines ==
    ASSUME IInv, NEW r \in Requests, frames[r] # <<>>
    PROVE  /\ Top(r) \in Frame /\ FrameOK(Top(r)) /\ FramesOK /\ TypeOK
           /\ Top(r).index \in Nat \ {0} /\ Top(r).lines \in Seq(Lines)
           /\ DOMAIN Top(r).lines = 1..Len(Top(r).lines) /\ Len(Top(r).lines) \in Nat
           /\ LinesLeft(r) <=> Top(r).index \in DOMAIN Top(r).lines
           /\ \A n \in DOMAIN Top(r).lines :
                 Top(r).lines[n].sku \in Skus /\ Top(r).lines[n].quantity \in Int
           /\ Top(r).call.op \in {"place", "allocate", "product", "stock"}
           /\ Top(r).call.op = "allocate" =>
                Top(r).call.order \in Requests /\ Top(r).call.location \in Locations
<1>1. Top(r) \in Frame /\ FrameOK(Top(r)) /\ FramesOK /\ TypeOK
  BY TopOK DEF IInv
<1>2. Top(r).index \in Nat \ {0} /\ Top(r).lines \in Seq(Lines) /\ Top(r).call \in AllCalls
  BY <1>1 DEF Frame
<1>3. DOMAIN Top(r).lines = 1..Len(Top(r).lines) /\ Len(Top(r).lines) \in Nat
      /\ \A n \in DOMAIN Top(r).lines : Top(r).lines[n] \in Lines
  BY <1>2
<1>4. \A n \in DOMAIN Top(r).lines :
         Top(r).lines[n].sku \in Skus /\ Top(r).lines[n].quantity \in Int
  BY <1>3 DEF Lines
<1>5. LinesLeft(r) <=> Top(r).index \in DOMAIN Top(r).lines
  BY <1>2, <1>3 DEF LinesLeft
<1> QED
  BY <1>1, <1>2, <1>3, <1>4, <1>5, CallArguments

LEMMA WorkPlace ==
    ASSUME IInv, NEW r \in Requests, frames[r] # <<>>, Stack(r), Working(r),
           ReadProduct(r) \/ CreateOrder(r) \/ RefuseOrder(r)
    PROVE  Working(r)'
<1> DEFINE f == Top(r)
           g == Top(r)'
<1>1. /\ f.pc = "readProduct" /\ f.call.op = "place" /\ UNCHANGED <<repo, stock>>
      /\ FramesOK /\ f \in Frame /\ f.index \in Nat /\ DOMAIN f.lines = 1..Len(f.lines)
      /\ LinesLeft(r) <=> f.index \in DOMAIN f.lines
      /\ Len(f.lines) \in Nat
  BY FrameLines DEF ReadProduct, CreateOrder, RefuseOrder, At, stores, FrameOK, Fits
<1>2. /\ f.lines = f.call.items /\ f.inventory = None
      /\ \A n \in DOMAIN f.lines : n < f.index =>
           Checked(f, n, repo) /\ repo.products[f.lines[n].sku] \in f.currencies
  BY <1>1 DEF Working, Works, Placing, Holding, AfterSink
<1>3. CASE ReadProduct(r)
  <2>1. g = [f EXCEPT !.index = @ + 1, !.currencies = @ \cup {repo.products[Line(r).sku]}]
    BY <1>1, <1>3, BecomeShape DEF ReadProduct
  <2>2. /\ Same(f, g) /\ g.pc = f.pc /\ g.index = f.index + 1
        /\ g.currencies = f.currencies \cup {repo.products[Line(r).sku]}
    BY <1>1, <2>1 DEF Frame, Same
  <2>3. Checked(f, f.index, repo) /\ Line(r) = f.lines[f.index]
    BY <1>3 DEF ReadProduct, Orderable, Line, Checked
  <2> HIDE DEF f, g
  <2>4. \A n \in DOMAIN g.lines : n < g.index =>
          Checked(g, n, repo) /\ repo.products[g.lines[n].sku] \in g.currencies
    BY <1>1, <1>2, <2>2, <2>3 DEF Same, Checked
  <2>5. Works(g, r, repo', snap', stock')
    BY <1>1, <1>2, <2>2, <2>4
    DEF Works, Allocating, Placing, Writing, Holding, Same, ToTheSink, Written
  <2> QED
    BY <2>5 DEF Working, g
<1>4. CASE CreateOrder(r)
  <2>1. Same(f, g) /\ g.pc = "enter"
    BY <1>1, <1>4, GotoSame DEF CreateOrder, PCs
  <2>2. f.lines # <<>> /\ (\A n \in DOMAIN f.lines : n < f.index)
        /\ \A c, d \in f.currencies : c = d
    BY <1>1, <1>4 DEF CreateOrder, LinesLeft
  <2> HIDE DEF f, g
  <2>3. Works(g, r, repo', snap', stock')
    BY <1>1, <1>2, <2>1, <2>2
    DEF Works, Allocating, Placing, Writing, Holding, Same, Checked, ToTheSink, Written
  <2> QED
    BY <2>3 DEF Working, g
<1>5. CASE RefuseOrder(r)
  BY <1>5, WorkReturn DEF RefuseOrder
<1> QED
  BY <1>3, <1>4, <1>5

LEMMA WorkRead ==
    ASSUME IInv, NEW r \in Requests, frames[r] # <<>>, Stack(r), Working(r),
           GetOrder(r) \/ GetInventory(r) \/ Precheck(r)
    PROVE  Working(r)'
<1> DEFINE f == Top(r)
           g == Top(r)'
<1>1. /\ f.pc \in {"getOrder", "getInventory", "precheck"} /\ f.call.op = "allocate"
      /\ UNCHANGED <<repo, stock>>
      /\ FramesOK /\ f \in Frame /\ f.index \in Nat \ {0} /\ DOMAIN f.lines = 1..Len(f.lines)
      /\ LinesLeft(r) <=> f.index \in DOMAIN f.lines
      /\ Len(f.lines) \in Nat
  BY FrameLines DEF GetOrder, GetInventory, Precheck, At, stores, FrameOK, Fits
<1>2. Allocating(f, repo, stock)
  BY <1>1 DEF Working, Works, AfterSink
<1>3. ASSUME g.pc \in {"getInventory", "precheck", "enter"}, g.call = f.call,
             Allocating(g, repo, stock)
      PROVE  Working(r)'
  BY <1>1, <1>3 DEF Working, Works, Placing, Writing, Holding, Written
<1>4. CASE GetOrder(r)
  <2>1. CASE Return(r, "raised")
    BY <2>1, WorkReturn
  <2>2. CASE /\ f.call.order \in DOMAIN repo.orders
             /\ Become(r, [f EXCEPT !.pc = "getInventory", !.lines = repo.orders[f.call.order]])
    <3>1. g = [f EXCEPT !.pc = "getInventory", !.lines = repo.orders[f.call.order]]
      BY <1>1, <2>2, BecomeShape
    <3>2. /\ g.pc = "getInventory" /\ g.lines = repo.orders[f.call.order]
          /\ g.index = f.index /\ g.call = f.call
      BY <1>1, <3>1 DEF Frame
    <3>3. f.index = 1
      BY <1>1, <1>2, <1>4 DEF Allocating, GetOrder, At
    <3> HIDE DEF f, g
    <3>4. Allocating(g, repo, stock)
      BY <1>1, <2>2, <3>2, <3>3 DEF Allocating, Undoing
    <3> QED
      BY <1>3, <3>2, <3>4
  <2> QED
    BY <1>4, <2>1, <2>2 DEF GetOrder
<1>5. CASE GetInventory(r)
  <2>1. CASE Return(r, "raised")
    BY <2>1, WorkReturn
  <2>2. CASE /\ f.call.location \in DOMAIN repo.inventories
             /\ Become(r, [f EXCEPT !.pc = "precheck",
                                    !.inventory = repo.inventories[f.call.location]])
    <3>1. g = [f EXCEPT !.pc = "precheck", !.inventory = repo.inventories[f.call.location]]
      BY <1>1, <2>2, BecomeShape
    <3>2. /\ g.pc = "precheck" /\ g.inventory = repo.inventories[f.call.location]
          /\ g.index = f.index /\ g.call = f.call /\ g.lines = f.lines
      BY <1>1, <3>1 DEF Frame
    <3>3. /\ f.index = 1 /\ f.call.order \in DOMAIN repo.orders
          /\ f.lines = repo.orders[f.call.order]
      BY <1>1, <1>2, <1>5 DEF Allocating, GetInventory, At
    <3> HIDE DEF f, g
    <3>4. Allocating(g, repo, stock)
      BY <1>1, <2>2, <3>2, <3>3 DEF Allocating, Undoing
    <3> QED
      BY <1>3, <3>2, <3>4
  <2> QED
    BY <1>5, <2>1, <2>2 DEF GetInventory
<1>6. CASE Precheck(r)
  <2>0. f.pc = "precheck" /\ Same(f, f)
    BY <1>6 DEF Precheck, At, Same
  <2>1. CASE Return(r, "raised")
    BY <2>1, WorkReturn
  <2>2. CASE LinesLeft(r) /\ Available(r) >= Line(r).quantity /\ Advance(r)
    <3>1. Same(f, g) /\ g.pc = "precheck" /\ g.index = f.index + 1
      BY <1>1, <2>0, <2>2, AdvanceSame
    <3>2. Enough(f, f.index, stock)
      BY <2>2 DEF Enough, Available, Line
    <3> HIDE DEF f, g
    <3>3. Allocating(g, repo, stock)
      BY <1>1, <1>2, <2>0, <3>1, <3>2 DEF Allocating, Undoing, Same, Enough
    <3> QED
      BY <1>3, <3>1, <3>3 DEF Same
  <2>3. CASE ~LinesLeft(r) /\ Goto(r, "enter")
    <3>1. Same(f, g) /\ g.pc = "enter"
      BY <1>1, <2>3, GotoSame DEF PCs
    <3>2. \A n \in DOMAIN f.lines : n < f.index
      BY <1>1, <2>3
    <3> HIDE DEF f, g
    <3>3. Allocating(g, repo, stock)
      BY <1>1, <1>2, <2>0, <3>1, <3>2 DEF Allocating, Undoing, Same, Enough
    <3> QED
      BY <1>3, <3>1, <3>3 DEF Same
  <2> QED
    BY <1>6, <2>1, <2>2, <2>3 DEF Precheck
<1> QED
  BY <1>4, <1>5, <1>6

\* The steps of the unit of work before and after the body leave the frame's work alone.
LEMMA WorkEnter ==
    ASSUME IInv, NEW r \in Requests, frames[r] # <<>>, Working(r),
           Enter(r) \/ TakeSnapshot(r) \/ ClearPending(r)
    PROVE  Working(r)'
<1> DEFINE f == Top(r)
           g == Top(r)'
<1>1. /\ f.pc \in {"enter", "snapshot", "clearPending"} /\ UNCHANGED <<repo, stock>>
      /\ FramesOK /\ FrameOK(f)
      /\ DOMAIN f.lines = 1..Len(f.lines) /\ Len(f.lines) \in Nat
      /\ f.call.op \in {"place", "allocate", "product", "stock"}
  BY FrameLines DEF Enter, TakeSnapshot, ClearPending, At, stores
<1>2. Works(f, r, repo, snap, stock)
  BY <1>1 DEF Working, AfterSink
<1>3. /\ Same(f, g)
      /\ g.pc \in {"snapshot", "clearPending"} \/ (g.index = 1 /\ g.pc = BodyStep(f.call.op))
  <2> USE DEF PCs
  <2>1. CASE Enter(r)
    <3>1. Goto(r, "snapshot")
      BY <2>1 DEF Enter
    <3> QED
      BY <1>1, <3>1, GotoSame
  <2>2. CASE TakeSnapshot(r)
    <3>1. f.pc = "snapshot" /\ (Advance(r) \/ Goto(r, "clearPending"))
      BY <2>2 DEF TakeSnapshot, At
    <3>2. CASE Advance(r)
      BY <1>1, <3>1, <3>2, AdvanceSame
    <3>3. CASE Goto(r, "clearPending")
      BY <1>1, <3>3, GotoSame
    <3> QED
      BY <3>1, <3>2, <3>3
  <2>3. CASE ClearPending(r)
    <3>1. BodyStep(f.call.op) \in PCs
      BY <1>1 DEF BodyStep, PCs
    <3> QED
      BY <1>1, <2>3, <3>1, GotoSame DEF ClearPending
  <2> QED
    BY <2>1, <2>2, <2>3
<1>4. BodyStep(f.call.op) = IF f.call.op = "place" THEN "addOrder"
                            ELSE IF f.call.op = "allocate" THEN "canFulfill"
                            ELSE IF f.call.op = "product" THEN "addProduct" ELSE "upsert"
  BY <1>1 DEF BodyStep
<1> HIDE DEF f, g
<1>5. Works(g, r, repo', snap', stock')
  <2>1. Allocating(g, repo, stock)
    BY <1>1, <1>2, <1>3, <1>4 DEF Works, Allocating, Same, Enough, Undoing
  <2>2. Placing(g, repo)
    BY <1>1, <1>2, <1>3, <1>4 DEF Works, Placing, Same, Checked, ToTheSink
  <2>3. Writing(g, r, repo, snap')
    BY <1>1, <1>3, <1>4 DEF Writing, Written
  <2>4. Holding(g, r, stock)
    BY <1>2, <1>3 DEF Works, Holding, Same
  <2> QED
    BY <1>1, <2>1, <2>2, <2>3, <2>4 DEF Works
<1> QED
  BY <1>5 DEF Working, g

LEMMA WorkWrite ==
    ASSUME IInv, NEW r \in Requests, frames[r] # <<>>, Phase(r), Working(r),
           Top(r).pc = "addOrder" => r \notin DOMAIN repo.orders,
           AddProduct(r) \/ AddOrder(r) \/ UpsertInventory(r)
    PROVE  Working(r)'
<1> DEFINE f == Top(r)
           g == Top(r)'
<1>1. /\ f.pc \in {"addProduct", "addOrder", "upsert"} /\ UNCHANGED <<stock, snap>>
      /\ FramesOK /\ FrameOK(f) /\ DOMAIN repo = {"products", "orders", "inventories"}
      /\ f.call.op \in {"place", "allocate", "product", "stock"}
  BY FrameLines DEF AddProduct, AddOrder, UpsertInventory, At, uow, TypeOK
<1>2. Works(f, r, repo, snap, stock) /\ TakenTo(4)
  BY <1>1 DEF Working, AfterSink, Phase, Unchanged
<1>3. /\ snap.products = repo.products /\ snap.orders = repo.orders
      /\ snap.inventories = repo.inventories
      /\ snap.products # None /\ snap.orders # None /\ snap.inventories # None
  BY <1>2, TakenIsKept DEF TakenTo, IInv, TypeOK
<1>4. CASE AddProduct(r)
  <2>1. /\ f.pc = "addProduct" /\ f.call.op = "product"
        /\ repo' = [repo EXCEPT !.products = Put(@, f.call.sku, f.call.currency)]
    BY <1>1, <1>4 DEF AddProduct, At, FrameOK, Fits
  <2>2. Same(f, g) /\ g.pc = "copyPending"
    BY <1>1, <1>4, GotoSame DEF AddProduct, PCs
  <2>3. /\ repo'.products = Put(snap.products, f.call.sku, f.call.currency)
        /\ repo'.orders = snap.orders /\ repo'.inventories = snap.inventories
    BY <1>1, <1>3, <2>1
  <2> HIDE DEF f, g
  <2>4. Works(g, r, repo', snap', stock')
    BY <1>1, <1>2, <1>3, <2>1, <2>2, <2>3 DEF Works, Allocating, Placing, Writing, Holding, Same
  <2> QED
    BY <2>4 DEF Working, g
<1>5. CASE AddOrder(r)
  <2>1. /\ f.pc = "addOrder" /\ f.call.op = "place"
        /\ repo' = [repo EXCEPT !.orders = Put(@, r, f.lines)]
    BY <1>1, <1>5 DEF AddOrder, At, FrameOK, Fits
  <2>2. Same(f, g) /\ g.pc = "publish"
    BY <1>1, <1>5, GotoSame DEF AddOrder, PCs
  <2>3. /\ repo'.products = snap.products /\ repo'.inventories = snap.inventories
        /\ repo'.orders = Put(snap.orders, r, f.lines) /\ repo'.products = repo.products
        /\ r \notin DOMAIN snap.orders
    BY <1>1, <1>3, <2>1
  <2> HIDE DEF f, g
  <2>4. Placing(g, repo')
    BY <1>2, <2>1, <2>2, <2>3 DEF Works, Placing, Same, Checked, ToTheSink
  <2>5. Works(g, r, repo', snap', stock')
    BY <1>1, <1>2, <1>3, <2>1, <2>2, <2>3, <2>4 DEF Works, Allocating, Writing, Holding, Same
  <2> QED
    BY <2>5 DEF Working, g
<1>6. CASE UpsertInventory(r)
  <2> DEFINE object == IF f.call.op = "stock" THEN r ELSE f.inventory
  <2>1. /\ f.pc = "upsert" /\ f.call.op \in {"stock", "allocate"}
        /\ repo' = [repo EXCEPT !.inventories = Put(@, f.call.location, object)]
    BY <1>1, <1>6 DEF UpsertInventory, At, FrameOK, Fits
  <2>2. Same(f, g) /\ g.pc = IF f.call.op = "stock" THEN "copyPending" ELSE "publish"
    <3>1. CASE f.call.op = "stock"
      BY <1>1, <1>6, <3>1, GotoSame DEF UpsertInventory, PCs
    <3>2. CASE f.call.op # "stock"
      BY <1>1, <1>6, <3>2, GotoSame DEF UpsertInventory, PCs
    <3> QED
      BY <3>1, <3>2
  <2>3. /\ repo'.inventories = Put(snap.inventories, f.call.location, object)
        /\ repo'.orders = snap.orders /\ repo'.products = snap.products
    BY <1>1, <1>3, <2>1
  <2>4. CASE f.call.op = "stock"
    <3> HIDE DEF f, g
    <3>1. Works(g, r, repo', snap', stock')
      BY <1>1, <1>2, <1>3, <2>2, <2>3, <2>4 DEF Works, Allocating, Placing, Writing, Holding, Same
    <3> QED
      BY <3>1 DEF Working, g
  <2>5. CASE f.call.op = "allocate"
    <3> HIDE DEF f, g
    <3>1. /\ f.call.location \in DOMAIN snap.inventories
          /\ f.inventory = snap.inventories[f.call.location]
          /\ f.call.order \in DOMAIN snap.orders /\ f.lines = snap.orders[f.call.order]
      BY <1>2, <1>3, <2>1, <2>5 DEF Works, Allocating
    <3>2. repo'.inventories = repo.inventories
      <4>1. IsInventories(repo.inventories)
        BY DEF IInv, TypeOK
      <4> QED
        BY <1>3, <2>3, <2>5, <3>1, <4>1 DEF Put, IsInventories, IsDict
    <3>3. Works(g, r, repo', snap', stock')
      BY <1>1, <1>2, <1>3, <2>2, <2>3, <2>5, <3>1, <3>2
      DEF Works, Allocating, Placing, Writing, Holding, Same, Undoing
    <3> QED
      BY <3>3 DEF Working, g
  <2> QED
    BY <2>1, <2>4, <2>5
<1> QED
  BY <1>4, <1>5, <1>6

\* The lines of an allocation name their SKUs once.
LEMMA LinesApart ==
    ASSUME IInv, EachSkuOnce, Stored, NEW f, f.call.op = "allocate", f.pc # "getOrder",
           Allocating(f, repo, stock)
    PROVE  \A i, j \in DOMAIN f.lines : f.lines[i].sku = f.lines[j].sku => i = j
<1> DEFINE o == f.call.order
<1>1. o \in DOMAIN repo.orders /\ f.lines = repo.orders[o]
  BY DEF Allocating
<1>2. o \in Requests
  BY <1>1 DEF IInv, TypeOK, IsOrders, IsDict
<1>3. calls[o] \in Calls /\ calls[o].op = "place" /\ f.lines = calls[o].items
  BY <1>1, <1>2 DEF Stored, IInv, TypeOK
<1> QED
  BY <1>3 DEF EachSkuOnce

LEMMA WorkTake ==
    ASSUME IInv, EachSkuOnce, Stored, NEW r \in Requests, frames[r] # <<>>, Working(r),
           CanFulfill(r) \/ LoadOnHand(r) \/ StoreOnHand(r)
    PROVE  Working(r)'
<1> DEFINE f == Top(r)
           g == Top(r)'
<1>1. /\ f.pc \in {"canFulfill", "load", "store"} /\ f.call.op = "allocate" /\ UNCHANGED repo
      /\ FramesOK /\ f \in Frame /\ f.index \in Nat \ {0} /\ DOMAIN f.lines = 1..Len(f.lines)
      /\ LinesLeft(r) <=> f.index \in DOMAIN f.lines
      /\ Len(f.lines) \in Nat
      /\ f.pc \in {"load", "store"} => f.index <= Len(f.lines)
      /\ \A n \in DOMAIN f.lines : f.lines[n].sku \in Skus
  BY FrameLines DEF CanFulfill, LoadOnHand, StoreOnHand, At, stores, FrameOK, Fits
<1>2. Allocating(f, repo, stock)
  BY <1>1 DEF Working, Works, AfterSink
<1>3. ASSUME g.pc \in {"canFulfill", "load", "store", "upsert"}, Same(f, g),
             Allocating(g, repo, stock')
      PROVE  Working(r)'
  BY <1>1, <1>3 DEF Working, Works, Placing, Writing, Holding, Written, Same
<1>4. CASE CanFulfill(r)
  <2> DEFINE pc == IF ~LinesLeft(r) THEN "upsert"
                   ELSE IF Available(r) >= Line(r).quantity THEN "load" ELSE "rollback"
  <2>0. g = [f EXCEPT !.pc = pc]
    BY <1>1, <1>4, BecomeShape DEF CanFulfill
  <2>1. f.pc = "canFulfill" /\ UNCHANGED stock
    BY <1>4 DEF CanFulfill, At, stores
  <2>2. LinesLeft(r) => Available(r) >= Line(r).quantity
    BY <1>1, <1>2, <2>1 DEF Allocating, Enough, Available, Line
  <2>3. pc = "upsert" \/ (pc = "load" /\ LinesLeft(r))
    BY <2>2
  <2> HIDE DEF pc
  <2>4. Same(f, g) /\ g.pc = pc /\ g.index = f.index
    BY <1>1, <2>0 DEF Frame, Same
  <2> HIDE DEF f, g
  <2>5. Allocating(g, repo, stock)
    BY <1>1, <1>2, <2>1, <2>3, <2>4 DEF Allocating, Undoing, Same, Enough
  <2> QED
    BY <1>3, <2>1, <2>3, <2>4, <2>5
<1>5. CASE LoadOnHand(r)
  <2>0. g = [f EXCEPT !.pc = "store", !.onHand = Available(r)]
    BY <1>1, <1>5, BecomeShape DEF LoadOnHand
  <2>1. f.pc = "load" /\ UNCHANGED stock
    BY <1>5 DEF LoadOnHand, At, stores
  <2>2. Same(f, g) /\ g.pc = "store" /\ g.index = f.index
    BY <1>1, <2>0 DEF Frame, Same
  <2> HIDE DEF f, g
  <2>3. Allocating(g, repo, stock)
    BY <1>1, <1>2, <2>1, <2>2 DEF Allocating, Undoing, Same, Enough
  <2> QED
    BY <1>3, <2>1, <2>2, <2>3
<1>6. CASE StoreOnHand(r)
  <2>0. g = [f EXCEPT !.pc = "canFulfill", !.index = @ + 1, !.onHand = 0]
    BY <1>1, <1>6, BecomeShape DEF StoreOnHand
  <2>1. f.pc = "store" /\ stock \in [Objects -> [Skus -> Int]]
    BY <1>6 DEF StoreOnHand, At, IInv, TypeOK, Levels
  <2>2. Same(f, g) /\ g.pc = "canFulfill" /\ g.index = f.index + 1
    BY <1>1, <2>0 DEF Frame, Same
  <2>3. stock' = [stock EXCEPT ![f.inventory] =
                    [@ EXCEPT ![f.lines[f.index].sku] = f.onHand - f.lines[f.index].quantity]]
    BY <1>6 DEF StoreOnHand, Line
  <2>4. f.index \in DOMAIN f.lines
    BY <1>1, <2>1
  <2>5. \A i, j \in DOMAIN f.lines : f.lines[i].sku = f.lines[j].sku => i = j
    BY <1>1, <1>2, LinesApart
  <2>6. ASSUME NEW n \in DOMAIN f.lines, n >= f.index + 1 PROVE Enough(f, n, stock')
    <3>1. f.lines[n].sku # f.lines[f.index].sku
      BY <1>1, <2>4, <2>5, <2>6
    <3>2. stock'[f.inventory][f.lines[n].sku] = stock[f.inventory][f.lines[n].sku]
      BY <2>1, <2>3, <3>1
    <3>3. Enough(f, n, stock)
      BY <1>1, <1>2, <2>1, <2>6 DEF Allocating
    <3> QED
      BY <3>2, <3>3 DEF Enough
  <2> HIDE DEF f, g
  <2>7. Allocating(g, repo, stock')
    BY <1>1, <1>2, <2>1, <2>2, <2>4, <2>6 DEF Allocating, Undoing, Same, Enough
  <2> QED
    BY <1>3, <2>2, <2>7
<1> QED
  BY <1>4, <1>5, <1>6

LEMMA WorkCommit ==
    ASSUME IInv, NEW r \in Requests, frames[r] # <<>>, Phase(r), Working(r),
           Publish(r) \/ Buffer(r) \/ CopyPending(r) \/ ExtendSink(r)
    PROVE  Working(r)'
<1> DEFINE f == Top(r)
           g == Top(r)'
<1>1. /\ f.pc \in Written /\ UNCHANGED <<repo, stock, snap>>
      /\ FramesOK /\ f \in Frame
  BY FrameLines DEF Publish, Buffer, CopyPending, ExtendSink, At, stores, uow, Written
<1>2. Works(f, r, repo, snap, stock)
  BY <1>1 DEF Working, Written, AfterSink
<1>3. Same(f, g) /\ g.pc \in Written \cup {"discard"}
  <2> USE DEF PCs, Written
  <2>1. CASE Publish(r)
    <3>1. Goto(r, "buffer")
      BY <2>1 DEF Publish, Phase, At
    <3> QED
      BY <1>1, <3>1, GotoSame
  <2>2. CASE Buffer(r)
    BY <1>1, <2>2, GotoSame DEF Buffer
  <2>3. CASE CopyPending(r)
    <3>1. g = [f EXCEPT !.pc = "extendSink", !.batch = pending]
      BY <1>1, <2>3, BecomeShape DEF CopyPending
    <3> QED
      BY <1>1, <3>1 DEF Frame, Same
  <2>4. CASE ExtendSink(r)
    BY <1>1, <2>4, GotoSame DEF ExtendSink
  <2> QED
    BY <2>1, <2>2, <2>3, <2>4
<1>4. CASE g.pc \in Written
  <2> HIDE DEF f, g
  <2>1. Allocating(g, repo, stock)
    BY <1>1, <1>2, <1>3, <1>4 DEF Works, Allocating, Same, Undoing, Written
  <2>2. Placing(g, repo)
    BY <1>1, <1>2, <1>3, <1>4 DEF Works, Placing, Same, Checked, ToTheSink, Written
  <2>3. Writing(g, r, repo, snap) /\ Holding(g, r, stock)
    BY <1>1, <1>2, <1>3, <1>4 DEF Works, Writing, Holding, Same
  <2> QED
    BY <1>1, <2>1, <2>2, <2>3 DEF Working, Works, g
<1>5. CASE g.pc = "discard"
  BY <1>5 DEF Working, AfterSink
<1> QED
  BY <1>3, <1>4, <1>5

\* No use case rolls back: its body cannot fail any more when it begins.
LEMMA NeverUndone ==
    ASSUME NEW r \in Requests, frames[r] # <<>>, Phase(r), Working(r)
    PROVE  Top(r).pc \notin Undoing
  BY DEF Phase, Working, Works, Allocating, Undoing, AfterSink

\* Which steps change the repositories, the stock and the sink.
LEMMA StepWrites ==
    ASSUME IInv, NEW r \in Requests, frames[r] # <<>>, Phase(r), Working(r), Step(r)
    PROVE  /\ AddProduct(r) \/ AddOrder(r) \/ UpsertInventory(r) \/ UNCHANGED repo
           /\ StoreOnHand(r) \/ UNCHANGED stock
           /\ AddProduct(r) \/ AddOrder(r) \/ UpsertInventory(r) \/ StoreOnHand(r) => UNCHANGED sink
<1>1. ~Restore(r)
  BY NeverUndone DEF Restore, At, Undoing
<1> QED
  BY <1>1 DEF Step, ReadProduct, CreateOrder, RefuseOrder, GetOrder, GetInventory,
     Precheck, Enter, TakeSnapshot, ClearPending, CanFulfill, LoadOnHand, Publish,
     Buffer, SinkNow, CopyPending, ExtendSink, DiscardPending, ClearSnapshot, SetCommitted,
     Notify, CallAllocate, EndDispatch, Rollback, RolledBack, Exit, stores, logs,
     AddProduct, AddOrder, UpsertInventory, StoreOnHand

LEMMA WorkingStep ==
    ASSUME IInv, EachSkuOnce, Stored, NEW r \in Requests, frames[r] # <<>>, Stack(r), Phase(r),
           Working(r), Top(r).pc = "addOrder" => r \notin DOMAIN repo.orders, Step(r)
    PROVE  Working(r)'
<1>1. Top(r).pc \notin Undoing
  BY NeverUndone
<1>2. FramesOK
  BY DEF IInv
<1>3. CASE DiscardPending(r) \/ ClearSnapshot(r) \/ SetCommitted(r) \/ Notify(r) \/ EndDispatch(r)
  <2>1. ~At(r, "forgetRestored") /\ ~At(r, "dispatchNow")
    BY <1>1 DEF At, Undoing, Phase
  <2>2. CASE DiscardPending(r)
    BY <1>2, <2>2, GotoTop DEF DiscardPending, GoesOn, Working, AfterSink
  <2>3. CASE ClearSnapshot(r)
    <3>1. At(r, "forget") /\ (Advance(r) \/ Goto(r, "setCommitted"))
      BY <2>1, <2>3 DEF ClearSnapshot
    <3>2. Top(r)'.pc \in {"forget", "setCommitted"}
      BY <1>2, <3>1, GotoTop, AdvanceTop DEF GoesOn, At
    <3> QED
      BY <3>2 DEF Working, AfterSink
  <2>4. CASE SetCommitted(r)
    BY <1>2, <2>4, GotoTop DEF SetCommitted, GoesOn, Working, AfterSink
  <2>5. CASE Notify(r) \/ EndDispatch(r)
    <3>1. Top(r).pc = "dispatch" /\ Top(r) \in Frame
      BY <2>1, <2>5, FrameLines DEF Notify, EndDispatch, Dispatching, At
    <3>2. Top(r)'.pc \in {"dispatch", "exit"}
      <4>1. CASE Notify(r)
        BY <1>2, <3>1, <4>1, BecomeShape DEF Notify, Frame
      <4>2. CASE EndDispatch(r)
        <5>1. Become(r, [Top(r) EXCEPT !.pc = "exit", !.batch = <<>>])
          BY <3>1, <4>2 DEF EndDispatch
        <5>2. Top(r)' = [Top(r) EXCEPT !.pc = "exit", !.batch = <<>>]
          BY <1>2, <5>1, BecomeShape
        <5> QED
          BY <3>1, <5>2 DEF Frame
      <4> QED
        BY <2>5, <4>1, <4>2
    <3> QED
      BY <3>2 DEF Working, AfterSink
  <2> QED
    BY <1>3, <2>2, <2>3, <2>4, <2>5
<1>4. CASE CallAllocate(r)
  <2>1. Top(r)' = NewFrame(HandlerCall(r))
    BY <1>4, CallTop
  <2>2. /\ NewFrame(HandlerCall(r)).pc = "getOrder" /\ NewFrame(HandlerCall(r)).index = 1
        /\ NewFrame(HandlerCall(r)).call = HandlerCall(r) /\ HandlerCall(r).op = "allocate"
    BY DEF NewFrame, FirstStep, HandlerCall
  <2> QED
    BY <2>1, <2>2
    DEF Working, Works, Allocating, Placing, Writing, Holding, Undoing, Written
<1>5. CASE SinkNow(r) \/ Rollback(r) \/ Restore(r) \/ RolledBack(r)
  BY <1>1, <1>5 DEF SinkNow, Rollback, Restore, RolledBack, At, Undoing, Phase
<1>6. CASE Exit(r)
  BY <1>6, WorkReturn DEF Exit
<1> QED
  BY <1>3, <1>4, <1>5, <1>6, WorkPlace, WorkRead, WorkEnter, WorkWrite, WorkTake, WorkCommit
  DEF Step

LEMMA WorkStep ==
    ASSUME IInv, OneAtATime, PhaseInv, AllRecorded, EachSkuOnce, WorkInv,
           NEW r \in Requests, Step(r)
    PROVE  WorkInv'
<1>1. /\ frames[r] # <<>> /\ Stack(r) /\ Phase(r) /\ Working(r) /\ Stored /\ UNCHANGED calls
      /\ \A q \in Requests \ {r} : frames'[q] = <<>>
      /\ FrameOK(Top(r)) /\ IsInventories(repo.inventories) /\ IsOrders(repo.orders)
      /\ DOMAIN repo = {"products", "orders", "inventories"}
  BY Alone, TopOK DEF PhaseInv, WorkInv, IInv, TypeOK
<1>2. AddOrder(r) => r \notin DOMAIN repo.orders
  BY <1>1, PlacedSteps DEF AllRecorded, Recorded
<1>3. Top(r).pc = "addOrder" => r \notin DOMAIN repo.orders
  BY <1>1, <1>2, StepLogs
<1>4. Working(r)'
  BY <1>1, <1>3, WorkingStep
<1>5. \A q \in Requests \ {r} : Working(q)'
  BY <1>1 DEF Working
<1>6. Stored'
  <2>1. CASE AddOrder(r)
    <3>1. /\ Top(r).pc = "addOrder" /\ Top(r).call.op = "place" /\ ~Nested(r)
          /\ repo'.orders = Put(repo.orders, r, Top(r).lines)
      BY <1>1, <2>1 DEF AddOrder, At, FrameOK, Fits, Stack, HandlerCall
    <3>2. Top(r).lines = calls[r].items /\ calls[r].op = "place" /\ calls[r] # None
      BY <1>1, <3>1 DEF Working, Works, Placing, AfterSink, Stack, Own
    <3> QED
      BY <1>1, <3>1, <3>2 DEF Stored, Put
  <2>2. CASE repo'.orders = repo.orders
    BY <1>1, <2>2 DEF Stored
  <2> QED
    BY <1>1, <2>1, <2>2, StepLogs
<1>7. Shelved'
  <2>1. \A l : ObjectsOf(l)' = ObjectsOf(l)
    BY <1>1 DEF ObjectsOf
  <2>2. CASE UpsertInventory(r)
    <3> DEFINE l == Top(r).call.location
               object == IF Top(r).call.op = "stock" THEN r ELSE Top(r).inventory
    <3>1. Top(r).pc = "upsert" /\ repo'.inventories = Put(repo.inventories, l, object)
          /\ Top(r).call.op \in {"stock", "allocate"}
      BY <1>1, <2>2 DEF UpsertInventory, At, FrameOK, Fits
    <3>2. CASE Top(r).call.op = "stock"
      <4>1. calls[r] = Top(r).call /\ calls[r] # None
        BY <1>1, <3>2 DEF Stack, Own, HandlerCall
      <4>2. r \in ObjectsOf(l)
        BY <3>2, <4>1 DEF ObjectsOf, Objects
      <4> QED
        BY <2>1, <3>1, <3>2, <4>2 DEF WorkInv, Shelved, Put
    <3>3. CASE Top(r).call.op = "allocate"
      <4>1. l \in DOMAIN repo.inventories /\ Top(r).inventory = repo.inventories[l]
        BY <1>1, <3>1, <3>3 DEF Working, Works, Allocating, AfterSink
      <4> QED
        BY <2>1, <3>1, <3>3, <4>1 DEF WorkInv, Shelved, Put
    <3> QED
      BY <3>1, <3>2, <3>3
  <2>3. CASE repo'.inventories = repo.inventories
    BY <2>1, <2>3 DEF WorkInv, Shelved
  <2>4. AddProduct(r) \/ AddOrder(r) => repo'.inventories = repo.inventories
    BY <1>1 DEF AddProduct, AddOrder
  <2> QED
    BY <1>1, <2>2, <2>3, <2>4, StepWrites
<1> QED
  BY <1>4, <1>5, <1>6, <1>7 DEF WorkInv

LEMMA WorkReceive ==
    ASSUME PoolSize = 1, IInv, WorkInv, NEW r \in Requests, NEW c \in Calls, Receive(r, c)
    PROVE  WorkInv'
<1>1. /\ frames'[r] = <<NewFrame(c)>> /\ UNCHANGED repo /\ calls[r] = None
      /\ calls' = [calls EXCEPT ![r] = c] /\ c \in AllCalls
      /\ stock' = IF c.op = "stock" THEN [stock EXCEPT ![r] = c.levels] ELSE stock
      /\ \A q \in Requests \ {r} : frames'[q] = frames[q] /\ frames[q] = <<>>
  BY NobodyBusy, CallsAssumption DEF Receive, IInv, TypeOK, Busy
<1>2. /\ calls \in [Requests -> Calls \cup {None}] /\ c # None /\ IsOrders(repo.orders)
      /\ stock \in [Objects -> Levels]
  BY CallsAssumption DEF IInv, TypeOK
<1>3. Stored'
  BY <1>1, <1>2 DEF WorkInv, Stored, IsOrders, IsDict
<1>4. Shelved'
  <2>1. \A l : ObjectsOf(l) \subseteq ObjectsOf(l)'
    BY <1>1, <1>2 DEF ObjectsOf
  <2> QED
    BY <1>1, <2>1 DEF WorkInv, Shelved
<1>5. \A q \in Requests \ {r} : Working(q)'
  BY <1>1 DEF Working
<1>6. Working(r)'
  <2> DEFINE g == NewFrame(c)
  <2>1. Top(r)' = g
    BY <1>1 DEF Top
  <2>2. /\ g.call = c /\ g.pc = FirstStep(c.op) /\ g.index = 1 /\ g.inventory = None
        /\ c.op = "place" => g.lines = c.items /\ g.pc = "readProduct"
        /\ c.op = "allocate" => g.pc = "getOrder"
        /\ c.op \notin {"place", "allocate"} => g.pc = "enter"
    BY DEF NewFrame, FirstStep
  <2>3. c.op = "stock" => stock'[r] = c.levels
    BY <1>1, <1>2 DEF Objects
  <2>4. c.op = "place" => DOMAIN g.lines = 1..Len(g.lines) /\ Len(g.lines) \in Nat
    BY <1>1, <2>2, CallArguments
  <2> HIDE DEF g
  <2>5. Works(g, r, repo', snap', stock')
    BY <1>1, <2>2, <2>3, <2>4
    DEF Works, Allocating, Placing, Writing, Holding, Undoing, Written, ToTheSink
  <2> QED
    BY <2>1, <2>5 DEF Working
<1> QED
  BY <1>3, <1>4, <1>5, <1>6 DEF WorkInv

LEMMA InWork ==
    ASSUME PoolSize = 1, EachSkuOnce
    PROVE  Spec => []WorkInv
<1>1. Init => WorkInv
  <2> SUFFICES ASSUME Init PROVE WorkInv
    OBVIOUS
  <2>1. Stored /\ \A r \in Requests : Working(r)
    BY DEF Init, Stored, Working
  <2>2. Shelved
    BY SeedAssumption DEF Init, Shelved, ObjectsOf, IsDict, Objects
  <2> QED
    BY <2>1, <2>2 DEF WorkInv
<1>2. IInv /\ (OneAtATime /\ PhaseInv) /\ AllRecorded /\ WorkInv /\ [Next]_vars => WorkInv'
  <2> SUFFICES ASSUME IInv, OneAtATime, PhaseInv, AllRecorded, WorkInv, [Next]_vars
               PROVE  WorkInv'
    OBVIOUS
  <2>1. CASE UNCHANGED vars
    BY <2>1 DEF vars, WorkInv, Stored, Shelved, ObjectsOf, Working, Top
  <2> QED
    BY <2>1, WorkStep, WorkReceive DEF Next, AllServed
<1> QED
  BY <1>1, <1>2, InPhase, InRecord, Inductive, PTL DEF Spec

-----------------------------------------------------------------------------
(* Units *)

\* Units of s on the lines of c, as the Shop and the running frame count them.
OnLines(lines, s, c) ==
    SumFunction([i \in {i \in c : lines[i].sku = s} |-> lines[i].quantity])

LEMMA ShopUnits ==
    ASSUME NEW lines, NEW s
    PROVE  S!Needed(lines, s) = OnLines(lines, s, DOMAIN lines)
BY DEF S!Needed, S!Units, S!SumFunction, S!SumFunctionOnSet, S!FoldFunctionOnSet,
   S!MapThenFoldSet, OnLines, SumFunction, SumFunctionOnSet, FoldFunctionOnSet, MapThenFoldSet

LEMMA OnNoLine ==
    ASSUME NEW lines, NEW s
    PROVE  OnLines(lines, s, {}) = 0
BY SumNone DEF OnLines

LEMMA OnMoreLines ==
    ASSUME NEW lines \in Seq(Lines), NEW s, NEW c \in SUBSET (1..Len(lines))
    PROVE  /\ OnLines(lines, s, c) \in Int
           /\ \A i \in 1..Len(lines) : i \notin c =>
                OnLines(lines, s, c \cup {i}) =
                  OnLines(lines, s, c) + IF lines[i].sku = s THEN lines[i].quantity ELSE 0
<1> DEFINE T == {i \in c : lines[i].sku = s}
           f == [i \in T |-> lines[i].quantity]
<1>1. Len(lines) \in Nat /\ \A i \in 1..Len(lines) : lines[i].quantity \in Int
  <2>1. \A i \in 1..Len(lines) : lines[i] \in Lines
    OBVIOUS
  <2> QED
    BY <2>1 DEF Lines
<1>2. IsFiniteSet(T)
  <2>1. IsFiniteSet(1..Len(lines))
    BY <1>1, FS_Interval
  <2>2. T \subseteq 1..Len(lines)
    OBVIOUS
  <2> QED
    BY <2>1, <2>2, FS_Subset
<1>3. IntsOn(f, T)
  BY <1>1 DEF IntsOn
<1>4. OnLines(lines, s, c) = SumFunction(f) /\ SumFunction(f) \in Int
  <2>1. SumFunction(f) \in Int
    <3> HIDE DEF T, f
    <3> QED
      BY <1>2, <1>3, SumInt
  <2> QED
    BY <2>1 DEF OnLines
<1>5. ASSUME NEW i \in 1..Len(lines), i \notin c
      PROVE  OnLines(lines, s, c \cup {i}) =
               OnLines(lines, s, c) + IF lines[i].sku = s THEN lines[i].quantity ELSE 0
  <2> DEFINE U == {j \in c \cup {i} : lines[j].sku = s}
             h == [j \in U |-> lines[j].quantity]
  <2>1. OnLines(lines, s, c \cup {i}) = SumFunction(h)
    BY DEF OnLines
  <2>2. CASE lines[i].sku = s
    <3>1. OneMore(T, i, U) /\ IntsOn(h, U) /\ Agree(f, h, T) /\ h[i] = lines[i].quantity
      BY <1>1, <1>5, <2>2 DEF IntsOn, Agree, OneMore
    <3> HIDE DEF T, f, U, h
    <3>2. SumFunction(h) = SumFunction(f) + h[i]
      BY <1>2, <1>3, <3>1, SumMore
    <3> QED
      BY <1>4, <2>1, <2>2, <3>1, <3>2
  <2>3. CASE lines[i].sku # s
    <3>1. U = T
      BY <2>3
    <3>2. h = f
      BY <3>1
    <3> HIDE DEF T, f, U, h
    <3> QED
      BY <1>4, <2>1, <2>3, <3>2
  <2> QED
    BY <2>2, <2>3
<1> QED
  BY <1>4, <1>5

-----------------------------------------------------------------------------
(* What the Shop sees *)

\* What the running frame has taken from object x and not yet committed.
Held(r, x, s) == IF Top(r).inventory = x THEN TakenOf(r, s) ELSE 0

Opened(r) == frames[r] # <<>> /\ Top(r).pc \in OpenSteps

Sold(r, s) ==
    Opened(r) => /\ Top(r).lines \in Seq(Lines) /\ Taken(r) \in SUBSET (1..Len(Top(r).lines))
                 /\ TakenOf(r, s) = OnLines(Top(r).lines, s, Taken(r))
                 /\ TakenOf(r, s) \in Int

AllSold == IInv /\ WorkInv => \A r \in Requests, s \in Skus : Sold(r, s)

LEMMA SoldOK == AllSold
<1> SUFFICES ASSUME IInv, WorkInv, NEW r \in Requests, NEW s \in Skus, Opened(r)
             PROVE  /\ Top(r).lines \in Seq(Lines) /\ Taken(r) \in SUBSET (1..Len(Top(r).lines))
                    /\ TakenOf(r, s) = OnLines(Top(r).lines, s, Taken(r))
                    /\ TakenOf(r, s) \in Int
  BY DEF AllSold, Sold
<1>1. /\ Top(r).index \in Nat \ {0} /\ Top(r).lines \in Seq(Lines)
      /\ DOMAIN Top(r).lines = 1..Len(Top(r).lines) /\ Len(Top(r).lines) \in Nat
      /\ FrameOK(Top(r))
  BY FrameLines DEF Opened
<1>2. Taken(r) \subseteq 1..Len(Top(r).lines)
  <2>1. CASE Top(r).pc \in {"canFulfill", "load", "store"}
    <3>1. Top(r).index <= Len(Top(r).lines) + 1
      BY <1>1, <2>1
      DEF WorkInv, Working, Works, Allocating, AfterSink, FrameOK, Fits, Opened
    <3> QED
      BY <1>1, <2>1, <3>1 DEF Taken
  <2>2. CASE Top(r).pc \notin {"canFulfill", "load", "store"}
    BY <1>1, <2>2 DEF Taken
  <2> QED
    BY <2>1, <2>2
<1>3. TakenOf(r, s) = OnLines(Top(r).lines, s, Taken(r))
  BY DEF TakenOf, OnLines
<1> QED
  BY <1>1, <1>2, <1>3, OnMoreLines

\* The snapshots are dictionaries while a unit of work is open.
LEMMA Snapped ==
    IInv /\ PhaseInv /\ WorkInv => \A r \in Requests : Opened(r) =>
        /\ IsProducts(snap.products) /\ IsOrders(snap.orders) /\ IsInventories(snap.inventories)
        /\ Top(r).pc \notin Written => TakenTo(4)
<1> SUFFICES ASSUME IInv, PhaseInv, WorkInv, NEW r \in Requests, Opened(r)
             PROVE  /\ IsProducts(snap.products) /\ IsOrders(snap.orders)
                    /\ IsInventories(snap.inventories)
                    /\ Top(r).pc \notin Written => TakenTo(4)
  OBVIOUS
<1>1. CASE Top(r).pc \in Written
  <2>1. Writing(Top(r), r, repo, snap)
    BY <1>1 DEF WorkInv, Working, Works, Opened, Written, AfterSink
  <2> QED
    BY <1>1, <2>1 DEF Writing, IInv, TypeOK
<1>2. CASE Top(r).pc \notin Written
  <2>1. TakenTo(4)
    BY <1>2 DEF PhaseInv, Phase, Opened, OpenSteps, Written, Unchanged
  <2> QED
    BY <2>1 DEF TakenTo, IInv, TypeOK
<1> QED
  BY <1>1, <1>2

SeesIdle ==
    IInv /\ (\A r \in Requests : ~Opened(r)) =>
        /\ \A n \in {"products", "orders", "inventories"} : ViewOf(n) = repo[n]
        /\ Shelf = [l \in DOMAIN repo.inventories |->
                      [s \in Skus |-> stock[repo.inventories[l]][s]]]

LEMMA SeesIdleOK == SeesIdle
<1> SUFFICES ASSUME IInv, \A r \in Requests : ~Opened(r)
             PROVE  /\ \A n \in {"products", "orders", "inventories"} : ViewOf(n) = repo[n]
                    /\ Shelf = [l \in DOMAIN repo.inventories |->
                                  [s \in Skus |-> stock[repo.inventories[l]][s]]]
  BY DEF SeesIdle
<1>1. Uncommitted = {}
  BY DEF Uncommitted, Busy, Opened
<1>2. \A n : ViewOf(n) = repo[n]
  BY <1>1 DEF ViewOf
<1>3. ASSUME NEW l \in DOMAIN repo.inventories, NEW s \in Skus
      PROVE  OnShelf(repo.inventories[l], s) = stock[repo.inventories[l]][s]
  <2> DEFINE x == repo.inventories[l]
             taking == {r \in Uncommitted : Top(r).inventory = x}
             f == [r \in taking |-> TakenOf(r, s)]
  <2>1. x \in Objects /\ stock[x][s] \in Int
    BY DEF IInv, TypeOK, IsInventories, IsDict, Levels
  <2>2. DOMAIN f = {}
    BY <1>1
  <2>3. OnShelf(x, s) = stock[x][s] + SumFunction(f)
    BY DEF OnShelf
  <2> HIDE DEF x, f
  <2>4. SumFunction(f) = 0
    BY <2>2, SumNone
  <2>5. OnShelf(x, s) = stock[x][s]
    BY <2>1, <2>3, <2>4
  <2> QED
    BY <2>5 DEF x
<1>4. Shelf = [l \in DOMAIN repo.inventories |-> [s \in Skus |-> OnShelf(repo.inventories[l], s)]]
  BY <1>2 DEF Shelf
<1> QED
  BY <1>2, <1>3, <1>4

SeesOpen ==
    \A r \in Requests : IInv /\ OneAtATime /\ PhaseInv /\ WorkInv /\ Opened(r) =>
        /\ \A n \in {"products", "orders", "inventories"} : ViewOf(n) = snap[n]
        /\ Shelf = [l \in DOMAIN snap.inventories |->
                      [s \in Skus |-> stock[snap.inventories[l]][s] + Held(r, snap.inventories[l], s)]]

LEMMA SeesOpenOK == SeesOpen
<1> SUFFICES ASSUME NEW r \in Requests, IInv, OneAtATime, PhaseInv, WorkInv, Opened(r)
             PROVE  /\ \A n \in {"products", "orders", "inventories"} : ViewOf(n) = snap[n]
                    /\ Shelf = [l \in DOMAIN snap.inventories |-> [s \in Skus |->
                         stock[snap.inventories[l]][s] + Held(r, snap.inventories[l], s)]]
  BY DEF SeesOpen
<1>1. Uncommitted = {r}
  BY DEF Uncommitted, Busy, Opened, OneAtATime
<1>2. \A n : ViewOf(n) = snap[n]
  BY <1>1 DEF ViewOf
<1>3. ASSUME NEW l \in DOMAIN snap.inventories, NEW s \in Skus
      PROVE  OnShelf(snap.inventories[l], s)
               = stock[snap.inventories[l]][s] + Held(r, snap.inventories[l], s)
  <2> DEFINE x == snap.inventories[l]
             taking == {q \in Uncommitted : Top(q).inventory = x}
             f == [q \in taking |-> TakenOf(q, s)]
  <2>1. OnShelf(x, s) = stock[x][s] + SumFunction(f)
    BY DEF OnShelf
  <2>2. SumFunction(f) = Held(r, x, s)
    <3>1. CASE Top(r).inventory = x
      <4>1. taking = {r}
        BY <1>1, <3>1
      <4>2. TakenOf(r, s) \in Int
        BY SoldOK DEF AllSold, Sold
      <4>3. IntsOn(f, {r}) /\ f[r] = TakenOf(r, s)
        BY <4>1, <4>2 DEF IntsOn
      <4> HIDE DEF f
      <4>4. SumFunction(f) = f[r]
        BY <4>3, SumOne
      <4> QED
        BY <3>1, <4>3, <4>4 DEF Held
    <3>2. CASE Top(r).inventory # x
      <4>1. DOMAIN f = {}
        BY <1>1, <3>2
      <4> HIDE DEF f
      <4>2. SumFunction(f) = 0
        BY <4>1, SumNone
      <4> QED
        BY <3>2, <4>2 DEF Held
    <3> QED
      BY <3>1, <3>2
  <2> HIDE DEF x, f
  <2>3. OnShelf(x, s) = stock[x][s] + Held(r, x, s)
    BY <2>1, <2>2
  <2> QED
    BY <2>3 DEF x
<1>4. Shelf = [l \in DOMAIN snap.inventories |-> [s \in Skus |-> OnShelf(snap.inventories[l], s)]]
  BY <1>2 DEF Shelf
<1> QED
  BY <1>2, <1>3, <1>4

\* Outside a unit of work, after its commit included, nothing changes for the Shop.
LEMMA OutsideMoves ==
    ASSUME IInv, NEW r \in Requests, frames[r] # <<>>, Stack(r), Phase(r), Working(r), Step(r),
           Top(r).pc \notin OpenSteps \cup {"clearPending"}
    PROVE  UNCHANGED <<repo, stock, sink>> /\ ~Opened(r)'
<1>1. UNCHANGED <<repo, stock>>
  <2>1. ~AddProduct(r) /\ ~AddOrder(r) /\ ~UpsertInventory(r) /\ ~StoreOnHand(r)
    BY DEF AddProduct, AddOrder, UpsertInventory, StoreOnHand, At, OpenSteps
  <2> QED
    BY <2>1, StepWrites
<1>2. UNCHANGED sink
  BY StepLogs DEF ExtendSink, At, OpenSteps
<1>3. CASE OwnStep(r)
  <2>1. <<Top(r).pc, Top(r)'.pc>> \in Flow /\ Top(r).pc \notin {"sinkNow", "dispatchNow"}
        /\ Top(r).pc \notin Undoing
    BY <1>3, NeverUndone DEF OwnStep, Phase
  <2>2. Top(r)'.pc \notin OpenSteps
    BY <2>1 DEF Flow, OpenSteps, Undoing
  <2> QED
    BY <1>1, <1>2, <2>2 DEF Opened
<1>4. CASE Ends(r)
  BY <1>1, <1>2, <1>4, ReturnTop DEF Ends, Opened, OpenSteps
<1>5. CASE CallAllocate(r)
  <2>1. Top(r)'.pc = "getOrder"
    BY <1>5, CallMoves
  <2> QED
    BY <1>1, <1>2, <2>1 DEF Opened, OpenSteps
<1> QED
  BY <1>3, <1>4, <1>5, Movement

\* Line n of the running frame is taken from its inventory.
Takes(r, n) ==
    /\ n \in 1..Len(Top(r).lines) /\ n \notin Taken(r) /\ Taken(r)' = Taken(r) \cup {n}
    /\ stock' = [stock EXCEPT ![Top(r).inventory] =
                   [@ EXCEPT ![Top(r).lines[n].sku] =
                      stock[Top(r).inventory][Top(r).lines[n].sku] - Top(r).lines[n].quantity]]

\* Inside, before the commit, a step either takes a line or leaves the stock alone.
LEMMA OpenMoves ==
    ASSUME IInv, SerialInv, WorkInv, NEW r \in Requests, Stack(r), Phase(r), Working(r),
           Opened(r), Step(r), ~ExtendSink(r)
    PROVE  /\ UNCHANGED <<snap, sink>> /\ Same(Top(r), Top(r)') /\ Opened(r)'
           /\ \/ UNCHANGED stock /\ (Taken(r)' = Taken(r) \/ Top(r).inventory = None)
              \/ \E n \in 1..Len(Top(r).lines) : Takes(r, n) /\ Top(r).call.op = "allocate"
<1> DEFINE f == Top(r)
           g == Top(r)'
<1>1. /\ frames[r] # <<>> /\ f \in Frame /\ FrameOK(f) /\ FramesOK /\ f.index \in Nat \ {0}
      /\ DOMAIN f.lines = 1..Len(f.lines) /\ Len(f.lines) \in Nat
      /\ LinesLeft(r) <=> f.index \in DOMAIN f.lines
      /\ f.pc \notin Undoing
      /\ f.call.op \in {"place", "allocate", "product", "stock"}
  BY FrameLines, NeverUndone DEF Opened
<1>2. Works(f, r, repo, snap, stock) /\ f.pc \in OpenSteps
  BY DEF WorkInv, Working, Opened, OpenSteps, AfterSink
<1>3. \/ AddProduct(r) \/ AddOrder(r) \/ UpsertInventory(r) \/ CanFulfill(r) \/ LoadOnHand(r)
      \/ StoreOnHand(r) \/ Publish(r) \/ Buffer(r) \/ CopyPending(r)
  <2>1. At(r, f.pc)
    BY <1>1 DEF At
  <2> QED
    BY <1>1, <1>2, <2>1 DEF Step, Undoing, OpenSteps, At, ReadProduct, CreateOrder, RefuseOrder,
       GetOrder, GetInventory, Precheck, Enter, TakeSnapshot, ClearPending, SinkNow,
       DiscardPending, ClearSnapshot, SetCommitted, Notify, CallAllocate, EndDispatch, Dispatching,
       Rollback, Restore, RolledBack, Exit
<1>4. UNCHANGED <<snap, sink>>
  BY <1>3 DEF AddProduct, AddOrder, UpsertInventory, CanFulfill, LoadOnHand, StoreOnHand, Publish,
     Buffer, CopyPending, uow, logs
<1>5. frames'[r] # <<>>
  BY <1>3, InsideMoves, AllocationMoves DEF Moved
<1>6. CASE AddProduct(r) \/ AddOrder(r) \/ UpsertInventory(r) \/ Publish(r) \/ Buffer(r)
           \/ CopyPending(r)
  <2> DEFINE steps == {"publish", "buffer", "copyPending", "extendSink"}
  <2>1. Same(f, g) /\ g.pc \in steps
    <3> USE DEF PCs
    <3>1. CASE AddProduct(r) \/ AddOrder(r) \/ Buffer(r)
      BY <1>1, <3>1, GotoSame DEF AddProduct, AddOrder, Buffer
    <3>2. CASE UpsertInventory(r)
      <4>1. CASE f.call.op = "stock"
        BY <1>1, <3>2, <4>1, GotoSame DEF UpsertInventory
      <4>2. CASE f.call.op # "stock"
        BY <1>1, <3>2, <4>2, GotoSame DEF UpsertInventory
      <4> QED
        BY <4>1, <4>2
    <3>3. CASE Publish(r)
      <4>1. Goto(r, "buffer")
        BY <3>3 DEF Publish, Phase, At
      <4> QED
        BY <1>1, <4>1, GotoSame
    <3>4. CASE CopyPending(r)
      <4>1. g = [f EXCEPT !.pc = "extendSink", !.batch = pending]
        BY <1>1, <3>4, BecomeShape DEF CopyPending
      <4> QED
        BY <1>1, <4>1 DEF Frame, Same
    <3> QED
      BY <1>6, <3>1, <3>2, <3>3, <3>4
  <2>2. UNCHANGED stock /\ f.pc \notin {"canFulfill", "load", "store"}
    BY <1>6 DEF AddProduct, AddOrder, UpsertInventory, Publish, Buffer, CopyPending, At, stores
  <2>3. Taken(r)' = Taken(r)
    BY <2>1, <2>2 DEF Taken, Same
  <2> QED
    BY <1>4, <1>5, <2>1, <2>2, <2>3 DEF Opened, OpenSteps
<1>7. CASE CanFulfill(r)
  <2>0. f.pc = "canFulfill" /\ UNCHANGED stock /\ f.call.op = "allocate"
    BY <1>1, <1>7 DEF CanFulfill, At, stores, FrameOK, Fits
  <2>1. f.index <= Len(f.lines) + 1 /\ \A n \in DOMAIN f.lines : n >= f.index => Enough(f, n, stock)
    BY <1>2, <2>0 DEF Works, Allocating
  <2> DEFINE pc == IF ~LinesLeft(r) THEN "upsert"
                   ELSE IF Available(r) >= Line(r).quantity THEN "load" ELSE "rollback"
  <2>2. g = [f EXCEPT !.pc = pc]
    BY <1>1, <1>7, BecomeShape DEF CanFulfill
  <2>3. LinesLeft(r) => Available(r) >= Line(r).quantity
    BY <1>1, <2>1 DEF Enough, Available, Line
  <2>4. pc = IF LinesLeft(r) THEN "load" ELSE "upsert"
    BY <2>3
  <2> HIDE DEF pc
  <2>5. Same(f, g) /\ g.pc = pc /\ g.index = f.index
    BY <1>1, <2>2 DEF Frame, Same
  <2>6. Taken(r)' = Taken(r)
    <3>1. CASE LinesLeft(r)
      BY <2>0, <2>4, <2>5, <3>1 DEF Taken, Same
    <3>2. CASE ~LinesLeft(r)
      <4>1. 1..(f.index - 1) = DOMAIN f.lines
        BY <1>1, <2>1, <3>2
      <4>2. Taken(r) = 1..(f.index - 1) /\ Taken(r)' = DOMAIN g.lines
        BY <2>0, <2>4, <2>5, <3>2 DEF Taken
      <4> QED
        BY <2>5, <4>1, <4>2 DEF Same
    <3> QED
      BY <3>1, <3>2
  <2> QED
    BY <1>4, <1>5, <2>0, <2>4, <2>5, <2>6 DEF Opened, OpenSteps
<1>8. CASE LoadOnHand(r)
  <2>1. f.pc = "load" /\ UNCHANGED stock
    BY <1>8 DEF LoadOnHand, At, stores
  <2>2. g = [f EXCEPT !.pc = "store", !.onHand = Available(r)]
    BY <1>1, <1>8, BecomeShape DEF LoadOnHand
  <2>3. Same(f, g) /\ g.pc = "store" /\ g.index = f.index
    BY <1>1, <2>2 DEF Frame, Same
  <2>4. Taken(r)' = Taken(r)
    BY <2>1, <2>3 DEF Taken
  <2> QED
    BY <1>4, <1>5, <2>1, <2>3, <2>4 DEF Opened, OpenSteps
<1>9. CASE StoreOnHand(r)
  <2>1. f.pc = "store" /\ f.call.op = "allocate" /\ f.index \in 1..Len(f.lines)
    BY <1>1, <1>9 DEF StoreOnHand, At, FrameOK, Fits
  <2>2. g = [f EXCEPT !.pc = "canFulfill", !.index = @ + 1, !.onHand = 0]
    BY <1>1, <1>9, BecomeShape DEF StoreOnHand
  <2>3. Same(f, g) /\ g.pc = "canFulfill" /\ g.index = f.index + 1
    BY <1>1, <2>2 DEF Frame, Same
  <2>4. f.onHand = stock[f.inventory][f.lines[f.index].sku]
    BY <1>1, <2>1 DEF SerialInv, CheckHolds, Available, Line
  <2>5. stock' = [stock EXCEPT ![f.inventory] = [@ EXCEPT ![f.lines[f.index].sku] =
                    f.onHand - f.lines[f.index].quantity]]
    BY <1>9 DEF StoreOnHand, Line
  <2>6. Taken(r) = 1..(f.index - 1) /\ Taken(r)' = 1..f.index
    <3>1. (f.index + 1) - 1 = f.index
      BY <1>1
    <3> QED
      BY <2>1, <2>3, <3>1 DEF Taken
  <2>7. Takes(r, f.index)
    <3>0. f.index \in Nat \ {0}
      BY <1>1
    <3>1. f.index \notin 1..(f.index - 1) /\ 1..f.index = (1..(f.index - 1)) \cup {f.index}
      <4> HIDE DEF f
      <4> QED
        BY <3>0
    <3> QED
      BY <2>1, <2>4, <2>5, <2>6, <3>1 DEF Takes
  <2> QED
    BY <1>4, <1>5, <2>1, <2>3, <2>7 DEF Opened, OpenSteps
<1> QED
  BY <1>3, <1>6, <1>7, <1>8, <1>9

\* Until the commit, what leaves the stock of the open unit of work is in its hands.
LEMMA HeldStep ==
    ASSUME IInv, IInv', SerialInv, WorkInv, WorkInv', NEW r \in Requests, Stack(r), Phase(r),
           Opened(r), Step(r), ~ExtendSink(r), NEW x \in Objects, NEW s \in Skus
    PROVE  stock'[x][s] + Held(r, x, s)' = stock[x][s] + Held(r, x, s)
<1> DEFINE f == Top(r)
           g == Top(r)'
<1>1. Working(r)
  BY DEF WorkInv
<1>2. /\ Same(f, g) /\ Opened(r)'
      /\ \/ UNCHANGED stock /\ (Taken(r)' = Taken(r) \/ f.inventory = None)
         \/ \E n \in 1..Len(f.lines) : Takes(r, n) /\ f.call.op = "allocate"
  BY <1>1, OpenMoves
<1>3. /\ f.lines \in Seq(Lines) /\ Taken(r) \in SUBSET (1..Len(f.lines))
      /\ TakenOf(r, s) = OnLines(f.lines, s, Taken(r)) /\ TakenOf(r, s) \in Int
  BY SoldOK DEF AllSold, Sold
<1>4. TakenOf(r, s)' = OnLines(g.lines, s, Taken(r)')
  <2>1. AllSold'
    BY SoldOK, PTL
  <2> QED
    BY <1>2, <2>1 DEF AllSold, Sold
<1>5. /\ Held(r, x, s) = IF f.inventory = x THEN TakenOf(r, s) ELSE 0
      /\ Held(r, x, s)' = IF f.inventory = x THEN TakenOf(r, s)' ELSE 0
  BY <1>2 DEF Held, Same
<1>6. TakenOf(r, s)' = OnLines(f.lines, s, Taken(r)')
  BY <1>2, <1>4 DEF Same
<1>7. CASE UNCHANGED stock /\ (Taken(r)' = Taken(r) \/ f.inventory = None)
  <2>1. None # x
    BY NoneAssumption DEF Objects
  <2> HIDE DEF f, g
  <2> QED
    BY <1>3, <1>5, <1>6, <1>7, <2>1
<1>8. ASSUME NEW n \in 1..Len(f.lines), Takes(r, n), f.call.op = "allocate"
      PROVE  stock'[x][s] + Held(r, x, s)' = stock[x][s] + Held(r, x, s)
  <2> DEFINE q == IF f.lines[n].sku = s THEN f.lines[n].quantity ELSE 0
  <2>1. TakenOf(r, s)' = TakenOf(r, s) + q
    <3>1. Taken(r)' = Taken(r) \cup {n} /\ n \notin Taken(r)
      BY <1>8 DEF Takes
    <3> HIDE DEF f
    <3> QED
      BY <1>3, <1>6, <1>8, <3>1, OnMoreLines
  <2>2. f.lines[n].sku \in Skus /\ f.lines[n].quantity \in Int
    <3>1. f.lines[n] \in Lines
      BY <1>3
    <3> QED
      BY <3>1 DEF Lines
  <2>3. stock \in [Objects -> Levels] /\ stock[x][s] \in Int
    BY DEF IInv, TypeOK, Levels
  <2>4. stock'[x][s] = IF f.inventory = x THEN stock[x][s] - q ELSE stock[x][s]
    <3>1. stock' = [stock EXCEPT ![f.inventory] = [stock[f.inventory] EXCEPT
                      ![f.lines[n].sku] = stock[f.inventory][f.lines[n].sku] - f.lines[n].quantity]]
      BY <1>8 DEF Takes
    <3>2. DOMAIN stock = Objects /\ DOMAIN stock[x] = Skus
      BY <2>3 DEF Levels
    <3> HIDE DEF f
    <3> QED
      BY <2>2, <2>3, <3>1, <3>2
  <2>5. q \in Int
    BY <2>2
  <2> HIDE DEF q, f
  <2> QED
    BY <1>3, <1>5, <2>1, <2>3, <2>4, <2>5
<1> QED
  BY <1>2, <1>7, <1>8

-----------------------------------------------------------------------------
(* The unit of work implements the Shop *)

\* The thread that serves r is the only one, and it has no unit of work open.
LEMMA NoneOpen ==
    ASSUME OneAtATime, NEW r \in Requests, frames[r] # <<>>, Others(r)
    PROVE  /\ ~Opened(r) => \A q \in Requests : ~Opened(q)
           /\ ~Opened(r)' => \A q \in Requests : ~Opened(q)'
  BY DEF OneAtATime, Opened, Others

LEMMA ShopOutside ==
    ASSUME IInv, IInv', OneAtATime, NEW r \in Requests, frames[r] # <<>>, Stack(r), Phase(r),
           Working(r), Step(r), Top(r).pc \notin OpenSteps \cup {"clearPending"}
    PROVE  UNCHANGED S!vars
<1>1. UNCHANGED <<repo, stock, sink>> /\ ~Opened(r)' /\ ~Opened(r)
  BY OutsideMoves DEF Opened
<1>2. Others(r)
  BY Alone DEF Others
<1>3. SeesIdle /\ SeesIdle'
  BY SeesIdleOK, PTL
<1>4. (\A q \in Requests : ~Opened(q)) /\ (\A q \in Requests : ~Opened(q)')
  BY <1>1, <1>2, NoneOpen
<1>5. /\ UNCHANGED <<ViewOf("products"), ViewOf("orders")>>
      /\ Shelf = [l \in DOMAIN repo.inventories |-> [s \in Skus |-> stock[repo.inventories[l]][s]]]
      /\ Shelf' = [l \in DOMAIN repo.inventories |-> [s \in Skus |-> stock[repo.inventories[l]][s]]]
  BY <1>1, <1>3, <1>4 DEF SeesIdle
<1> QED
  BY <1>1, <1>5 DEF S!vars

LEMMA ShopOpens ==
    ASSUME IInv, IInv', OneAtATime, OneAtATime', PhaseInv, PhaseInv', WorkInv, WorkInv',
           NEW r \in Requests, frames[r] # <<>>, Step(r), ClearPending(r)
    PROVE  UNCHANGED S!vars
<1> DEFINE f == Top(r)
           g == Top(r)'
<1>1. /\ f.pc = "clearPending" /\ UNCHANGED <<repo, stock, snap, sink>>
      /\ Goto(r, BodyStep(f.call.op))
  BY DEF ClearPending, At, stores, logs
<1>2. snap.products = repo.products /\ snap.orders = repo.orders /\ snap.inventories = repo.inventories
  BY <1>1 DEF PhaseInv, Phase, Unchanged, TakenTo
<1>3. Same(f, g) /\ g.pc = BodyStep(f.call.op) /\ g.index = 1 /\ frames'[r] # <<>>
      /\ g.pc \in {"addOrder", "canFulfill", "addProduct", "upsert"}
      /\ (f.call.op # "allocate" => f.inventory = None)
      /\ (f.call.op = "allocate" => g.pc = "canFulfill")
  <2>1. f.call.op \in {"place", "allocate", "product", "stock"} /\ FramesOK /\ f \in Frame
    BY FrameLines
  <2>2. BodyStep(f.call.op) \in {"addOrder", "canFulfill", "addProduct", "upsert"}
        /\ (f.call.op = "allocate" => BodyStep(f.call.op) = "canFulfill")
    BY <2>1 DEF BodyStep
  <2>3. BodyStep(f.call.op) \in PCs
    BY <2>2 DEF PCs
  <2>4. frames'[r] # <<>>
    BY <1>1, <2>1, GotoTop DEF GoesOn
  <2>5. f.call.op # "allocate" => f.inventory = None
    BY <1>1 DEF WorkInv, Working, Works, Holding, AfterSink
  <2> QED
    BY <1>1, <2>1, <2>2, <2>3, <2>4, <2>5, GotoSame
<1>4. Others(r) /\ ~Opened(r) /\ Opened(r)'
  BY <1>1, <1>3, Alone DEF Opened, OpenSteps, Others
<1>5. SeesIdle /\ SeesOpen' /\ AllSold'
  BY SeesIdleOK, SeesOpenOK, SoldOK, PTL
<1>6. /\ ViewOf("products") = repo.products /\ ViewOf("orders") = repo.orders
      /\ Shelf = [l \in DOMAIN repo.inventories |-> [s \in Skus |-> stock[repo.inventories[l]][s]]]
  BY <1>4, <1>5, NoneOpen DEF SeesIdle
<1>7. /\ ViewOf("products")' = repo.products /\ ViewOf("orders")' = repo.orders
      /\ Shelf' = [l \in DOMAIN repo.inventories |-> [s \in Skus |->
                     stock[repo.inventories[l]][s] + Held(r, repo.inventories[l], s)']]
  BY <1>1, <1>2, <1>4, <1>5 DEF SeesOpen
<1>8. ASSUME NEW x \in Objects, NEW s \in Skus
      PROVE  Held(r, x, s)' = 0
  <2>1. CASE f.call.op = "allocate"
    <3>1. Taken(r)' = {}
      BY <1>3, <2>1 DEF Taken
    <3>2. TakenOf(r, s)' = OnLines(g.lines, s, Taken(r)')
      BY <1>4, <1>5 DEF AllSold, Sold
    <3>3. TakenOf(r, s)' = 0
      BY <3>1, <3>2, OnNoLine
    <3> QED
      BY <3>3 DEF Held
  <2>2. CASE f.call.op # "allocate"
    BY <1>3, <2>2, NoneAssumption DEF Held, Same, Objects
  <2> QED
    BY <2>1, <2>2
<1>9. ASSUME NEW l \in DOMAIN repo.inventories, NEW s \in Skus
      PROVE  stock[repo.inventories[l]][s] + Held(r, repo.inventories[l], s)'
               = stock[repo.inventories[l]][s]
  <2>1. repo.inventories[l] \in Objects /\ stock[repo.inventories[l]][s] \in Int
    BY DEF IInv, TypeOK, IsInventories, IsDict, Levels
  <2> QED
    BY <1>1, <1>8, <2>1 DEF Held
<1>10. Shelf' = Shelf
  BY <1>6, <1>7, <1>9
<1> QED
  BY <1>1, <1>6, <1>7, <1>10 DEF S!vars

LEMMA ShopInside ==
    ASSUME IInv, IInv', OneAtATime, OneAtATime', PhaseInv, PhaseInv', SerialInv, WorkInv, WorkInv',
           NEW r \in Requests, Opened(r), Step(r), ~ExtendSink(r)
    PROVE  UNCHANGED S!vars
<1>1. Stack(r) /\ Phase(r) /\ Working(r)
  BY DEF PhaseInv, WorkInv
<1>2. UNCHANGED <<snap, sink>> /\ Opened(r)'
  BY <1>1, OpenMoves
<1>3. SeesOpen /\ SeesOpen'
  BY SeesOpenOK, PTL
<1>4. /\ ViewOf("products") = snap.products /\ ViewOf("orders") = snap.orders
      /\ Shelf = [l \in DOMAIN snap.inventories |-> [s \in Skus |->
                    stock[snap.inventories[l]][s] + Held(r, snap.inventories[l], s)]]
  BY <1>3 DEF SeesOpen
<1>5. /\ ViewOf("products")' = snap.products /\ ViewOf("orders")' = snap.orders
      /\ Shelf' = [l \in DOMAIN snap.inventories |-> [s \in Skus |->
                     stock'[snap.inventories[l]][s] + Held(r, snap.inventories[l], s)']]
  BY <1>2, <1>3 DEF SeesOpen
<1>6. IsInventories(snap.inventories)
  BY Snapped
<1>7. ASSUME NEW l \in DOMAIN snap.inventories, NEW s \in Skus
      PROVE  stock'[snap.inventories[l]][s] + Held(r, snap.inventories[l], s)'
               = stock[snap.inventories[l]][s] + Held(r, snap.inventories[l], s)
  <2>1. snap.inventories[l] \in Objects
    BY <1>6 DEF IsInventories, IsDict
  <2> QED
    BY <1>1, <1>2, <2>1, HeldStep DEF Held
<1>8. Shelf' = Shelf
  BY <1>4, <1>5, <1>7
<1> QED
  BY <1>2, <1>4, <1>5, <1>8 DEF S!vars

\* What the Shop sees before and after the events of the unit of work reach the sink.
LEMMA ShopCommits ==
    ASSUME IInv, IInv', OneAtATime, OneAtATime', PhaseInv, PhaseInv', WorkInv, WorkInv',
           NEW r \in Requests, Opened(r), Step(r), ExtendSink(r)
    PROVE  /\ ViewOf("products") = snap.products /\ ViewOf("orders") = snap.orders
           /\ Shelf = [l \in DOMAIN snap.inventories |-> [s \in Skus |->
                         stock[snap.inventories[l]][s] + Held(r, snap.inventories[l], s)]]
           /\ ViewOf("products")' = repo.products /\ ViewOf("orders")' = repo.orders
           /\ Shelf' = [l \in DOMAIN repo.inventories |-> [s \in Skus |->
                          stock[repo.inventories[l]][s]]]
           /\ sink' = sink \o Announced(r)
           /\ Works(Top(r), r, repo, snap, stock) /\ Top(r).pc = "extendSink"
<1>1. /\ Top(r).pc = "extendSink" /\ UNCHANGED <<repo, stock>> /\ Goto(r, "discard")
      /\ sink' = sink \o Top(r).batch /\ frames[r] # <<>>
  BY DEF ExtendSink, At, stores
<1>2. Top(r).batch = Announced(r)
  BY <1>1 DEF PhaseInv, Phase
<1>3. Works(Top(r), r, repo, snap, stock)
  BY <1>1 DEF WorkInv, Working, AfterSink
<1>4. ~Opened(r)'
  <2>1. Top(r)'.pc = "discard"
    BY <1>1, FrameLines, GotoSame DEF PCs
  <2> QED
    BY <2>1 DEF Opened, OpenSteps
<1>5. Others(r)
  BY Alone DEF Others
<1>6. SeesOpen /\ SeesIdle'
  BY SeesOpenOK, SeesIdleOK, PTL
<1>7. /\ ViewOf("products") = snap.products /\ ViewOf("orders") = snap.orders
      /\ Shelf = [l \in DOMAIN snap.inventories |-> [s \in Skus |->
                    stock[snap.inventories[l]][s] + Held(r, snap.inventories[l], s)]]
  BY <1>6 DEF SeesOpen
<1>8. \A q \in Requests : ~Opened(q)'
  BY <1>1, <1>4, <1>5, NoneOpen
<1>9. /\ ViewOf("products")' = repo.products /\ ViewOf("orders")' = repo.orders
      /\ Shelf' = [l \in DOMAIN repo.inventories |-> [s \in Skus |->
                     stock[repo.inventories[l]][s]]]
  BY <1>1, <1>6, <1>8 DEF SeesIdle
<1> QED
  BY <1>1, <1>2, <1>3, <1>7, <1>9

LEMMA ShopChanges ==
    ASSUME IInv, IInv', OneAtATime, OneAtATime', PhaseInv, PhaseInv', WorkInv, WorkInv',
           NEW r \in Requests, Opened(r), Step(r), ExtendSink(r), Top(r).call.op # "allocate"
    PROVE  S!Next
<1> DEFINE f == Top(r)
           c == f.call
<1>1. /\ ViewOf("products") = snap.products /\ ViewOf("orders") = snap.orders
      /\ Shelf = [l \in DOMAIN snap.inventories |-> [s \in Skus |->
                    stock[snap.inventories[l]][s] + Held(r, snap.inventories[l], s)]]
      /\ ViewOf("products")' = repo.products /\ ViewOf("orders")' = repo.orders
      /\ Shelf' = [l \in DOMAIN repo.inventories |-> [s \in Skus |-> stock[repo.inventories[l]][s]]]
      /\ sink' = sink \o Announced(r)
      /\ Works(f, r, repo, snap, stock) /\ f.pc = "extendSink"
  BY ShopCommits
<1>2. c \in Calls
  <2>1. Stack(r) /\ frames[r] # <<>>
    BY DEF PhaseInv, Opened
  <2>2. c = calls[r] /\ calls[r] # None
    BY <2>1 DEF Stack, Own, HandlerCall
  <2> QED
    BY <2>2 DEF IInv, TypeOK
<1>3. /\ f.inventory = None /\ (c.op = "stock" => stock[r] = c.levels)
      /\ Placing(f, repo) /\ Writing(f, r, repo, snap)
  BY <1>1 DEF Works, Holding
<1>4. IsInventories(snap.inventories) /\ IsInventories(repo.inventories) /\ stock \in [Objects -> Levels]
      /\ IsOrders(snap.orders) /\ IsProducts(snap.products) /\ sink \in Seq(Events)
  BY Snapped DEF IInv, TypeOK
<1>5. ASSUME NEW l \in DOMAIN snap.inventories, NEW s \in Skus
      PROVE  stock[snap.inventories[l]][s] + Held(r, snap.inventories[l], s)
               = stock[snap.inventories[l]][s]
  <2>1. snap.inventories[l] \in Objects /\ snap.inventories[l] # None
    BY <1>4, NoneAssumption DEF IsInventories, IsDict, Objects
  <2>2. stock[snap.inventories[l]][s] \in Int
    BY <1>4, <2>1 DEF Levels
  <2> QED
    BY <1>3, <2>1, <2>2 DEF Held
<1>6. Shelf = [l \in DOMAIN snap.inventories |-> [s \in Skus |-> stock[snap.inventories[l]][s]]]
  BY <1>1, <1>5
<1>7. /\ repo.products = IF c.op = "product" THEN Put(snap.products, c.sku, c.currency)
                                             ELSE snap.products
      /\ repo.orders = IF c.op = "place" THEN Put(snap.orders, r, f.lines) ELSE snap.orders
      /\ repo.inventories = IF c.op = "stock" THEN Put(snap.inventories, c.location, r)
                                              ELSE snap.inventories
      /\ c.op = "place" => r \notin DOMAIN snap.orders
  BY <1>1, <1>3 DEF Writing, Written
<1>8. Announced(r) = IF c.op = "place" THEN <<OrderPlaced(r)>> ELSE <<>>
  BY DEF Announced, Announcement
<1>9. c.op \in {"place", "product", "stock"}
  BY FrameLines DEF Opened
<1>10. CASE c.op = "product"
  <2>1. ViewOf("products")' = S!Insert(ViewOf("products"), c.sku, c.currency)
    BY <1>1, <1>7, <1>10 DEF S!Insert, Put
  <2>2. UNCHANGED <<ViewOf("orders"), Shelf, sink>>
    BY <1>1, <1>4, <1>6, <1>7, <1>8, <1>10
  <2> QED
    BY <1>2, <1>10, <2>1, <2>2 DEF S!Next, S!AddProduct
<1>11. CASE c.op = "stock"
  <2>1. c.levels \in [Skus -> Nat] /\ stock[r] = c.levels
    BY <1>2, <1>3, <1>11, CallArguments, CallsAssumption
  <2>2. Shelf' = S!Insert(Shelf, c.location, c.levels)
    <3> DEFINE row(x) == [s \in Skus |-> stock[x][s]]
               view == snap.inventories
               l == c.location
    <3>1. row(r) = c.levels
      BY <2>1
    <3>2. /\ Shelf = [k \in DOMAIN view |-> row(view[k])]
          /\ Shelf' = [k \in DOMAIN repo.inventories |-> row(repo.inventories[k])]
      BY <1>1, <1>6
    <3>3. repo.inventories = [k \in DOMAIN view \cup {l} |-> IF k = l THEN r ELSE view[k]]
      BY <1>7, <1>11 DEF Put
    <3> HIDE DEF row, view, l
    <3>4. Shelf' = [k \in DOMAIN Shelf \cup {l} |-> IF k = l THEN c.levels ELSE Shelf[k]]
      BY <3>1, <3>2, <3>3
    <3> QED
      BY <3>4 DEF S!Insert, l
  <2>3. UNCHANGED <<ViewOf("products"), ViewOf("orders"), sink>>
    BY <1>1, <1>4, <1>7, <1>8, <1>11
  <2> QED
    BY <1>2, <1>11, <2>2, <2>3 DEF S!Next, S!SetStock
<1>12. CASE c.op = "place"
  <2>1. ViewOf("orders")' = S!Insert(ViewOf("orders"), r, c.items)
        /\ r \notin DOMAIN ViewOf("orders")
    BY <1>1, <1>3, <1>7, <1>12 DEF S!Insert, Put, Placing
  <2>2. UNCHANGED <<ViewOf("products"), Shelf>>
    BY <1>1, <1>6, <1>7, <1>12
  <2>3. sink' = Append(sink, [type |-> "OrderPlaced", order |-> r])
    BY <1>1, <1>4, <1>8, <1>12 DEF OrderPlaced
  <2>4. /\ c.items # <<>>
        /\ \A i \in DOMAIN c.items :
              c.items[i].sku \in DOMAIN ViewOf("products") /\ c.items[i].quantity > 0
        /\ \A i, j \in DOMAIN c.items :
              ViewOf("products")[c.items[i].sku] = ViewOf("products")[c.items[j].sku]
    BY <1>1, <1>3, <1>7, <1>12 DEF Placing, ToTheSink, Checked
  <2>5. S!Place(r, c.items)
    BY <2>1, <2>2, <2>3, <2>4 DEF S!Place
  <2> QED
    BY <1>2, <1>12, <2>5 DEF S!Next
<1> QED
  BY <1>9, <1>10, <1>11, <1>12

LEMMA ShopAllocates ==
    ASSUME IInv, IInv', OneAtATime, OneAtATime', PhaseInv, PhaseInv', WorkInv, WorkInv',
           StockNonNegative,
           NEW r \in Requests, Opened(r), Step(r), ExtendSink(r), Top(r).call.op = "allocate"
    PROVE  S!Next
<1> DEFINE f == Top(r)
           o == f.call.order
           l == f.call.location
           x == f.inventory
           view == repo.inventories
           sold(s) == OnLines(f.lines, s, DOMAIN f.lines)
<1>1. /\ ViewOf("products") = snap.products /\ ViewOf("orders") = snap.orders
      /\ Shelf = [k \in DOMAIN snap.inventories |-> [s \in Skus |->
                    stock[snap.inventories[k]][s] + Held(r, snap.inventories[k], s)]]
      /\ ViewOf("products")' = repo.products /\ ViewOf("orders")' = repo.orders
      /\ Shelf' = [k \in DOMAIN view |-> [s \in Skus |-> stock[view[k]][s]]]
      /\ sink' = sink \o Announced(r)
      /\ Works(f, r, repo, snap, stock) /\ f.pc = "extendSink"
  BY ShopCommits
<1>2. /\ repo.products = snap.products /\ repo.orders = snap.orders /\ repo.inventories = snap.inventories
      /\ o \in DOMAIN repo.orders /\ f.lines = repo.orders[o]
      /\ l \in DOMAIN view /\ x = view[l]
  BY <1>1 DEF Works, Writing, Written, Allocating
<1>3. /\ IsInventories(view) /\ stock \in [Objects -> Levels] /\ IsOrders(repo.orders) /\ sink \in Seq(Events)
      /\ o \in Requests /\ l \in Locations
  BY FrameLines DEF IInv, TypeOK, Opened
<1>4. ASSUME NEW k \in DOMAIN view, view[k] = x
      PROVE  k = l
  <2>1. x \in ObjectsOf(k) /\ x \in ObjectsOf(l) /\ k \in Locations
    BY <1>2, <1>3, <1>4 DEF WorkInv, Shelved, IsInventories, IsDict
  <2> QED
    BY <1>3, <2>1, NamesAssumption DEF ObjectsOf
<1>5. ASSUME NEW k \in DOMAIN view, NEW s \in Skus
      PROVE  /\ stock[view[k]][s] \in Int /\ stock[view[k]][s] >= 0 /\ sold(s) \in Int
             /\ Held(r, view[k], s) = IF k = l THEN sold(s) ELSE 0
  <2>1. TakenOf(r, s) = sold(s) /\ sold(s) \in Int
    <3>1. TakenOf(r, s) = OnLines(f.lines, s, Taken(r)) /\ TakenOf(r, s) \in Int
      BY SoldOK DEF AllSold, Sold
    <3>2. Taken(r) = DOMAIN f.lines
      BY <1>1 DEF Taken
    <3> QED
      BY <3>1, <3>2
  <2>2. view[k] \in Objects
    BY <1>3 DEF IsInventories, IsDict
  <2>3. stock[view[k]][s] \in Int /\ stock[view[k]][s] >= 0
    BY <1>3, <2>2 DEF Levels, StockNonNegative
  <2>4. view[k] = x <=> k = l
    BY <1>2, <1>4
  <2> HIDE DEF sold
  <2> QED
    BY <2>1, <2>3, <2>4 DEF Held
<1>6. \A s : S!Needed(ViewOf("orders")[o], s) = sold(s)
  BY <1>1, <1>2, ShopUnits
<1>7. Shelf = [k \in DOMAIN view |-> [s \in Skus |->
                 stock[view[k]][s] + IF k = l THEN sold(s) ELSE 0]]
  <2>1. \A k \in DOMAIN view, s \in Skus :
          stock[view[k]][s] + Held(r, view[k], s) = stock[view[k]][s] + IF k = l THEN sold(s) ELSE 0
    BY <1>5
  <2> QED
    BY <1>1, <1>2, <2>1
<1>8. Announced(r) = <<[type |-> "StockAllocated", order |-> o, location |-> l]>>
  BY DEF Announced, Announcement, StockAllocated
<1>9. sink' = Append(sink, [type |-> "StockAllocated", order |-> o, location |-> l])
  BY <1>1, <1>3, <1>8
<1>10. o \in DOMAIN ViewOf("orders") /\ UNCHANGED <<ViewOf("products"), ViewOf("orders")>>
  BY <1>1, <1>2
<1> HIDE DEF view, sold, o, l, x
<1>11. l \in DOMAIN Shelf /\ \A s \in Skus : S!Needed(ViewOf("orders")[o], s) <= Shelf[l][s]
  <2>1. l \in DOMAIN view
    BY <1>2
  <2>2. \A s \in Skus : Shelf[l][s] = stock[view[l]][s] + sold(s)
    BY <1>7, <2>1
  <2>3. \A s \in Skus : sold(s) <= stock[view[l]][s] + sold(s)
    BY <1>5, <2>1
  <2> QED
    BY <1>6, <1>7, <2>1, <2>2, <2>3
<1>12. Shelf' = [Shelf EXCEPT ![l] =
                   [s \in Skus |-> Shelf[l][s] - S!Needed(ViewOf("orders")[o], s)]]
  <2>1. \A k \in DOMAIN view, s \in Skus :
          Shelf'[k][s] = IF k = l THEN Shelf[l][s] - sold(s) ELSE Shelf[k][s]
    BY <1>1, <1>5, <1>7
  <2>2. /\ Shelf = [k \in DOMAIN view |-> Shelf[k]]
        /\ \A k \in DOMAIN view : Shelf[k] = [s \in Skus |-> Shelf[k][s]]
    BY <1>7
  <2>3. /\ Shelf' = [k \in DOMAIN view |-> Shelf'[k]]
        /\ \A k \in DOMAIN view : Shelf'[k] = [s \in Skus |-> Shelf'[k][s]]
    BY <1>1
  <2>4. \A k \in DOMAIN view : Shelf'[k] = IF k = l THEN [s \in Skus |-> Shelf[l][s] - sold(s)]
                                                    ELSE Shelf[k]
    BY <2>1, <2>2, <2>3
  <2>5. Shelf' = [Shelf EXCEPT ![l] = [s \in Skus |-> Shelf[l][s] - sold(s)]]
    BY <2>2, <2>3, <2>4
  <2>6. [s \in Skus |-> Shelf[l][s] - S!Needed(ViewOf("orders")[o], s)]
          = [s \in Skus |-> Shelf[l][s] - sold(s)]
    BY <1>6
  <2> QED
    BY <2>5, <2>6
<1>13. S!Allocate(o, l)
  BY <1>9, <1>10, <1>11, <1>12 DEF S!Allocate
<1> QED
  BY <1>3, <1>11, <1>13 DEF S!Next

LEMMA AtClearPending ==
    ASSUME NEW r \in Requests, Step(r), Top(r).pc = "clearPending"
    PROVE  ClearPending(r)
BY DEF Step, At, ReadProduct, CreateOrder, RefuseOrder, GetOrder, GetInventory, Precheck, Enter,
   TakeSnapshot, AddProduct, AddOrder, UpsertInventory, CanFulfill, LoadOnHand, StoreOnHand, Publish,
   Buffer, SinkNow, CopyPending, ExtendSink, DiscardPending, ClearSnapshot, SetCommitted, Notify,
   CallAllocate, EndDispatch, Dispatching, Rollback, Restore, RolledBack, Exit

LEMMA ShopStep ==
    ASSUME IInv, IInv', SerialInv, SerialInv', PhaseInv, PhaseInv', WorkInv, WorkInv',
           NEW r \in Requests, Step(r)
    PROVE  S!Next \/ UNCHANGED S!vars
<1>1. OneAtATime /\ OneAtATime' /\ StockNonNegative
  BY DEF SerialInv
<1>2. frames[r] # <<>> /\ Stack(r) /\ Phase(r) /\ Working(r)
  BY <1>1, Alone DEF PhaseInv, WorkInv
<1>3. CASE Top(r).pc \notin OpenSteps \cup {"clearPending"}
  BY <1>1, <1>2, <1>3, ShopOutside
<1>4. CASE Top(r).pc = "clearPending"
  <2>1. ClearPending(r)
    BY <1>4, AtClearPending
  <2> QED
    BY <1>1, <1>2, <2>1, ShopOpens
<1>5. CASE Top(r).pc \in OpenSteps
  <2>1. Opened(r)
    BY <1>2, <1>5 DEF Opened
  <2>2. CASE ~ExtendSink(r)
    BY <1>1, <2>1, <2>2, ShopInside
  <2>3. CASE ExtendSink(r) /\ Top(r).call.op # "allocate"
    BY <1>1, <2>1, <2>3, ShopChanges
  <2>4. CASE ExtendSink(r) /\ Top(r).call.op = "allocate"
    BY <1>1, <2>1, <2>4, ShopAllocates
  <2> QED
    BY <2>2, <2>3, <2>4
<1> QED
  BY <1>3, <1>4, <1>5

\* A new request changes nothing yet: the Inventory object of a PUT is nobody's.
LEMMA ShopReceive ==
    ASSUME PoolSize = 1, IInv, IInv', WorkInv, NEW r \in Requests, NEW c \in Calls, Receive(r, c)
    PROVE  UNCHANGED S!vars
<1>1. /\ frames'[r] = <<NewFrame(c)>> /\ UNCHANGED <<repo, sink>> /\ calls[r] = None
      /\ stock' = IF c.op = "stock" THEN [stock EXCEPT ![r] = c.levels] ELSE stock
      /\ \A q \in Requests \ {r} : frames'[q] = frames[q]
      /\ \A q \in Requests : frames[q] = <<>>
  BY NobodyBusy DEF Receive, IInv, TypeOK, Busy, logs
<1>2. Top(r)'.pc \in {"readProduct", "getOrder", "enter"}
  BY <1>1 DEF Top, NewFrame, FirstStep
<1>3. (\A q \in Requests : ~Opened(q)) /\ (\A q \in Requests : ~Opened(q)')
  BY <1>1, <1>2 DEF Opened, OpenSteps
<1>4. SeesIdle /\ SeesIdle'
  BY SeesIdleOK, PTL
<1>5. ASSUME NEW l \in DOMAIN repo.inventories
      PROVE  stock'[repo.inventories[l]] = stock[repo.inventories[l]]
  <2>1. l \in Locations /\ repo.inventories[l] \in ObjectsOf(l)
    BY DEF IInv, TypeOK, IsInventories, IsDict, WorkInv, Shelved
  <2>2. repo.inventories[l] # r
    BY <1>1, <2>1, NamesAssumption DEF ObjectsOf
  <2> QED
    BY <1>1, <2>2 DEF IInv, TypeOK
<1>6. /\ UNCHANGED <<ViewOf("products"), ViewOf("orders")>>
      /\ Shelf = [l \in DOMAIN repo.inventories |-> [s \in Skus |-> stock[repo.inventories[l]][s]]]
      /\ Shelf' = [l \in DOMAIN repo.inventories |-> [s \in Skus |-> stock'[repo.inventories[l]][s]]]
  BY <1>1, <1>3, <1>4 DEF SeesIdle
<1> QED
  BY <1>1, <1>5, <1>6 DEF S!vars

AllInv == IInv /\ SerialInv /\ PhaseInv /\ WorkInv

LEMMA ShopStarts == Init => S!Init
<1> SUFFICES ASSUME Init PROVE S!Init
  OBVIOUS
<1>1. IInv /\ \A r \in Requests : ~Opened(r)
  BY InitType DEF Init, Opened
<1>2. /\ ViewOf("products") = Catalogue /\ ViewOf("orders") = <<>>
      /\ Shelf = [l \in DOMAIN repo.inventories |-> [s \in Skus |-> stock[repo.inventories[l]][s]]]
  BY <1>1, SeesIdleOK DEF SeesIdle, Init
<1>3. IsDict(InitialStock, Locations, [Skus -> Nat])
  BY SeedAssumption
<1>4. /\ repo.inventories = [l \in DOMAIN InitialStock |-> l]
      /\ \A l \in DOMAIN InitialStock : l \in Objects /\ stock[l] = InitialStock[l]
  BY <1>3 DEF Init, IsDict, Objects
<1>5. Shelf = [l \in DOMAIN InitialStock |-> [s \in Skus |-> InitialStock[l][s]]]
  BY <1>2, <1>4
<1>6. \A l \in DOMAIN InitialStock : InitialStock[l] = [s \in Skus |-> InitialStock[l][s]]
  BY <1>3 DEF IsDict
<1>7. Shelf = InitialStock
  BY <1>3, <1>5, <1>6 DEF IsDict
<1> QED
  BY <1>2, <1>7 DEF S!Init, Init

\* Served by one thread, and with every SKU on one line of an order only, every call is
\* atomic to the rest of the service: PlaceOrder, AllocateStock and the two API routes have
\* their whole effect, announcement included, when commit() extends the sink, and none when
\* they are refused; nothing before or after that step shows (unit_of_work.py, the `with`
\* blocks of place_order.py and allocate_stock.py).
THEOREM ImplementsShop ==
    ASSUME PoolSize = 1, EachSkuOnce
    PROVE  Spec => ShopSpec
<1>1. AllInv /\ AllInv' /\ [Next]_vars => [S!Next]_S!vars
  <2> SUFFICES ASSUME AllInv, AllInv', [Next]_vars
               PROVE  [S!Next]_S!vars
    OBVIOUS
  <2>0. IInv /\ IInv' /\ SerialInv /\ SerialInv' /\ PhaseInv /\ PhaseInv' /\ WorkInv /\ WorkInv'
    BY DEF AllInv
  <2>1. CASE UNCHANGED vars
    BY <2>1 DEF vars, S!vars, ViewOf, Shelf, OnShelf, Uncommitted, TakenOf, Taken, Top, Busy
  <2> QED
    BY <2>0, <2>1, ShopStep, ShopReceive DEF Next, AllServed
<1>2. IInv /\ SerialInv /\ (OneAtATime /\ PhaseInv) /\ WorkInv => AllInv
  BY DEF AllInv
<1> QED
  BY <1>1, <1>2, ShopStarts, InPhase, InSerial, InWork, Inductive, PTL DEF Spec, ShopSpec, S!Spec

-----------------------------------------------------------------------------
(* Stock is accounted for *)

\* What each object of a location lacks, and what each announced allocation took there.
Loss(l, s) == [x \in ObjectsOf(l) |-> Given(x)[s] - stock[x][s]]
Gain(l, s) == [i \in AllocationsAt(l) |-> S!Needed(repo.orders[sink[i].order], s)]

LEMMA NeededInt ==
    ASSUME NEW lines \in Seq(Lines), NEW s
    PROVE  S!Needed(lines, s) \in Int
<1>1. DOMAIN lines = 1..Len(lines)
  OBVIOUS
<1> QED
  BY <1>1, ShopUnits, OnMoreLines

LEMMA GivenInt ==
    ASSUME IInv, NEW l \in Locations, NEW s \in Skus, NEW x \in ObjectsOf(l)
    PROVE  Given(x)[s] \in Int
<1>1. CASE x \in DOMAIN InitialStock
  <2>1. InitialStock[x] \in [Skus -> Nat]
    BY <1>1, SeedAssumption DEF IsDict
  <2> QED
    BY <1>1, <2>1 DEF Given
<1>2. CASE x \notin DOMAIN InitialStock
  <2>1. calls[x] \in AllCalls /\ calls[x].op = "stock"
    BY <1>2, CallsAssumption DEF ObjectsOf, IInv, TypeOK
  <2>2. calls[x].levels \in [Skus -> Nat]
    BY <2>1, CallArguments
  <2> QED
    BY <1>2, <2>2 DEF Given
<1> QED
  BY <1>1, <1>2

LEMMA LossOK ==
    ASSUME IInv, NEW l \in Locations, NEW s \in Skus
    PROVE  IsFiniteSet(ObjectsOf(l)) /\ IntsOn(Loss(l, s), ObjectsOf(l))
<1>1. IsFiniteSet(ObjectsOf(l))
  <2>1. IsFiniteSet(Requests \cup {l})
    BY NamesAssumption, FS_AddElement
  <2>2. ObjectsOf(l) \subseteq Requests \cup {l}
    BY DEF ObjectsOf
  <2> QED
    BY <2>1, <2>2, FS_Subset
<1>2. ASSUME NEW x \in ObjectsOf(l)
      PROVE  Given(x)[s] - stock[x][s] \in Int
  <2>1. stock[x][s] \in Int
    BY DEF IInv, TypeOK, Levels, ObjectsOf
  <2>2. Given(x)[s] \in Int
    BY GivenInt
  <2> QED
    BY <2>1, <2>2
<1> QED
  BY <1>1, <1>2 DEF IntsOn, Loss

LEMMA GainOK ==
    ASSUME IInv, Backed, NEW l \in Locations, NEW s \in Skus
    PROVE  /\ IsFiniteSet(AllocationsAt(l)) /\ IntsOn(Gain(l, s), AllocationsAt(l))
           /\ AllocationsAt(l) \subseteq 1..Len(sink) /\ DOMAIN sink = 1..Len(sink)
           /\ Len(sink) \in Nat
<1>1. DOMAIN sink = 1..Len(sink) /\ Len(sink) \in Nat
  BY DEF IInv, TypeOK
<1>2. IsFiniteSet(AllocationsAt(l)) /\ AllocationsAt(l) \subseteq 1..Len(sink)
  <2>1. IsFiniteSet(1..Len(sink))
    BY <1>1, FS_Interval
  <2> QED
    BY <1>1, <2>1, FS_Subset DEF AllocationsAt
<1>3. ASSUME NEW i \in AllocationsAt(l)
      PROVE  S!Needed(repo.orders[sink[i].order], s) \in Int
  <2>1. sink[i].order \in DOMAIN repo.orders
    BY DEF Backed, AllocationsAt
  <2>2. repo.orders[sink[i].order] \in Seq(Lines)
    BY <2>1 DEF IInv, TypeOK, IsOrders, IsDict
  <2> QED
    BY <2>2, NeededInt
<1> QED
  BY <1>1, <1>2, <1>3 DEF IntsOn, Gain

CountsOK ==
    IInv /\ Backed => \A l \in Locations, s \in Skus :
        /\ IsFiniteSet(ObjectsOf(l)) /\ IntsOn(Loss(l, s), ObjectsOf(l))
        /\ IsFiniteSet(AllocationsAt(l)) /\ IntsOn(Gain(l, s), AllocationsAt(l))
        /\ AllocationsAt(l) \subseteq 1..Len(sink) /\ DOMAIN sink = 1..Len(sink)
        /\ Len(sink) \in Nat
        /\ Missing(l, s) = SumFunction(Loss(l, s)) /\ Missing(l, s) \in Int
        /\ Allocated(l, s) = SumFunction(Gain(l, s)) /\ Allocated(l, s) \in Int

LEMMA Counts == CountsOK
<1> SUFFICES ASSUME IInv, Backed, NEW l \in Locations, NEW s \in Skus
             PROVE  /\ SumFunction(Loss(l, s)) \in Int /\ SumFunction(Gain(l, s)) \in Int
                    /\ Missing(l, s) = SumFunction(Loss(l, s))
                    /\ Allocated(l, s) = SumFunction(Gain(l, s))
  BY LossOK, GainOK DEF CountsOK
<1>1. Missing(l, s) = SumFunction(Loss(l, s)) /\ Allocated(l, s) = SumFunction(Gain(l, s))
  BY DEF Missing, Loss, Allocated, Gain
<1> QED
  BY <1>1, LossOK, GainOK, SumInt

\* An allocation takes a line: so much more is missing at its location.
LEMMA MissingTakes ==
    ASSUME IInv, IInv', Backed, Backed', WorkInv, UNCHANGED calls, NEW r \in Requests,
           Opened(r), Top(r).call.op = "allocate",
           NEW n \in 1..Len(Top(r).lines), Takes(r, n), NEW l \in Locations, NEW s \in Skus
    PROVE  Missing(l, s)' = Missing(l, s) +
             IF Top(r).call.location = l /\ Top(r).lines[n].sku = s
             THEN Top(r).lines[n].quantity ELSE 0
<1> DEFINE f == Top(r)
           x == f.inventory
           t == f.lines[n].sku
           q == f.lines[n].quantity
           home == f.call.location
<1>1. f.pc \in OpenSteps /\ frames[r] # <<>> /\ Allocating(f, repo, stock)
  BY DEF Opened, WorkInv, Working, Works, OpenSteps, AfterSink
<1>2. home \in DOMAIN repo.inventories /\ x = repo.inventories[home]
  BY <1>1 DEF Allocating, OpenSteps
<1>3. x \in ObjectsOf(home) /\ home \in Locations /\ x \in Objects
  BY <1>2 DEF WorkInv, Shelved, IInv, TypeOK, IsInventories, IsDict
<1>4. l # home => x \notin ObjectsOf(l)
  BY <1>3, NamesAssumption DEF ObjectsOf
<1>5. t \in Skus /\ q \in Int
  BY <1>1, FrameLines
<1>6. \A y \in Objects : stock'[y][s] = IF y = x /\ t = s THEN stock[y][s] - q ELSE stock[y][s]
  <2>1. stock' = [stock EXCEPT ![x] = [stock[x] EXCEPT ![t] = stock[x][t] - q]]
    BY DEF Takes
  <2>2. stock \in [Objects -> Levels] /\ \A y \in Objects : DOMAIN stock[y] = Skus
    BY DEF IInv, TypeOK, Levels
  <2> HIDE DEF x, t, q
  <2> QED
    BY <1>3, <1>5, <2>1, <2>2
<1>7. ObjectsOf(l)' = ObjectsOf(l) /\ \A y : Given(y)' = Given(y)
  BY DEF ObjectsOf, Given
<1>8. Loss(l, s)' = [y \in ObjectsOf(l) |-> Given(y)[s] - stock'[y][s]]
  BY <1>7 DEF Loss
<1>9. CountsOK /\ CountsOK'
  BY Counts, PTL
<1>10. ObjectsOf(l) \subseteq Objects
  BY DEF ObjectsOf
<1> HIDE DEF f, x, t, q, home
<1>11. CASE l = home /\ t = s
  <2> DEFINE U == ObjectsOf(l) \ {x}
             h == Loss(l, s)'
  <2>1. OneMore(U, x, ObjectsOf(l))
    BY <1>3, <1>11 DEF OneMore
  <2>2. Agree(Loss(l, s), h, U)
    BY <1>6, <1>8, <1>10 DEF Agree, Loss
  <2>3. IntsOn(Loss(l, s), ObjectsOf(l)) /\ IntsOn(h, ObjectsOf(l)) /\ IsFiniteSet(ObjectsOf(l))
        /\ Missing(l, s) = SumFunction(Loss(l, s)) /\ Missing(l, s)' = SumFunction(h)
        /\ Missing(l, s) \in Int
    BY <1>7, <1>9 DEF CountsOK
  <2>4. h[x] = Loss(l, s)[x] + q /\ Loss(l, s)[x] \in Int
    <3>1. h[x] = Given(x)[s] - stock'[x][s] /\ Loss(l, s)[x] = Given(x)[s] - stock[x][s]
      BY <1>3, <1>8, <1>11 DEF Loss
    <3>2. Loss(l, s)[x] \in Int /\ stock[x][s] \in Int /\ Given(x)[s] \in Int
      <4>1. Loss(l, s)[x] \in Int
        BY <1>3, <1>11, <2>3 DEF IntsOn
      <4>2. stock[x][s] \in Int
        BY <1>3 DEF IInv, TypeOK, Levels
      <4>3. Given(x)[s] \in Int
        BY <1>3, <1>11, GivenInt
      <4> QED
        BY <4>1, <4>2, <4>3
    <3>3. stock'[x][s] = stock[x][s] - q
      BY <1>3, <1>6, <1>11
    <3> HIDE DEF h
    <3> QED
      BY <1>5, <3>1, <3>2, <3>3
  <2> HIDE DEF U, h
  <2>5. SumFunction(h) = SumFunction(Loss(l, s)) - Loss(l, s)[x] + h[x]
    BY <2>1, <2>2, <2>3, SumChanged
  <2>6. Missing(l, s)' = Missing(l, s) + q
    BY <1>5, <2>3, <2>4, <2>5
  <2> QED
    BY <1>11, <2>6 DEF f, home, t, q
<1>12. CASE ~(l = home /\ t = s)
  <2>1. \A y \in ObjectsOf(l) : stock'[y][s] = stock[y][s]
    BY <1>4, <1>6, <1>10, <1>12
  <2>2. Loss(l, s)' = Loss(l, s)
    BY <1>8, <2>1 DEF Loss
  <2>3. Missing(l, s)' = Missing(l, s) /\ Missing(l, s) \in Int
    BY <1>9, <2>2 DEF CountsOK
  <2> QED
    BY <1>12, <2>3 DEF f, home, t, q
<1> QED
  BY <1>11, <1>12

LEMMA LogBacked ==
    ASSUME IInv, IInv', Backed, OrdersGrow, NEW es \in Seq(Events), sink' = sink \o es,
           \A i \in DOMAIN es : es[i].type = "StockAllocated" => es[i].order \in DOMAIN repo'.orders
    PROVE  Backed'
<1>1. /\ sink \in Seq(Events) /\ DOMAIN sink = 1..Len(sink) /\ Len(sink) \in Nat
      /\ DOMAIN es = 1..Len(es) /\ Len(es) \in Nat
  BY DEF IInv, TypeOK
<1>2. ASSUME NEW i \in DOMAIN sink', sink'[i].type = "StockAllocated"
      PROVE  sink'[i].order \in DOMAIN repo'.orders
  <2>1. DOMAIN sink' = 1..(Len(sink) + Len(es)) /\ i \in 1..(Len(sink) + Len(es))
    BY <1>1
  <2>2. CASE i \in DOMAIN sink
    <3>1. sink'[i] = sink[i]
      BY <1>1, <2>2
    <3> QED
      BY <1>2, <2>2, <3>1 DEF Backed, OrdersGrow
  <2>3. CASE i \notin DOMAIN sink
    <3>1. i - Len(sink) \in DOMAIN es /\ sink'[i] = es[i - Len(sink)]
      BY <1>1, <2>1, <2>3
    <3> QED
      BY <1>2, <3>1
  <2> QED
    BY <2>2, <2>3
<1> QED
  BY <1>2 DEF Backed

\* The log grows by events that are no allocation: what was allocated stays.
LEMMA AllocatedStays ==
    ASSUME IInv, IInv', Backed, OrdersGrow, NEW es, sink' = sink \o es,
           es = <<>> \/ \E q \in Requests : es = <<OrderPlaced(q)>>,
           NEW l \in Locations, NEW s \in Skus
    PROVE  Allocated(l, s)' = Allocated(l, s)
<1>1. /\ sink \in Seq(Events) /\ DOMAIN sink = 1..Len(sink) /\ Len(sink) \in Nat
      /\ DOMAIN sink' = 1..Len(sink')
  BY DEF IInv, TypeOK
<1>2. \A i \in DOMAIN sink : i \in DOMAIN sink' /\ sink'[i] = sink[i]
  <2>1. CASE es = <<>>
    BY <1>1, <2>1
  <2>2. ASSUME NEW q \in Requests, es = <<OrderPlaced(q)>>
        PROVE  \A i \in DOMAIN sink : i \in DOMAIN sink' /\ sink'[i] = sink[i]
    BY <1>1, <2>2
  <2> QED
    BY <2>1, <2>2
<1>3. \A i \in DOMAIN sink' : i \notin DOMAIN sink => sink'[i].type = "OrderPlaced"
  <2>1. CASE es = <<>>
    BY <1>1, <2>1
  <2>2. ASSUME NEW q \in Requests, es = <<OrderPlaced(q)>>
        PROVE  \A i \in DOMAIN sink' : i \notin DOMAIN sink => sink'[i].type = "OrderPlaced"
    <3>1. OrderPlaced(q).type = "OrderPlaced"
      BY DEF OrderPlaced
    <3> QED
      BY <1>1, <2>2, <3>1
  <2> QED
    BY <2>1, <2>2
<1>4. AllocationsAt(l)' = AllocationsAt(l)
  BY <1>2, <1>3 DEF AllocationsAt
<1>5. \A i \in AllocationsAt(l) :
        S!Needed(repo.orders[sink[i].order], s)' = S!Needed(repo.orders[sink[i].order], s)
  <2>1. \A i \in AllocationsAt(l) :
          repo'.orders[sink'[i].order] = repo.orders[sink[i].order]
    BY <1>2 DEF AllocationsAt, Backed, OrdersGrow
  <2> QED
    BY <2>1, ShopUnits
<1> QED
  BY <1>4, <1>5 DEF Allocated

\* The log grows by an allocation.
LEMMA AllocatedMore ==
    ASSUME IInv, IInv', Backed, Backed', UNCHANGED repo, NEW o \in DOMAIN repo.orders, NEW k \in Locations,
           sink' = sink \o <<StockAllocated(o, k)>>, NEW l \in Locations, NEW s \in Skus
    PROVE  Allocated(l, s)' = Allocated(l, s) +
             IF l = k THEN OnLines(repo.orders[o], s, DOMAIN repo.orders[o]) ELSE 0
<1> DEFINE e == StockAllocated(o, k)
           n == Len(sink) + 1
           needed == OnLines(repo.orders[o], s, DOMAIN repo.orders[o])
<1>1. /\ sink \in Seq(Events) /\ DOMAIN sink = 1..Len(sink) /\ Len(sink) \in Nat
      /\ DOMAIN sink' = 1..Len(sink')
  BY DEF IInv, TypeOK
<1>2. e.type = "StockAllocated" /\ e.order = o /\ e.location = k
  BY DEF StockAllocated
<1> HIDE DEF e
<1>3. /\ DOMAIN sink' = DOMAIN sink \cup {n} /\ n \notin DOMAIN sink /\ sink'[n] = e
      /\ \A i \in DOMAIN sink : sink'[i] = sink[i]
  BY <1>1 DEF e
<1> HIDE DEF n
<1>4. CountsOK /\ CountsOK'
  BY Counts, PTL
<1>5. \A i \in AllocationsAt(l) :
        S!Needed(repo.orders[sink[i].order], s)' = S!Needed(repo.orders[sink[i].order], s)
  <2>1. \A i \in AllocationsAt(l) : sink'[i] = sink[i]
    BY <1>3 DEF AllocationsAt
  <2> QED
    BY <2>1, ShopUnits
<1>6. CASE l # k
  <2>1. AllocationsAt(l)' = AllocationsAt(l)
    BY <1>2, <1>3, <1>6 DEF AllocationsAt
  <2>2. Allocated(l, s)' = Allocated(l, s)
    BY <1>5, <2>1 DEF Allocated
  <2>3. Allocated(l, s) \in Int
    BY <1>4 DEF CountsOK
  <2> QED
    BY <1>6, <2>2, <2>3
<1>7. CASE l = k
  <2> DEFINE f == Gain(l, s)
             h == Gain(l, s)'
             T == AllocationsAt(l)
             U == AllocationsAt(l)'
  <2>1. OneMore(T, n, U)
    BY <1>2, <1>3, <1>7 DEF AllocationsAt, OneMore
  <2>2. n \in U /\ T \subseteq U
    BY <2>1 DEF OneMore
  <2>3. Agree(f, h, T)
    BY <1>5, <2>2 DEF Agree, Gain
  <2>4. h[n] = needed
    <3>1. h[n] = S!Needed(repo'.orders[sink'[n].order], s)
      BY <2>2 DEF Gain
    <3> HIDE DEF h
    <3> QED
      BY <1>2, <1>3, <3>1, ShopUnits
  <2>5. /\ IsFiniteSet(T) /\ IntsOn(f, T) /\ IntsOn(h, U) /\ Allocated(l, s) = SumFunction(f)
        /\ Allocated(l, s)' = SumFunction(h)
    BY <1>4 DEF CountsOK
  <2> HIDE DEF f, h, T, U
  <2>6. SumFunction(h) = SumFunction(f) + h[n]
    BY <2>1, <2>3, <2>5, SumMore
  <2> QED
    BY <1>7, <2>4, <2>5, <2>6
<1> QED
  BY <1>6, <1>7

\* Whether the running frame ends or goes on, its books are the only ones.
LEMMA OneBook ==
    ASSUME IInv', OneAtATime', NEW r \in Requests, Others(r), OneAtATime, frames[r] # <<>>, Backed',
           \A l \in Locations, s \in Skus :
              Missing(l, s)' = Allocated(l, s)' + InHand(r, l, s)'
    PROVE  Accounted'
<1>1. \A q \in Requests : frames'[q] # <<>> => q = r
  BY DEF OneAtATime, Others
<1>2. \A q \in Busy' : q = r
  BY <1>1 DEF Busy
<1>3. ASSUME Busy' = {}, NEW l \in Locations, NEW s \in Skus
      PROVE  Missing(l, s)' = Allocated(l, s)'
  <2>1. CountsOK'
    BY Counts, PTL
  <2>2. Allocated(l, s)' \in Int
    BY <2>1 DEF CountsOK
  <2>3. InHand(r, l, s)' = 0
    BY <1>3 DEF InHand, Uncommitted
  <2> QED
    BY <2>2, <2>3
<1>4. StockAccounted'
  BY <1>3 DEF StockAccounted
<1> QED
  BY <1>2, <1>4 DEF Accounted

LEMMA AccountedStep ==
    ASSUME IInv, IInv', SerialInv, SerialInv', PhaseInv, AllRecorded, WorkInv, WorkInv', Accounted,
           NEW r \in Requests, Step(r)
    PROVE  Accounted'
<1> DEFINE f == Top(r)
           g == Top(r)'
<1>1. /\ frames[r] # <<>> /\ Stack(r) /\ Phase(r) /\ Working(r) /\ Others(r) /\ UNCHANGED calls
      /\ OneAtATime /\ OneAtATime' /\ OrdersGrow /\ Backed
  BY Alone, OrdersKept DEF PhaseInv, WorkInv, SerialInv, Others, Accounted
<1>2. \A l \in Locations, s \in Skus : Missing(l, s) = Allocated(l, s) + InHand(r, l, s)
  BY <1>1 DEF Accounted, Busy
<1>3. /\ \A l, s : InHand(r, l, s) = IF Opened(r) /\ f.call.op = "allocate" /\ f.call.location = l
                                     THEN TakenOf(r, s) ELSE 0
      /\ \A l, s : InHand(r, l, s)' = IF Opened(r)' /\ g.call.op = "allocate" /\ g.call.location = l
                                      THEN TakenOf(r, s)' ELSE 0
  BY DEF InHand, Uncommitted, Opened, Busy
<1>4. UNCHANGED stock => \A l, s : Missing(l, s)' = Missing(l, s)
  BY <1>1 DEF Missing, ObjectsOf, Given
<1>5. UNCHANGED sink => Backed' /\ \A l \in Locations, s \in Skus : Allocated(l, s)' = Allocated(l, s)
  <2> SUFFICES ASSUME UNCHANGED sink
               PROVE  Backed' /\ \A l \in Locations, s \in Skus : Allocated(l, s)' = Allocated(l, s)
    OBVIOUS
  <2>1. sink' = sink \o <<>>
    BY DEF IInv, TypeOK
  <2>2. Backed'
    BY <1>1 DEF Backed, OrdersGrow
  <2> QED
    BY <1>1, <2>1, <2>2, AllocatedStays
<1>6. CASE f.pc \notin OpenSteps \cup {"clearPending"}
  <2>1. UNCHANGED <<stock, sink>> /\ ~Opened(r) /\ ~Opened(r)'
    BY <1>1, <1>6, OutsideMoves DEF Opened
  <2> QED
    BY <1>1, <1>2, <1>3, <1>4, <1>5, <2>1, OneBook
<1>7. CASE f.pc = "clearPending"
  <2>1. ClearPending(r)
    BY <1>7, AtClearPending
  <2>2. UNCHANGED <<stock, sink>> /\ ~Opened(r) /\ Goto(r, BodyStep(f.call.op))
    BY <1>7, <2>1 DEF ClearPending, stores, logs, Opened, OpenSteps
  <2>3. \A l \in Locations, s \in Skus : InHand(r, l, s)' = 0
    <3> SUFFICES ASSUME NEW s \in Skus, Opened(r)', g.call.op = "allocate" PROVE TakenOf(r, s)' = 0
      BY <1>3
    <3>1. f.call.op \in {"place", "allocate", "product", "stock"} /\ FramesOK /\ f \in Frame
      BY <1>1, FrameLines
    <3>2. BodyStep(f.call.op) \in PCs
      BY <3>1 DEF BodyStep, PCs
    <3>3. g.pc = "canFulfill" /\ g.index = 1
      BY <1>1, <2>2, <3>1, <3>2, GotoSame DEF BodyStep, Same
    <3>4. Taken(r)' = {}
      BY <3>3 DEF Taken
    <3>5. AllSold'
      BY SoldOK, PTL
    <3>6. TakenOf(r, s)' = OnLines(g.lines, s, Taken(r)')
      BY <3>5 DEF AllSold, Sold
    <3> QED
      BY <3>4, <3>6, OnNoLine
  <2> QED
    BY <1>1, <1>2, <1>3, <1>4, <1>5, <2>2, <2>3, OneBook
<1>8. CASE f.pc \in OpenSteps /\ ~ExtendSink(r)
  <2>1. Opened(r)
    BY <1>1, <1>8 DEF Opened
  <2>2. /\ UNCHANGED sink /\ Same(f, g) /\ Opened(r)'
        /\ \/ UNCHANGED stock /\ (Taken(r)' = Taken(r) \/ f.inventory = None)
           \/ \E n \in 1..Len(f.lines) : Takes(r, n) /\ f.call.op = "allocate"
    BY <1>1, <1>8, <2>1, OpenMoves
  <2>3. ASSUME NEW s \in Skus
        PROVE  /\ f.lines \in Seq(Lines) /\ Taken(r) \in SUBSET (1..Len(f.lines))
               /\ TakenOf(r, s) = OnLines(f.lines, s, Taken(r)) /\ TakenOf(r, s) \in Int
               /\ TakenOf(r, s)' = OnLines(f.lines, s, Taken(r)')
    <3>1. AllSold /\ AllSold'
      BY SoldOK, PTL
    <3> QED
      BY <2>1, <2>2, <3>1 DEF AllSold, Sold, Same
  <2>4. CASE UNCHANGED stock /\ (Taken(r)' = Taken(r) \/ f.inventory = None)
    <3>1. f.call.op = "allocate" => f.inventory # None
      <4>1. FrameOK(f) /\ (f.call.op = "allocate" => Allocating(f, repo, stock))
        BY <1>1, <1>8, FrameLines DEF Working, Works, OpenSteps, AfterSink
      <4>2. f.pc \notin {"getOrder", "getInventory"}
        BY <1>8 DEF OpenSteps
      <4> QED
        BY <4>1, <4>2, NoneAssumption DEF FrameOK, Fits, Objects
    <3>2. \A l \in Locations, s \in Skus : InHand(r, l, s)' = InHand(r, l, s)
      BY <1>3, <2>1, <2>2, <2>3, <2>4, <3>1 DEF Same
    <3> QED
      BY <1>1, <1>2, <1>4, <1>5, <2>2, <2>4, <3>2, OneBook
  <2>5. ASSUME NEW n \in 1..Len(f.lines), Takes(r, n), f.call.op = "allocate"
        PROVE  Accounted'
    <3>1. ASSUME NEW l \in Locations, NEW s \in Skus
          PROVE  Missing(l, s)' = Allocated(l, s)' + InHand(r, l, s)'
      <4> DEFINE q == IF f.lines[n].sku = s THEN f.lines[n].quantity ELSE 0
      <4>1. n \notin Taken(r) /\ Taken(r)' = Taken(r) \cup {n}
        BY <2>5 DEF Takes
      <4>2. TakenOf(r, s)' = TakenOf(r, s) + q /\ TakenOf(r, s) \in Int
        BY <2>3, <2>5, <4>1, OnMoreLines
      <4>3. Missing(l, s)' = Missing(l, s) + IF f.call.location = l THEN q ELSE 0
        <5>1. Missing(l, s)' = Missing(l, s) + IF f.call.location = l /\ f.lines[n].sku = s
                                               THEN f.lines[n].quantity ELSE 0
          BY <1>1, <1>5, <2>1, <2>2, <2>5, MissingTakes
        <5> QED
          BY <5>1
      <4>4. q \in Int
        BY <2>1, <2>5, FrameLines DEF Opened
      <4>5. Allocated(l, s)' = Allocated(l, s) /\ Allocated(l, s) \in Int
        <5>1. CountsOK
          BY Counts
        <5> QED
          BY <1>1, <1>5, <2>2, <5>1 DEF CountsOK
      <4>6. /\ InHand(r, l, s) = IF f.call.location = l THEN TakenOf(r, s) ELSE 0
            /\ InHand(r, l, s)' = IF f.call.location = l THEN TakenOf(r, s)' ELSE 0
        BY <1>3, <2>1, <2>2, <2>5 DEF Same
      <4>7. Missing(l, s) = Allocated(l, s) + InHand(r, l, s)
        BY <1>2
      <4> HIDE DEF q
      <4> QED
        BY <4>2, <4>3, <4>4, <4>5, <4>6, <4>7
    <3> QED
      BY <1>1, <1>5, <2>2, <3>1, OneBook
  <2> QED
    BY <2>2, <2>4, <2>5
<1>9. CASE ExtendSink(r)
  <2>1. f.pc = "extendSink" /\ UNCHANGED <<repo, stock>> /\ Goto(r, "discard")
    BY <1>9 DEF ExtendSink, At, stores
  <2>2. sink' = sink \o Announced(r)
    BY <1>1, <2>1, StepLogs
  <2>3. Opened(r) /\ ~Opened(r)'
    <3>1. g.pc = "discard"
      BY <1>1, <2>1, FrameLines, GotoSame DEF PCs
    <3> QED
      BY <1>1, <2>1, <3>1 DEF Opened, OpenSteps
  <2>6. Backed'
    <3>1. Announced(r) \in Seq(Events)
      <4>1. <<>> \in Seq(Events) /\ \A e \in Events : <<e>> \in Seq(Events)
        OBVIOUS
      <4> QED
        BY <1>1, <4>1, AnnouncedOK
    <3>2. CASE f.call.op # "allocate"
      <4>1. \A i \in DOMAIN Announced(r) : Announced(r)[i].type = "OrderPlaced"
        BY <3>2 DEF Announced, Announcement, OrderPlaced
      <4> QED
        BY <1>1, <2>2, <3>1, <4>1, LogBacked
    <3>3. CASE f.call.op = "allocate"
      <4>1. f.call.order \in DOMAIN repo.orders
        BY <1>1, <2>1, <3>3 DEF Working, Works, Allocating, AfterSink
      <4>2. \A i \in DOMAIN Announced(r) : Announced(r)[i].order = f.call.order
        BY <3>3 DEF Announced, Announcement, StockAllocated
      <4> QED
        BY <1>1, <2>1, <2>2, <3>1, <4>1, <4>2, LogBacked
    <3> QED
      BY <3>2, <3>3
  <2>4. CASE f.call.op # "allocate"
    <3>1. Announced(r) = <<>> \/ \E q \in Requests : Announced(r) = <<OrderPlaced(q)>>
      BY <2>4 DEF Announced, Announcement
    <3>2. \A l \in Locations, s \in Skus : Allocated(l, s)' = Allocated(l, s)
      BY <1>1, <2>2, <3>1, AllocatedStays
    <3>3. CountsOK
      BY Counts
    <3>4. \A l \in Locations, s \in Skus : Missing(l, s)' = Allocated(l, s)' + InHand(r, l, s)'
      BY <1>1, <1>2, <1>3, <1>4, <2>1, <2>3, <2>4, <3>2, <3>3 DEF CountsOK
    <3> QED
      BY <1>1, <2>6, <3>4, OneBook
  <2>5. CASE f.call.op = "allocate"
    <3> DEFINE o == f.call.order
               k == f.call.location
    <3>1. o \in DOMAIN repo.orders /\ f.lines = repo.orders[o] /\ k \in Locations
      BY <1>1, <2>1, <2>5, FrameLines DEF Working, Works, Allocating, AfterSink
    <3>2. Announced(r) = <<StockAllocated(o, k)>>
      BY <2>5 DEF Announced, Announcement
    <3>3. ASSUME NEW l \in Locations, NEW s \in Skus
          PROVE  Missing(l, s)' = Allocated(l, s)' + InHand(r, l, s)'
      <4>1. Allocated(l, s)' = Allocated(l, s) +
              IF l = k THEN OnLines(repo.orders[o], s, DOMAIN repo.orders[o]) ELSE 0
        BY <1>1, <2>1, <2>2, <2>6, <3>1, <3>2, AllocatedMore
      <4>2. InHand(r, l, s) = IF l = k THEN TakenOf(r, s) ELSE 0
        BY <1>3, <2>3, <2>5
      <4>3. TakenOf(r, s) = OnLines(repo.orders[o], s, DOMAIN repo.orders[o])
        <5>1. Taken(r) = DOMAIN f.lines
          BY <2>1 DEF Taken
        <5>2. TakenOf(r, s) = OnLines(f.lines, s, Taken(r))
          BY <2>3, SoldOK DEF AllSold, Sold
        <5> QED
          BY <3>1, <5>1, <5>2
      <4>4. InHand(r, l, s)' = 0
        BY <1>3, <2>3
      <4>5. /\ Missing(l, s) = Allocated(l, s) + InHand(r, l, s) /\ Missing(l, s)' = Missing(l, s)
            /\ Allocated(l, s) \in Int /\ Allocated(l, s)' \in Int
        <5>1. CountsOK /\ CountsOK'
          BY Counts, PTL
        <5> QED
          BY <1>1, <1>2, <1>4, <2>1, <2>6, <5>1 DEF CountsOK
      <4> HIDE DEF o, k
      <4> QED
        BY <4>1, <4>2, <4>3, <4>4, <4>5
    <3> QED
      BY <1>1, <2>6, <3>3, OneBook
  <2> QED
    BY <2>4, <2>5
<1> QED
  BY <1>6, <1>7, <1>8, <1>9

LEMMA AccountedReceive ==
    ASSUME PoolSize = 1, IInv, IInv', WorkInv, Accounted,
           NEW r \in Requests, NEW c \in Calls, Receive(r, c)
    PROVE  Accounted'
<1>1. /\ frames'[r] = <<NewFrame(c)>> /\ UNCHANGED <<repo, sink>> /\ calls[r] = None
      /\ stock' = IF c.op = "stock" THEN [stock EXCEPT ![r] = c.levels] ELSE stock
      /\ calls' = [calls EXCEPT ![r] = c] /\ Busy = {}
      /\ \A q \in Requests \ {r} : frames'[q] = frames[q]
      /\ \A q \in Requests : frames[q] = <<>>
  BY NobodyBusy DEF Receive, IInv, TypeOK, Busy, logs
<1>2. /\ calls \in [Requests -> Calls \cup {None}] /\ stock \in [Objects -> Levels]
      /\ c # None /\ c \in AllCalls /\ r \notin Locations /\ r \notin DOMAIN InitialStock
  BY CallsAssumption, NamesAssumption, SeedAssumption DEF IInv, TypeOK, IsDict
<1>3. Backed'
  BY <1>1 DEF Accounted, Backed
<1>4. CountsOK /\ CountsOK'
  BY Counts, PTL
<1>5. ASSUME NEW l \in Locations, NEW s \in Skus
      PROVE  Allocated(l, s)' = Allocated(l, s)
  BY <1>1, ShopUnits DEF Allocated, AllocationsAt
<1>6. ASSUME NEW l \in Locations, NEW s \in Skus
      PROVE  Missing(l, s)' = Missing(l, s)
  <2> DEFINE f == Loss(l, s)
             h == Loss(l, s)'
             T == ObjectsOf(l)
             U == ObjectsOf(l)'
             mine == c.op = "stock" /\ c.location = l
  <2>1. r \notin T /\ U = IF mine THEN T \cup {r} ELSE T
    <3>1. r \notin T
      BY <1>1, <1>2 DEF ObjectsOf
    <3>2. \A x \in Objects \ {r} : x \in U <=> x \in T
      BY <1>1, <1>2 DEF ObjectsOf
    <3>3. r \in U <=> mine
      BY <1>1, <1>2 DEF ObjectsOf, Objects
    <3>4. T \subseteq Objects /\ U \subseteq Objects /\ r \in Objects
      BY DEF ObjectsOf, Objects
    <3> HIDE DEF T, U, mine
    <3> QED
      BY <3>1, <3>2, <3>3, <3>4
  <2>2. \A x \in T : Given(x)' = Given(x) /\ stock'[x] = stock[x]
    <3>1. \A x \in Requests \ {r} : calls'[x] = calls[x]
      BY <1>1, <1>2
    <3>2. \A x \in T : x \in Requests \cup DOMAIN InitialStock /\ x # r
      BY <2>1 DEF ObjectsOf
    <3>3. \A x \in T : Given(x)' = Given(x)
      BY <3>1, <3>2 DEF Given
    <3>4. \A x \in T : stock'[x] = stock[x]
      BY <1>1, <1>2, <3>2
    <3> QED
      BY <3>3, <3>4
  <2>3. /\ IsFiniteSet(T) /\ IntsOn(f, T) /\ IntsOn(h, U) /\ Missing(l, s) \in Int
        /\ Missing(l, s) = SumFunction(f) /\ Missing(l, s)' = SumFunction(h)
    BY <1>3, <1>4 DEF CountsOK, Accounted
  <2>4. h = [x \in U |-> Given(x)'[s] - stock'[x][s]]
    BY DEF Loss
  <2>5. CASE mine
    <3>1. OneMore(T, r, U) /\ r \in U /\ T \subseteq U
      BY <2>1, <2>5 DEF OneMore
    <3>2. Agree(f, h, T)
      BY <2>2, <2>4, <3>1 DEF Agree, Loss
    <3>3. h[r] = 0
      <4>1. Given(r)' = c.levels /\ stock'[r] = c.levels
        BY <1>1, <1>2, <2>5 DEF Given, Objects
      <4>2. c.levels[s] \in Int
        BY <1>2, <2>5, CallArguments
      <4> QED
        BY <2>4, <3>1, <4>1, <4>2
    <3> HIDE DEF f, h, T, U
    <3>4. SumFunction(h) = SumFunction(f) + h[r]
      BY <2>3, <3>1, <3>2, SumMore
    <3> QED
      BY <2>3, <3>3, <3>4
  <2>6. CASE ~mine
    <3>1. h = f
      BY <2>1, <2>2, <2>4, <2>6 DEF Loss
    <3> QED
      BY <2>3, <3>1
  <2> QED
    BY <2>5, <2>6
<1>7. ASSUME NEW l \in Locations, NEW s \in Skus
      PROVE  Missing(l, s)' = Allocated(l, s)' + InHand(r, l, s)'
  <2>1. Top(r)'.pc \in {"readProduct", "getOrder", "enter"}
    BY <1>1 DEF Top, NewFrame, FirstStep
  <2>2. InHand(r, l, s)' = 0
    BY <2>1 DEF InHand, Uncommitted, OpenSteps
  <2>3. Missing(l, s) = Allocated(l, s) /\ Allocated(l, s) \in Int
    BY <1>1, <1>4 DEF Accounted, StockAccounted, CountsOK
  <2> QED
    BY <1>5, <1>6, <2>2, <2>3
<1>8. Busy' = {r}
  BY <1>1 DEF Busy
<1> QED
  BY <1>3, <1>7, <1>8 DEF Accounted, StockAccounted

LEMMA AccountedInit == Init => Accounted
<1> SUFFICES ASSUME Init PROVE Accounted
  OBVIOUS
<1>1. /\ \A r \in Requests : calls[r] = None /\ frames[r] = <<>>
      /\ DOMAIN sink = {}
      /\ \A x \in DOMAIN InitialStock : x \in Objects => stock[x] = InitialStock[x]
  BY DEF Init
<1>2. IInv /\ Backed /\ Busy = {}
  BY <1>1, InitType DEF Backed, Busy
<1>3. ASSUME NEW l \in Locations, NEW s \in Skus
      PROVE  Missing(l, s) = Allocated(l, s)
  <2>1. /\ IsFiniteSet(ObjectsOf(l)) /\ IntsOn(Loss(l, s), ObjectsOf(l))
        /\ Missing(l, s) = SumFunction(Loss(l, s)) /\ Allocated(l, s) = SumFunction(Gain(l, s))
    BY <1>2, Counts DEF CountsOK
  <2>2. SumFunction(Gain(l, s)) = 0
    <3>1. DOMAIN Gain(l, s) = {}
      BY <1>1 DEF Gain, AllocationsAt
    <3> QED
      BY <3>1, SumNone
  <2>3. SumFunction(Loss(l, s)) = 0
    <3>1. CASE l \in DOMAIN InitialStock
      <4>1. ObjectsOf(l) = {l}
        BY <1>1, <3>1 DEF ObjectsOf, Objects
      <4>2. Loss(l, s)[l] = 0
        <5>1. InitialStock[l] \in [Skus -> Nat]
          BY <3>1, SeedAssumption DEF IsDict
        <5>2. Given(l) = InitialStock[l] /\ stock[l] = InitialStock[l]
          BY <1>1, <3>1 DEF Given, Objects
        <5> QED
          BY <4>1, <5>1, <5>2 DEF Loss
      <4> QED
        BY <2>1, <4>1, <4>2, SumOne
    <3>2. CASE l \notin DOMAIN InitialStock
      <4>1. DOMAIN Loss(l, s) = {}
        BY <1>1, <3>2 DEF Loss, ObjectsOf
      <4> QED
        BY <4>1, SumNone
    <3> QED
      BY <3>1, <3>2
  <2> QED
    BY <2>1, <2>2, <2>3
<1> QED
  BY <1>2, <1>3 DEF Accounted, StockAccounted

\* Served by one thread, and with every SKU on one line of an order only, stock is neither
\* lost nor created: between requests, what the Inventory objects of a location lack is
\* what was allocated and announced there, whatever was refused, replaced by a PUT or
\* allocated by a handler meanwhile (inventory.py allocate, allocate_stock.py 37-47).
THEOREM StockBalances ==
    ASSUME PoolSize = 1, EachSkuOnce
    PROVE  Spec => []StockAccounted
<1>1. AllInv /\ AllInv' /\ AllRecorded /\ Accounted /\ [Next]_vars => Accounted'
  <2> SUFFICES ASSUME AllInv, AllInv', AllRecorded, Accounted, [Next]_vars PROVE Accounted'
    OBVIOUS
  <2>1. IInv /\ IInv' /\ SerialInv /\ SerialInv' /\ PhaseInv /\ WorkInv /\ WorkInv'
    BY DEF AllInv
  <2>2. CASE UNCHANGED vars
    <3>1. \A l, s : Missing(l, s)' = Missing(l, s)
      BY <2>2 DEF vars, Missing, ObjectsOf, Given
    <3>2. \A l, s : Allocated(l, s)' = Allocated(l, s)
      BY <2>2, ShopUnits DEF vars, Allocated, AllocationsAt
    <3>3. UNCHANGED <<Busy, Uncommitted>>
      BY <2>2 DEF vars, Busy, Uncommitted, Top
    <3>4. \A r, l, s : InHand(r, l, s)' = InHand(r, l, s)
      BY <2>2, <3>3 DEF vars, InHand, TakenOf, Taken, Top
    <3>5. Backed' <=> Backed
      BY <2>2 DEF vars, Backed
    <3> QED
      BY <3>1, <3>2, <3>3, <3>4, <3>5 DEF Accounted, StockAccounted
  <2> QED
    BY <2>1, <2>2, AccountedStep, AccountedReceive DEF Next, AllServed
<1>2. IInv /\ SerialInv /\ (OneAtATime /\ PhaseInv) /\ WorkInv => AllInv
  BY DEF AllInv
<1>3. Accounted => StockAccounted
  BY DEF Accounted
<1> QED
  BY <1>1, <1>2, <1>3, AccountedInit, InPhase, InSerial, InWork, InRecord, Inductive, PTL DEF Spec
=============================================================================
