------------------------------ MODULE Examples ------------------------------
(***************************************************************************)
(* The services of the examples in their macro form: each handler and each *)
(* app a definition, the kinds of messages those its code tells apart.     *)
(***************************************************************************)
EXTENDS Handlers

Order == {"order"}

-----------------------------------------------------------------------------
(* The guides *)

RetriesCharge ==
    [charged |-> <<Ack>>, held |-> <<RetryAfter>>, unreachable |-> <<Retry>>, declined |-> <<Drop>>]
RetriesReview == On(DOMAIN RetriesCharge, Ack)
Retries ==
    App(<<MaxAttempts(Subscriber("payments-workers", "payments", RetriesCharge), 5, "payments-dead"),
          Subscriber("payments-dead-review", "payments-dead", RetriesReview)>>,
        Feed("payments", DOMAIN RetriesCharge))

OrderingPost == On({"entry"}, Publishes(OrderingKey(Outbound("posted", "postings"))))
OrderingNotify == Outbound("statement", "statements")
UnderTheEntrysKey(send) == UnderDeliveredKey(send)
Ordering ==
    [App(<<WorkersByKey(Subscriber("ledger-posting", "ledger", OrderingPost), 8),
           Subscriber("ledger-statements", "ledger",
                      On({"entry"}, Publishes(UnderTheEntrysKey(OrderingNotify))))>>,
         KeyedFeed("ledger", {"entry"}))
     EXCEPT !.keys = [ledger |-> "own", postings |-> "own", statements |-> "own"]]

BatchesLoad == [click |-> <<Ack>>, stranger |-> <<Retry>>, nowhere |-> <<Drop>>]
Batches ==
    App(<<MaxAttempts(Batch(Subscriber("clicks-loader", "clicks", BatchesLoad), 100), 5, "clicks-dead")>>,
        Feed("clicks", DOMAIN BatchesLoad))

TakeOrder == [order |-> <<Ack>>, free |-> <<Drop>>]
GettingStarted ==
    App(<<Subscriber("orders-workers", "orders", TakeOrder)>>, Feed("orders", DOMAIN TakeOrder))

ProductionCharge == [payment |-> <<Ack>>, free |-> <<Drop>>]
Production ==
    App(<<MaxAttempts(Bare("payments-workers", ProductionCharge), 5, "payments-dead")>>,
        Feed("payments-workers", DOMAIN ProductionCharge))

Receipt == Outbound("receipt", "receipts")
Bill == Publishes(Outbound("invoice", "invoices"))
Billed ==
    App(<<Subscriber("orders-receipts", "orders", On(Order, Publishes(Receipt))),
          Subscriber("orders-billing", "orders", On(Order, Bill))>>,
        Feed("orders", Order))
Publishing == [Billed EXCEPT !.announce = {Input("services", "started", "orders", <<>>)}]

TopicsAndSubscriptions ==
    App(<<Subscriber("orders-billing", "orders", On(Order, Ack)),
          Subscriber("orders-shipping", "orders", On(Order, Ack)),
          Bare("orders-audit", On(Order, Ack)),
          Bare("orders-reports", On(Order, Ack))>>,
        UNION {Feed(t, Order) : t \in {"orders", "orders-audit", "orders-reports"}})

SendRefund ==
    LET refunded == Outbound("refunded", "refunds-done")
    IN [refund |-> <<Publishes(refunded)>>, empty |-> <<Drop>>, large |-> <<RetryAfter>>]
Testing ==
    App(<<MaxAttempts(Subscriber("refunds-workers", "refunds", SendRefund), 5, "refunds-review")>>,
        Feed("refunds", DOMAIN SendRefund))

Render == [request |-> <<Ack>>, late |-> <<RetryAfter>>]
FlowControl ==
    App(<<Subscriber("reports-renderer", "reports", Render)>>, Feed("reports", DOMAIN Render))

-----------------------------------------------------------------------------
(* Settlement *)

Reserve == [order |-> <<Ack>>, empty |-> <<Drop>>, sold_out |-> <<Retry>>]
Settlement ==
    App(<<MaxAttempts(Subscriber("orders-workers", "orders", Reserve), 5, "orders-dead")>>,
        Feed("orders", DOMAIN Reserve))

ReserveThrice == [order |-> <<Ack>>, sold_out |-> <<Retry, Retry, Drop>>]
SettlementAttempts ==
    App(<<MaxAttempts(Subscriber("orders-workers", "orders", ReserveThrice), 5, "orders-dead")>>,
        Feed("orders", DOMAIN ReserveThrice))

Charge == [payment |-> <<Ack>>, refused |-> <<Retry>>]
OnDeadLetter == On(DOMAIN Charge, Ack)
SettlementDeadLetters ==
    App(<<MaxAttempts(Subscriber("payments-workers", "payments", Charge), 5, "payments-dead"),
          Subscriber("payments-dead-audit", "payments-dead", OnDeadLetter)>>,
        Feed("payments", DOMAIN Charge))

Reconcile == [payment |-> <<Ack>>, unsettled |-> <<RetryAfter>>]
SettlementRetryAfter ==
    App(<<Subscriber("payments-workers", "payments", Reconcile)>>, Feed("payments", DOMAIN Reconcile))

-----------------------------------------------------------------------------
(* Publishing *)

PublishingHeaders ==
    LET ship == WithHeader(Outbound("shipment", "shipments"), "tenant", "delivered")
    IN App(<<Bare("orders-workers", On(Order, Publishes(ship)))>>,
           Feed("orders-workers", Order) \cup
             {Input("orders-workers", "order", "a", [tenant |-> "acme"])})

OrderingHeader ==
    LET ship == WithHeader(Outbound("shipment", "shipments"), PartitionKey, "own")
    IN [App(<<Bare("orders-workers", On(Order, Publishes(ship)))>>, Feed("orders-workers", Order))
        EXCEPT !.keys = [shipments |-> "own"]]

OrderingKeyed ==
    LET confirm == OrderingKey(Outbound("confirmation", "confirmations"))
    IN [App(<<Bare("orders-workers", On(Order, Publishes(confirm)))>>, Feed("orders-workers", Order))
        EXCEPT !.keys = [confirmations |-> "own"]]

OrderingPolicy ==
    LET book == UnderPolicy(Outbound("entry", "ledger"), "ledger")
    IN [App(<<Bare("orders-workers", On(Order, Publishes(book)))>>, Feed("orders-workers", Order))
        EXCEPT !.keys = [ledger |-> "ledger"]]

ReplyUnderTheOrdersKey(send) == UnderDeliveredKey(send)
OrderingTransform ==
    [App(<<Bare("orders-workers", On(Order, Publishes(ReplyUnderTheOrdersKey(Receipt))))>>,
         KeyedFeed("orders-workers", Order))
     EXCEPT !.keys = [t \in {"orders-workers", "receipts"} |-> "own"]]

PublishingOrdering ==
    App(<<Subscriber("ordering-order-events-workers", "ordering-order-events", On({"event"}, Ack))>>,
        KeyedFeed("ordering-order-events", {"event"}))

-----------------------------------------------------------------------------
(* The broker, its subscriptions, and testing *)

Place == On(Order, Ack)
Placed(reg) == App(<<reg>>, Feed(reg.topic, Order))
Named(body) == Bare("orders-workers", body)
Created(body) == Subscriber("orders-workers", "orders", body)

Broker == Placed(Named(Place))
BrokerConfig == Placed(Named(Place))
BrokerEmulator == Placed(Subscriber("emulator-orders-workers", "emulator-orders", Place))

BrokerErrors ==
    LET ship == OrElse(WithHeader(Outbound("shipment", "shipments"), "note", "own"), "drop")
    IN App(<<Bare("orders-workers", On(Order, Publishes(ship)))>>,
           Feed("orders-workers", Order) \cup {Input("orders-workers", "order", Oversize, <<>>)})

BrokerPrelude == App(<<Created(On(Order, Publishes(Receipt)))>>, Feed("orders", Order))
BrokerShutdown ==
    App(<<Named(On(Order, Publishes(Outbound("shipment", "shipments"))))>>, Feed("orders-workers", Order))
BrokerStartup == Placed(MaxAttempts(Created(Place), 5, "orders-dead"))

Subscriptions == Placed(Named(Place))
SubscriptionsName == Placed(Named(Place))
SubscriptionsBatches == Placed(Batch(Named(Place), 50))
SubscriptionsDescriptor ==
    App(<<Created(Place), Subscriber("orders-audit", "orders", Place)>>, Feed("orders", Order))

FlowSend == [invoice |-> <<Ack>>, pending |-> <<RetryAfter>>]
SubscriptionsFlow ==
    App(<<Subscriber("flow-orders-workers", "flow-orders", On(Order, Ack)),
          Subscriber("flow-reports-workers", "flow-reports", On({"report"}, Ack)),
          Subscriber("flow-invoices-workers", "flow-invoices", FlowSend)>>,
        Feed("flow-orders", Order) \cup Feed("flow-reports", {"report"})
          \cup Feed("flow-invoices", DOMAIN FlowSend))

TestingCharge == [payment |-> <<Ack>>, empty |-> <<Drop>>, unsettled |-> <<RetryAfter>>]
TestingApp ==
    App(<<MaxAttempts(Subscriber("payments-workers", "payments", TestingCharge), 5, "payments-dead")>>,
        Feed("payments", DOMAIN TestingCharge))

Accept == [payment |-> <<Ack>>, empty |-> <<Drop>>]
TestingLive ==
    App(<<Subscriber("testing-live-payments-workers", "testing-live-payments", Accept)>>,
        Feed("testing-live-payments", DOMAIN Accept))

AsyncApi ==
    [App(<<Bare("orders-workers", On(Order, Publishes(UnderPolicy(Receipt, "receipts"))))>>,
         Feed("orders-workers", Order))
     EXCEPT !.keys = [receipts |-> "receipts"]]

Services ==
    <<Retries, Ordering, Batches, GettingStarted, Production, Publishing,
      TopicsAndSubscriptions, Testing, FlowControl, Settlement, SettlementAttempts,
      SettlementDeadLetters, SettlementRetryAfter, Billed, PublishingHeaders,
      OrderingHeader, OrderingKeyed, OrderingPolicy, OrderingTransform,
      PublishingOrdering, Broker, BrokerConfig, BrokerEmulator, BrokerErrors,
      BrokerPrelude, BrokerShutdown, BrokerStartup, Subscriptions, SubscriptionsName,
      SubscriptionsBatches, SubscriptionsDescriptor, SubscriptionsFlow, TestingApp,
      TestingLive, AsyncApi>>
================================================================================
