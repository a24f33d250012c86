--------------------------- MODULE ManualExamples ---------------------------
(***************************************************************************)
(* The services of the examples in their manual form, read off it: a       *)
(* handler is a type whose handle answers Ok or an outcome, and a          *)
(* registration is built step by step.                                     *)
(***************************************************************************)
EXTENDS Handlers

Ok == Settles("ack")
Err(outcome) == Settles(outcome)
OkWith(reply) == [sends |-> <<reply>>, settle |-> "ack"]

\* The message is published, and a failure mapped to the outcome.
OkOnceSent(send, outcome) == OkWith(OrElse(send, outcome))

Handles(kind, work) == On({kind}, work)
Orders(work) == Handles("order", work)

-----------------------------------------------------------------------------
(* The guides *)

AskTheBank == [charged |-> Ok, held |-> Err("retry_after"), unreachable |-> Err("retry"),
               declined |-> Err("drop")]
RetriesCharge == [answer \in DOMAIN AskTheBank |-> <<AskTheBank[answer]>>]
RetriesReview == On(DOMAIN AskTheBank, Ok)
Retries ==
    LET charge == Subscriber("payments-workers", "payments", RetriesCharge)
        review == Subscriber("payments-dead-review", "payments-dead", RetriesReview)
    IN App(<<MaxAttempts(charge, 5, "payments-dead"), review>>, Feed("payments", DOMAIN AskTheBank))

OrderingPost ==
    Handles("entry", OkOnceSent(OrderingKey(Outbound("posted", "postings")), "retry"))
OrderingNotify(reply) == Handles("entry", OkWith(reply))
Statement == Outbound("statement", "statements")
UnderTheEntrysKey(reply) == UnderDeliveredKey(reply)
Ordering ==
    LET post == Subscriber("ledger-posting", "ledger", OrderingPost)
        notify == Subscriber("ledger-statements", "ledger", OrderingNotify(UnderTheEntrysKey(Statement)))
    IN [App(<<WorkersByKey(post, 8), notify>>, KeyedFeed("ledger", {"entry"}))
        EXCEPT !.keys = [t \in {"ledger", "postings", "statements"} |-> "own"]]

BatchesLoad == [click |-> <<Ok>>, stranger |-> <<Err("retry")>>, nowhere |-> <<Err("drop")>>]
Batches ==
    LET load == Subscriber("clicks-loader", "clicks", BatchesLoad)
    IN App(<<MaxAttempts(Batch(load, 100), 5, "clicks-dead")>>, Feed("clicks", DOMAIN BatchesLoad))

TakeOrder == [order |-> <<Ok>>, free |-> <<Err("drop")>>]
GettingStarted ==
    LET takes == Subscriber("orders-workers", "orders", TakeOrder)
    IN App(<<takes>>, Feed(takes.topic, DOMAIN TakeOrder))

ProductionCharge == [payment |-> <<Ok>>, free |-> <<Err("drop")>>]
Production ==
    LET charge == Bare("payments-workers", ProductionCharge)
    IN App(<<MaxAttempts(charge, 5, "payments-dead")>>, Feed(charge.topic, DOMAIN charge.body))

Receipt == Outbound("receipt", "receipts")
Bill == Orders(OkOnceSent(Outbound("invoice", "invoices"), "retry"))
Billed ==
    LET receipts == Subscriber("orders-receipts", "orders", Orders(OkWith(Receipt)))
        billing == Subscriber("orders-billing", "orders", Bill)
    IN App(<<receipts, billing>>, Feed("orders", {"order"}))
Started == Input("services", "started", "orders", <<>>)
Publishing == [Billed EXCEPT !.announce = {Started}]

TopicsAndSubscriptions ==
    LET bill == Subscriber("orders-billing", "orders", Orders(Ok))
        ship == Subscriber("orders-shipping", "orders", Orders(Ok))
        audit == Bare("orders-audit", Orders(Ok))
        report == Bare("orders-reports", Orders(Ok))
        regs == <<bill, ship, audit, report>>
    IN App(regs, UNION {Feed(regs[r].topic, {"order"}) : r \in DOMAIN regs})

SendRefund ==
    [refund |-> <<OkWith(Outbound("refunded", "refunds-done"))>>, empty |-> <<Err("drop")>>,
     large |-> <<Err("retry_after")>>]
Testing ==
    LET refunds == Subscriber("refunds-workers", "refunds", SendRefund)
    IN App(<<MaxAttempts(refunds, 5, "refunds-review")>>, Feed("refunds", DOMAIN SendRefund))

Render == [request |-> <<Ok>>, late |-> <<Err("retry_after")>>]
FlowControl ==
    LET reports == Subscriber("reports-renderer", "reports", Render)
    IN App(<<reports>>, Feed("reports", DOMAIN Render))

-----------------------------------------------------------------------------
(* Settlement *)

Reserve == [order |-> <<Ok>>, empty |-> <<Err("drop")>>, sold_out |-> <<Err("retry")>>]
Settlement ==
    LET reserve == Subscriber("orders-workers", "orders", Reserve)
    IN App(<<MaxAttempts(reserve, 5, "orders-dead")>>, Feed("orders", DOMAIN Reserve))

ReserveThrice == [order |-> <<Ok>>, sold_out |-> <<Err("retry"), Err("retry"), Err("drop")>>]
SettlementAttempts ==
    LET reserve == Subscriber("orders-workers", "orders", ReserveThrice)
    IN App(<<MaxAttempts(reserve, 5, "orders-dead")>>, Feed("orders", DOMAIN ReserveThrice))

Charge == [payment |-> <<Ok>>, refused |-> <<Err("retry")>>]
Payments == Subscriber("payments-workers", "payments", Charge)
OnDeadLetter == On(DOMAIN Charge, Ok)
DeadLetters == Subscriber("payments-dead-audit", "payments-dead", OnDeadLetter)
SettlementDeadLetters ==
    App(<<MaxAttempts(Payments, 5, "payments-dead"), DeadLetters>>, Feed("payments", DOMAIN Charge))

Reconcile == [payment |-> <<Ok>>, unsettled |-> <<Err("retry_after")>>]
SettlementRetryAfter ==
    LET reconcile == Subscriber("payments-workers", "payments", Reconcile)
    IN App(<<reconcile>>, Feed("payments", DOMAIN Reconcile))

-----------------------------------------------------------------------------
(* Publishing *)

\* One handler under the name of a subscription, fed with plain orders.
OneBare(work) ==
    App(<<Bare("orders-workers", Orders(work))>>, Feed("orders-workers", {"order"}))
WithKeys(app, keys) == [app EXCEPT !.keys = keys]

ShipWithTenant ==
    OkOnceSent(WithHeader(Outbound("shipment", "shipments"), "tenant", "delivered"), "retry")
PublishingHeaders ==
    [OneBare(ShipWithTenant) EXCEPT !.inputs =
       @ \cup {Input("orders-workers", "order", "a", [tenant |-> "acme"])}]

ShipUnderHeader ==
    OkOnceSent(WithHeader(Outbound("shipment", "shipments"), PartitionKey, "own"), "retry")
OrderingHeader == WithKeys(OneBare(ShipUnderHeader), [shipments |-> "own"])

Confirm == OkOnceSent(OrderingKey(Outbound("confirmation", "confirmations")), "retry")
OrderingKeyed == WithKeys(OneBare(Confirm), [confirmations |-> "own"])

Book == Outbound("entry", "ledger")
OrderingPolicy == WithKeys(OneBare(OkWith(UnderPolicy(Book, "ledger"))), [ledger |-> "ledger"])

ReplyUnderTheOrdersKey(reply) == UnderDeliveredKey(reply)
OrderingTransform ==
    LET receipt == OneBare(OkWith(ReplyUnderTheOrdersKey(Receipt)))
    IN WithKeys([receipt EXCEPT !.inputs = KeyedFeed("orders-workers", {"order"})],
                [t \in {"orders-workers", "receipts"} |-> "own"])

OrderEvents ==
    Subscriber("ordering-order-events-workers", "ordering-order-events", Handles("event", Ok))
PublishingOrdering == App(<<OrderEvents>>, KeyedFeed(OrderEvents.topic, {"event"}))

-----------------------------------------------------------------------------
(* The broker, its subscriptions, and testing *)

OneReg(reg) == App(<<reg>>, Feed(reg.topic, DOMAIN reg.body))
CreatedOrders(work) == Subscriber("orders-workers", "orders", Orders(work))

Broker == OneBare(Ok)
BrokerConfig == OneBare(Ok)
BrokerEmulator == OneReg(Subscriber("emulator-orders-workers", "emulator-orders", Orders(Ok)))

ShipWithNote == OkOnceSent(WithHeader(Outbound("shipment", "shipments"), "note", "own"), "drop")
BrokerErrors ==
    [OneBare(ShipWithNote) EXCEPT !.inputs =
       @ \cup {Input("orders-workers", "order", Oversize, <<>>)}]

BrokerPrelude == OneReg(CreatedOrders(OkWith(Receipt)))
BrokerShutdown == OneBare(OkWith(Outbound("shipment", "shipments")))
BrokerStartup == OneReg(MaxAttempts(CreatedOrders(Ok), 5, "orders-dead"))

Subscriptions == OneBare(Ok)
SubscriptionsName == OneBare(Ok)
SubscriptionsBatches == OneReg(Batch(Bare("orders-workers", Orders(Ok)), 50))
AuditOf(topic) == Subscriber("orders-audit", topic, Orders(Ok))
SubscriptionsDescriptor ==
    App(<<CreatedOrders(Ok), AuditOf("orders")>>, Feed("orders", {"order"}))

FlowOrders == Subscriber("flow-orders-workers", "flow-orders", Orders(Ok))
FlowReports == Subscriber("flow-reports-workers", "flow-reports", Handles("report", Ok))
FlowSend == [invoice |-> <<Ok>>, pending |-> <<Err("retry_after")>>]
FlowInvoices == Subscriber("flow-invoices-workers", "flow-invoices", FlowSend)
SubscriptionsFlow ==
    LET regs == <<FlowOrders, FlowReports, FlowInvoices>>
    IN App(regs, UNION {Feed(regs[r].topic, DOMAIN regs[r].body) : r \in DOMAIN regs})

TestingCharge == [payment |-> <<Ok>>, empty |-> <<Err("drop")>>, unsettled |-> <<Err("retry_after")>>]
TestingApp ==
    OneReg(MaxAttempts(Subscriber("payments-workers", "payments", TestingCharge), 5, "payments-dead"))

Accept == [payment |-> <<Ok>>, empty |-> <<Err("drop")>>]
TestingLive ==
    OneReg(Subscriber("testing-live-payments-workers", "testing-live-payments", Accept))

AsyncApi ==
    WithKeys(OneBare(OkWith(UnderPolicy(Receipt, "receipts"))), [receipts |-> "receipts"])

Services ==
    <<Retries, Ordering, Batches, GettingStarted, Production, Publishing,
      TopicsAndSubscriptions, Testing, FlowControl, Settlement, SettlementAttempts,
      SettlementDeadLetters, SettlementRetryAfter, Billed, PublishingHeaders,
      OrderingHeader, OrderingKeyed, OrderingPolicy, OrderingTransform,
      PublishingOrdering, Broker, BrokerConfig, BrokerEmulator, BrokerErrors,
      BrokerPrelude, BrokerShutdown, BrokerStartup, Subscriptions, SubscriptionsName,
      SubscriptionsBatches, SubscriptionsDescriptor, SubscriptionsFlow, TestingApp,
      TestingLive, AsyncApi>>
================================================================================
