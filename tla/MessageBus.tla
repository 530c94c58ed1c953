----------------------------- MODULE MessageBus -----------------------------
(***************************************************************************)
(* The in-process bus of packages/workforce/core/communication, as a value: *)
(* a function from topics to the handlers subscribed to them, in order.     *)
(* A handler is named by who subscribed it.  publish calls every handler a  *)
(* topic has at that moment, synchronously up to the handler's first await, *)
(* and resolves when they all have settled; a topic nobody subscribed to    *)
(* swallows the message and an error of a handler never reaches the         *)
(* publisher.  Counters and envelopes are left out.                         *)
(***************************************************************************)
EXTENDS Sequences, FiniteSets

subscribe(subscriptions, topic, handler) ==
    [subscriptions EXCEPT ![topic] = Append(@, handler)]

\* All handlers of the topic go, whoever they belong to.
unsubscribe(subscriptions, topic) == [subscriptions EXCEPT ![topic] = << >>]

\* How many times a message published on the topic is handed to handler h.
Deliveries(subscriptions, topic, h) ==
    Cardinality({i \in DOMAIN subscriptions[topic] : subscriptions[topic][i] = h})

Handlers(subscriptions, topic) ==
    {subscriptions[topic][i] : i \in DOMAIN subscriptions[topic]}
=============================================================================
