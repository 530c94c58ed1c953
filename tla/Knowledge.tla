------------------------------ MODULE Knowledge ------------------------------
(***************************************************************************)
(* What the workers of a department know: the department's KnowledgeBase,   *)
(* which only grows, and each worker's WorkerMemory, a Map that seeding     *)
(* fills by domain and absorbing by the millisecond.  A newcomer retrieves, *)
(* is seeded and only then subscribes; a colleague stores what it shares,   *)
(* broadcasts it, and the department's listener sends it once more to one   *)
(* peer after the other; a worker that recovers from an error absorbs what  *)
(* the base has on it; a leaver stores all it knows.  Each action is the    *)
(* stretch from one await to the next.                                      *)
(*                                                                          *)
(* Milliseconds never come back, so that a Map keyed by them is a set of    *)
(* settled entries and the one entry of the current millisecond.            *)
(*                                                                          *)
(* Company says who is hired and fired when, and what a second firing does: *)
(* here hiring and firing are left open, once for each worker.  BaseWorker   *)
(* says when a worker recovers: here it may at any time.  Left out: the     *)
(* episodes and procedures a leaver hands over.                             *)
(***************************************************************************)
EXTENDS Integers, SequencesExt

CONSTANTS Item,        \* what can be shared, once each
          Domain,      \* item -> its domain
          Confidence,  \* item -> in percent
          Department,  \* the domain a leaver's knowledge is stored under
          Covered,     \* domains that match the newcomers' specializations
          Limit,       \* most items retrieve returns (20)
          Headcount,   \* bound: workers ever hired, 1 .. Headcount in Map order
          MaxLeavers,  \* bound: terminations
          Recovering   \* bound: workers whose work ever fails

Worker == 1 .. Headcount
Domains == {Domain[k] : k \in Item} \cup {Department}

ASSUME KnowledgeAssumption ==
    /\ IsFiniteSet(Item) /\ Limit \in Nat /\ Headcount \in Nat \ {0}
    /\ Confidence \in [Item -> Nat]

VARIABLES base,      \* KnowledgeBase.items: the item, its domain, its confidence
          memory,    \* worker -> semanticStore: settled items, current item
          place,     \* worker -> where it is in its employment
          onTopic,   \* workers subscribed to the department's topic
          share,     \* item -> the shareKnowledge call about it
          inbox,     \* worker -> items of direct messages whose handler waits
          thisMs,    \* items whose share was under way in this millisecond
          seen,      \* history: worker -> length of base at its retrieve
          tooEarly,  \* history: worker -> items sent to it before it listened
          absorbed,  \* history: worker -> shared items it absorbed
          met,       \* history: pairs of items shared in one millisecond
          upset      \* history: worker -> items under way when it recovered

vars == <<base, memory, place, onTopic, share, inbox, thisMs,
          seen, tooEarly, absorbed, met, upset>>
history == <<seen, tooEarly, absorbed, met, upset>>

Unshared == [by |-> 0, at |-> "unshared", told |-> 0]

\* The first worker has been hired with the department.
Init == /\ base = << >> /\ memory = [w \in Worker |-> [settled |-> {}, current |-> {}]]
        /\ place = [w \in Worker |-> IF w = 1 THEN "active" ELSE "none"]
        /\ onTopic = {1}
        /\ share = [k \in Item |-> Unshared]
        /\ inbox = [w \in Worker |-> {}]
        /\ thisMs = {}
        /\ seen = [w \in Worker |-> 0] /\ tooEarly = [w \in Worker |-> {}]
        /\ absorbed = [w \in Worker |-> {}] /\ met = {}
        /\ upset = [w \in Worker |-> {}]

Known(w) == memory[w].settled \cup memory[w].current
Entry(k, d, c) == [item |-> k, domain |-> d, confidence |-> c]
ItemsIn(s) == {s[i].item : i \in DOMAIN s}

\* department.workers, and who listens on its own topic.
OnTheBooks == {w \in Worker : place[w] \notin {"none", "left"}}
Gone == {w \in Worker : place[w] \in {"leaving", "left"}}
Listening(w) == place[w] \in {"active", "leaving"}

-----------------------------------------------------------------------------
(* Arrival                                                                 *)

\* a comes before b in retrieve's stable sort by falling confidence.
Outranks(s, a, b) == \/ s[a].confidence > s[b].confidence
                     \/ s[a].confidence = s[b].confidence /\ a < b

\* The positions in s of what KnowledgeBase.retrieve returns.
retrieve(s) ==
    LET fits == {i \in DOMAIN s : s[i].domain \in Covered}
    IN  {i \in fits : Cardinality({j \in fits : Outranks(s, j, i)}) < Limit}

\* seedFromKnowledge: of the items of a domain the last one stays.
seedFromKnowledge(s, picked) ==
    {s[i].item : i \in {i \in picked : \A j \in picked \ {i} :
                            s[j].domain = s[i].domain => Outranks(s, j, i)}}

Hire(w) == /\ place[w] = "none" /\ \A v \in 1 .. w - 1 : place[v] # "none"
           /\ place' = [place EXCEPT ![w] = "hired"]
           /\ UNCHANGED <<base, memory, onTopic, share, inbox, thisMs, history>>

Retrieve(w) == /\ place[w] = "hired"
               /\ place' = [place EXCEPT ![w] = "retrieved"]
               /\ seen' = [seen EXCEPT ![w] = Len(base)]
               /\ UNCHANGED <<base, memory, onTopic, share, inbox, thisMs,
                              tooEarly, absorbed, met, upset>>

\* What the base held at the time of retrieve, which is still its beginning.
Snapshot(w) == SubSeq(base, 1, seen[w])

\* seedFromKnowledge and the two subscriptions.
Subscribe(w) ==
    /\ place[w] = "retrieved"
    /\ memory' = [memory EXCEPT ![w].settled =
            seedFromKnowledge(Snapshot(w), retrieve(Snapshot(w)))]
    /\ place' = [place EXCEPT ![w] = "active"]
    /\ onTopic' = onTopic \cup {w}
    /\ UNCHANGED <<base, share, inbox, thisMs, history>>

-----------------------------------------------------------------------------
(* Sharing                                                                 *)

\* An absorb that keys what it is told by its domain.
absorb_ByDomain(m, k) == [settled |-> {j \in m.settled : Domain[j] # Domain[k]},
                          current |-> {k}]

\* The key is Date.now().
absorb(m, k) == [settled |-> m.settled, current |-> {k}]

\* a begins, or happens, in this millisecond.
Begin(a) == /\ thisMs' = thisMs \cup {a}
            /\ met' = met \cup {{a, b} : b \in thisMs \ {a}}

\* A shareKnowledge that only tells the peers.
ShareKnowledge_NotStored(w, k) ==
    /\ place[w] \in {"active", "leaving", "left"} /\ share[k] = Unshared
    /\ share' = [share EXCEPT ![k] = [by |-> w, at |-> "store", told |-> 0]]
    /\ Begin(k)
    /\ UNCHANGED <<base, memory, place, onTopic, inbox, seen, tooEarly, absorbed,
                   upset>>

\* shareKnowledge up to the await of store.  Work in flight outlives terminate.
ShareKnowledge(w, k) ==
    /\ place[w] \in {"active", "leaving", "left"} /\ share[k] = Unshared
    /\ base' = Append(base, Entry(k, Domain[k], Confidence[k]))
    /\ share' = [share EXCEPT ![k] = [by |-> w, at |-> "store", told |-> 0]]
    /\ Begin(k)
    /\ UNCHANGED <<memory, place, onTopic, inbox, seen, tooEarly, absorbed, upset>>

\* Everyone on the topic absorbs in the publisher's stretch, the sharer too.
BroadcastKnowledge(k) ==
    /\ share[k].at = "store"
    /\ memory' = [w \in Worker |-> IF w \in onTopic THEN absorb(memory[w], k)
                                   ELSE memory[w]]
    /\ absorbed' = [w \in Worker |-> IF w \in onTopic THEN absorbed[w] \cup {k}
                                     ELSE absorbed[w]]
    /\ share' = [share EXCEPT ![k].at = "broadcast"]
    /\ UNCHANGED <<base, place, onTopic, inbox, thisMs, seen, tooEarly, met, upset>>

Left(k) == {w \in OnTheBooks : w # share[k].by /\ w > share[k].told}

\* The listener awaits each peer before it goes on to the next entry of the
\* Map; a peer that does not listen yet is told in vain.
Rebroadcast(k) ==
    /\ share[k].at = "broadcast" /\ \A w \in Worker : k \notin inbox[w]
    /\ \/ \E w \in Left(k) :
            /\ \A v \in Left(k) : w <= v
            /\ share' = [share EXCEPT ![k].told = w]
            /\ IF Listening(w)
               THEN /\ inbox' = [inbox EXCEPT ![w] = @ \cup {k}]
                    /\ UNCHANGED tooEarly
               ELSE /\ tooEarly' = [tooEarly EXCEPT ![w] = @ \cup {k}]
                    /\ UNCHANGED inbox
       \/ /\ Left(k) = {}
          /\ share' = [share EXCEPT ![k].at = "done"]
          /\ UNCHANGED <<inbox, tooEarly>>
    /\ UNCHANGED <<base, memory, place, onTopic, thisMs, seen, absorbed, met, upset>>

\* handleMessage has stored the message and absorbs.
Absorb(w, k) ==
    /\ k \in inbox[w]
    /\ inbox' = [inbox EXCEPT ![w] = @ \ {k}]
    /\ memory' = [memory EXCEPT ![w] = absorb(@, k)]
    /\ absorbed' = [absorbed EXCEPT ![w] = @ \cup {k}]
    /\ UNCHANGED <<base, place, onTopic, share, thisMs, seen, tooEarly, met, upset>>

\* recover injects the items the base has on an error, one await for each; any
\* item may match the error, which may come when work in flight fails.
Inject(w, k) ==
    /\ w \in Recovering /\ place[w] \in {"active", "leaving", "left"}
    /\ k \in ItemsIn(base)
    /\ memory' = [memory EXCEPT ![w] = absorb(@, k)]
    /\ upset' = [upset EXCEPT ![w] = @ \cup (thisMs \ {k})]
    /\ UNCHANGED <<base, place, onTopic, share, inbox, thisMs,
                   seen, tooEarly, absorbed, met>>

-----------------------------------------------------------------------------
(* Departure                                                               *)

\* terminate: exportAll and bulkStore, all under the department.  What others
\* store meanwhile is taken to come before or after all of it.
Terminate(w) ==
    /\ place[w] = "active" /\ Cardinality(Gone) < MaxLeavers
    /\ place' = [place EXCEPT ![w] = "leaving"]
    /\ LET all == SetToSeq(Known(w))
       IN  base' = base \o [i \in DOMAIN all |-> Entry(all[i], Department, 85)]
    /\ UNCHANGED <<memory, onTopic, share, inbox, thisMs, history>>

\* A worker that leaves and goes on listening.
Leave_Listening(w) ==
    /\ place[w] = "leaving"
    /\ place' = [place EXCEPT ![w] = "left"]
    /\ UNCHANGED <<base, memory, onTopic, share, inbox, thisMs, history>>

\* The department's topic is given up for everyone.
Leave(w) == /\ place[w] = "leaving"
            /\ place' = [place EXCEPT ![w] = "left"]
            /\ onTopic' = {}
            /\ UNCHANGED <<base, memory, share, inbox, thisMs, history>>

\* The next millisecond: what is not over goes on in it.
Tick == /\ memory' = [w \in Worker |-> [settled |-> Known(w), current |-> {}]]
        /\ thisMs' = {k \in Item : share[k].at \in {"store", "broadcast"}}
        /\ UNCHANGED <<base, place, onTopic, share, inbox, history>>

-----------------------------------------------------------------------------
Next == \/ Tick
        \/ \E w \in Worker :
             \/ Hire(w) \/ Retrieve(w) \/ Subscribe(w)
             \/ Terminate(w) \/ Leave(w)
             \/ \E k \in Item : ShareKnowledge(w, k) \/ Absorb(w, k) \/ Inject(w, k)
        \/ \E k \in Item : BroadcastKnowledge(k) \/ Rebroadcast(k)

Spec == Init /\ [][Next]_vars

-----------------------------------------------------------------------------
\* The knowledge of a department is well formed; only who is reachable is on
\* its topic.
TypeOK ==
    /\ ItemsIn(base) \subseteq Item
    /\ \A i \in DOMAIN base : base[i].domain \in Domains
    /\ memory \in [Worker -> [settled : SUBSET Item, current : SUBSET Item]]
    /\ place \in [Worker -> {"none", "hired", "retrieved", "active", "leaving", "left"}]
    /\ onTopic \subseteq {w \in Worker : Listening(w)}
    /\ share \in [Item -> [by : 0 .. Headcount, told : 0 .. Headcount,
                           at : {"unshared", "store", "broadcast", "done"}]]
    /\ inbox \in [Worker -> SUBSET Item]
    /\ thisMs \subseteq Item

\* However arrivals, departures and shares interleave: once a share is over,
\* every active colleague has absorbed the item, or found the base holding it
\* when it arrived, or was sent it in the gap between its retrieve and its
\* subscription (shareKnowledge, which stores before it broadcasts; onboard;
\* the re-broadcast over a Map that changes on the way).
OnlyTheGapLoses ==
    \A w \in Worker, k \in Item :
        place[w] = "active" /\ share[k].at = "done" /\ share[k].by # w =>
            k \in absorbed[w] \cup ItemsIn(Snapshot(w)) \cup tooEarly[w]

\* A shared item that a worker absorbed stays known, although memory is keyed
\* by the millisecond, unless in one of the milliseconds it took to share this
\* one another share was under way, or the worker recovered from an error and
\* was injected another item (WorkerMemory.absorb, called twice for each share
\* and once for each injected item).
ForgottenOnlyUnderLoad ==
    \A w \in Worker : \A k \in absorbed[w] \ Known(w) :
        (\E j \in Item \ {k} : {j, k} \in met) \/ k \in upset[w]
=============================================================================
