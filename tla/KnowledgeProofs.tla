--------------------------- MODULE KnowledgeProofs ---------------------------
(***************************************************************************)
(* Proofs about Knowledge, for any items, confidences and limits.          *)
(*                                                                         *)
(* Who can miss an item: the invariant follows one share through its       *)
(* steps.  The base holds the item from the first on and only grows; the   *)
(* listener tells peers in the order of the Map, at the end of which       *)
(* newcomers enter.                                                        *)
(*                                                                         *)
(* Who can forget one: what is under way belongs to this millisecond, and  *)
(* of that any two have met.  What the current entry of a memory displaces *)
(* is under way as well, unless it was injected; but an injected item that *)
(* was absorbed before is settled or excused.                              *)
(***************************************************************************)
EXTENDS Knowledge, SequenceTheorems, FiniteSetTheorems, TLAPS

BaseItem == [item : Item, domain : Domains, confidence : Nat]
Memory == [settled : SUBSET Item, current : SUBSET Item]
Place == {"none", "hired", "retrieved", "active", "leaving", "left"}
Share == [by : 0 .. Headcount, told : 0 .. Headcount,
          at : {"unshared", "store", "broadcast", "done"}]
ItemSets == [Worker -> SUBSET Item]

Typed == /\ base \in Seq(BaseItem) /\ memory \in [Worker -> Memory]
         /\ place \in [Worker -> Place] /\ share \in [Item -> Share]
         /\ inbox \in ItemSets /\ thisMs \in SUBSET Item
         /\ tooEarly \in ItemSets /\ absorbed \in ItemSets /\ upset \in ItemSets
         /\ seen \in [Worker -> Nat] /\ \A w \in Worker : seen[w] <= Len(base)

\* Nobody is told anything before it listens, and the Map fills up in order.
Arrivals ==
    /\ onTopic \subseteq {w \in Worker : Listening(w)}
    /\ \A w \in Worker : place[w] \in {"none", "hired", "retrieved"} =>
            absorbed[w] = {} /\ inbox[w] = {}
    /\ \A v, w \in Worker : place[w] # "none" /\ v < w => place[v] # "none"

\* What has become of a share: it is stored from its first step on, the peers
\* up to told have been told, and once it is over everyone who has retrieved.
Sharing(k) ==
    LET s == share[k]
    IN  /\ s.at # "unshared" => k \in ItemsIn(base)
        /\ \A w \in Worker : k \in inbox[w] => s.at = "broadcast"
        /\ s.at = "store" => s.told = 0
        /\ s.told # 0 => place[s.told] # "none"
        /\ s.at = "broadcast" =>
             \A w \in OnTheBooks : w # s.by /\ w <= s.told =>
                 k \in absorbed[w] \cup inbox[w] \cup tooEarly[w]
        /\ s.at = "done" =>
             \A w \in Worker : place[w] \in {"retrieved", "active"} /\ w # s.by =>
                 k \in absorbed[w] \cup ItemsIn(Snapshot(w)) \cup tooEarly[w]

\* A worker may forget the item.
Excused(w, k) == (\E j \in Item \ {k} : {j, k} \in met) \/ k \in upset[w]

\* What a worker absorbed is settled or excused, or the current entry of its
\* memory and under way in this millisecond.
Remembers(w) ==
    \A k \in absorbed[w] \ memory[w].settled :
        Excused(w, k) \/ k \in memory[w].current \cap thisMs

\* What is under way belongs to this millisecond, and any two of that have met.
Clock ==
    /\ \A k \in Item : share[k].at \in {"store", "broadcast"} => k \in thisMs
    /\ \A j, k \in thisMs : j # k => {j, k} \in met
    /\ \A w \in Worker : Remembers(w)

IInv == /\ Typed /\ Arrivals /\ Clock
        /\ \A k \in Item : Sharing(k)

-----------------------------------------------------------------------------
(* The base                                                                *)

\* Later extends earlier.
Extends(later, earlier) ==
    /\ Len(earlier) <= Len(later)
    /\ \A i \in 1 .. Len(earlier) : later[i] = earlier[i]

LEMMA ItemsOf ==
    ASSUME NEW s \in Seq(BaseItem), NEW n \in 0 .. Len(s)
    PROVE  /\ ItemsIn(s) = {s[i].item : i \in 1 .. Len(s)}
           /\ ItemsIn(SubSeq(s, 1, n)) = {s[i].item : i \in 1 .. n}
<1>1. DOMAIN s = 1 .. Len(s) /\ Len(s) \in Nat /\ \A i \in 1 .. Len(s) : s[i] \in BaseItem
  BY LenProperties, ElementOfSeq
<1> DEFINE t == SubSeq(s, 1, n)
<1>2. /\ t \in Seq(BaseItem) /\ Len(t) = n
      /\ \A i \in 1 .. n : t[i] = s[i]
  <2>1. \A i \in 1 .. n : s[i] \in BaseItem
    BY <1>1
  <2>2. /\ SubSeq(s, 1, n) \in Seq(BaseItem)
        /\ Len(SubSeq(s, 1, n)) = IF 1 <= n THEN n - 1 + 1 ELSE 0
        /\ \A i \in 1 .. n - 1 + 1 : SubSeq(s, 1, n)[i] = s[1 + i - 1]
    BY <1>1, <2>1, SubSeqProperties
  <2> QED BY <1>1, <2>2
<1>3. DOMAIN t = 1 .. n
  BY <1>2, LenProperties
<1> HIDE DEF t
<1>4. {t[i].item : i \in 1 .. n} = {s[i].item : i \in 1 .. n}
  BY <1>2
<1> QED BY <1>1, <1>3, <1>4 DEF ItemsIn, t

LEMMA Exported ==
    ASSUME NEW S \in SUBSET Item
    PROVE  LET all == SetToSeq(S)
           IN  [i \in DOMAIN all |-> Entry(all[i], Department, 85)] \in Seq(BaseItem)
<1> DEFINE n == Cardinality(S)
           all == SetToSeq(S)
<1>1. n \in Nat /\ ExistsBijection(1 .. n, S)
  BY KnowledgeAssumption, FS_Subset, FS_CardinalityType
<1>2. \E f \in [1 .. n -> S] : IsInjective(f)
  BY <1>1 DEF ExistsBijection, Bijection, Injection
<1>3. all \in [1 .. n -> S]
  BY <1>2 DEF SetToSeq
<1> HIDE DEF all, n
<1>4. \A i \in 1 .. n : Entry(all[i], Department, 85) \in BaseItem
  BY <1>3 DEF Entry, BaseItem, Domains
<1>5. [i \in 1 .. n |-> Entry(all[i], Department, 85)] \in [1 .. n -> BaseItem]
  BY <1>4
<1>6. [i \in 1 .. n |-> Entry(all[i], Department, 85)] \in Seq(BaseItem)
  BY <1>1, <1>5, SeqDef DEF n
<1>7. DOMAIN all = 1 .. n
  BY <1>3
<1> QED BY <1>6, <1>7 DEF all

\* No action takes anything out of the base.
LEMMA BaseGrows ==
    ASSUME Typed, [Next]_vars
    PROVE  /\ base' \in Seq(BaseItem) /\ Extends(base', base)
           /\ ItemsIn(base) \subseteq ItemsIn(base')
<1>0. base \in Seq(BaseItem) /\ Len(base) \in Nat
  BY LenProperties DEF Typed
<1>1. \E s \in Seq(BaseItem) : base' = base \o s
  <2>1. CASE UNCHANGED base
    <3>1. << >> \in Seq(BaseItem) /\ base \o << >> = base
      BY <1>0, ConcatEmptySeq, EmptySeq
    <3> QED BY <2>1, <3>1
  <2>2. ASSUME NEW w \in Worker, NEW k \in Item, ShareKnowledge(w, k)
        PROVE  \E s \in Seq(BaseItem) : base' = base \o s
    <3> DEFINE e == Entry(k, Domain[k], Confidence[k])
    <3>1. e \in BaseItem
      BY KnowledgeAssumption DEF Entry, BaseItem, Domains
    <3>2. base' = Append(base, e)
      BY <2>2 DEF ShareKnowledge
    <3> HIDE DEF e
    <3>3. <<e>> \in Seq(BaseItem) /\ Append(base, e) = base \o <<e>>
      BY <1>0, <3>1
    <3> QED BY <3>2, <3>3
  <2>3. ASSUME NEW w \in Worker, Terminate(w)
        PROVE  \E s \in Seq(BaseItem) : base' = base \o s
    <3>1. Known(w) \in SUBSET Item
      BY DEF Typed, Memory, Known
    <3> QED BY <2>3, <3>1, Exported DEF Terminate
  <2>4. UNCHANGED base \/ \E w \in Worker : \/ Terminate(w)
                                            \/ \E k \in Item : ShareKnowledge(w, k)
    BY DEF Next, vars, Hire, Retrieve, Subscribe, BroadcastKnowledge, Rebroadcast,
           Absorb, Inject, Leave, Tick
  <2> QED BY <2>1, <2>2, <2>3, <2>4
<1>2. PICK s \in Seq(BaseItem) : base' = base \o s
  BY <1>1
<1>3. /\ base \o s \in Seq(BaseItem)
      /\ Len(base \o s) = Len(base) + Len(s) /\ Len(s) \in Nat
      /\ \A i \in 1 .. Len(base) + Len(s) :
            (base \o s)[i] = IF i <= Len(base) THEN base[i] ELSE s[i - Len(base)]
  BY <1>0, ConcatProperties, LenProperties
<1>4. base' \in Seq(BaseItem) /\ Extends(base', base)
  BY <1>0, <1>2, <1>3 DEF Extends
<1>5. /\ ItemsIn(base) = {base[i].item : i \in 1 .. Len(base)}
      /\ ItemsIn(base') = {base'[i].item : i \in 1 .. Len(base')}
      /\ Len(base') \in Nat
  <2>1. \A b \in Seq(BaseItem) : /\ ItemsIn(b) = {b[i].item : i \in 1 .. Len(b)}
                                 /\ Len(b) \in Nat
    BY ItemsOf, LenProperties
  <2> QED BY <1>0, <1>4, <2>1
<1>6. ItemsIn(base) \subseteq ItemsIn(base')
  BY <1>0, <1>4, <1>5 DEF Extends
<1> QED BY <1>4, <1>6

LEMMA SeededItems ==
    ASSUME NEW s \in Seq(BaseItem)
    PROVE  seedFromKnowledge(s, retrieve(s)) \in SUBSET Item
<1>1. \A i \in DOMAIN s : s[i] \in BaseItem
  BY LenProperties, ElementOfSeq
<1>2. retrieve(s) \subseteq DOMAIN s
  BY DEF retrieve
<1>3. \A i \in DOMAIN s : s[i].item \in Item
  BY <1>1 DEF BaseItem
<1> QED BY <1>2, <1>3 DEF seedFromKnowledge

-----------------------------------------------------------------------------
(* Types                                                                   *)

LEMMA TypedStep ==
    ASSUME Typed, Arrivals, [Next]_vars
    PROVE  Typed'
<1>1. /\ base' \in Seq(BaseItem) /\ Len(base) \in Nat /\ Len(base') \in Nat
      /\ Len(base) <= Len(base')
  BY BaseGrows, LenProperties DEF Extends, Typed
<1>2. memory' \in [Worker -> Memory]
  <2>0. /\ memory \in [Worker -> Memory]
        /\ \A w \in Worker : /\ memory[w].settled \in SUBSET Item
                             /\ memory[w].current \in SUBSET Item
                             /\ Known(w) \in SUBSET Item
    BY DEF Typed, Memory, Known
  <2>1. CASE UNCHANGED memory
    BY <2>0, <2>1
  <2>2. ASSUME NEW w \in Worker, Subscribe(w) PROVE memory' \in [Worker -> Memory]
    <3> DEFINE seeded == seedFromKnowledge(Snapshot(w), retrieve(Snapshot(w)))
    <3>1. Snapshot(w) \in Seq(BaseItem)
      <4>1. seen[w] \in 0 .. Len(base) /\ base \in Seq(BaseItem)
        BY <1>1 DEF Typed
      <4>2. \A i \in 1 .. seen[w] : base[i] \in BaseItem
        BY <4>1, <1>1, ElementOfSeq
      <4> QED BY <4>1, <4>2, SubSeqProperties DEF Snapshot
    <3>2. seeded \in SUBSET Item
      BY <3>1, SeededItems
    <3>3. memory' = [memory EXCEPT ![w].settled = seeded]
      BY <2>2 DEF Subscribe
    <3> HIDE DEF seeded
    <3> QED BY <2>0, <3>2, <3>3 DEF Memory
  <2>3. ASSUME NEW m \in Memory, NEW k \in Item PROVE absorb(m, k) \in Memory
    BY <2>3 DEF Memory, absorb
  <2>4. ASSUME NEW k \in Item, BroadcastKnowledge(k) PROVE memory' \in [Worker -> Memory]
    BY <2>0, <2>3, <2>4 DEF BroadcastKnowledge
  <2>5. ASSUME NEW w \in Worker, NEW k \in Item, Absorb(w, k) \/ Inject(w, k)
        PROVE  memory' \in [Worker -> Memory]
    BY <2>0, <2>3, <2>5 DEF Absorb, Inject
  <2>6. CASE Tick
    BY <2>0, <2>6 DEF Tick, Memory
  <2>7. \/ UNCHANGED memory \/ Tick
        \/ \E w \in Worker : Subscribe(w) \/ \E k \in Item : Absorb(w, k) \/ Inject(w, k)
        \/ \E k \in Item : BroadcastKnowledge(k)
    BY DEF Next, vars, Hire, Retrieve, ShareKnowledge, Rebroadcast, Terminate, Leave
  <2> QED BY <2>1, <2>2, <2>4, <2>5, <2>6, <2>7
<1>3. place' \in [Worker -> Place]
  BY DEF Typed, Place, Next, vars, Hire, Retrieve, Subscribe, ShareKnowledge,
         BroadcastKnowledge, Rebroadcast, Absorb, Inject, Terminate, Leave, Tick
<1>4. share' \in [Item -> Share]
  <2>0. share \in [Item -> Share] /\ Worker \subseteq 0 .. Headcount
    BY KnowledgeAssumption DEF Typed, Worker
  <2>1. CASE UNCHANGED share
    BY <2>0, <2>1
  <2>2. ASSUME NEW k \in Item, NEW s \in Share, share' = [share EXCEPT ![k] = s]
        PROVE  share' \in [Item -> Share]
    BY <2>0, <2>2
  <2>3. ASSUME NEW w \in Worker, NEW k \in Item, ShareKnowledge(w, k)
        PROVE  share' \in [Item -> Share]
    <3>1. [by |-> w, at |-> "store", told |-> 0] \in Share
      BY <2>0, KnowledgeAssumption DEF Share
    <3> QED BY <2>2, <2>3, <3>1 DEF ShareKnowledge
  <2>4. ASSUME NEW k \in Item, BroadcastKnowledge(k) \/ Rebroadcast(k)
        PROVE  share' \in [Item -> Share]
    <3>1. \/ share' = [share EXCEPT ![k].at = "broadcast"]
          \/ share' = [share EXCEPT ![k].at = "done"]
          \/ \E w \in Worker : share' = [share EXCEPT ![k].told = w]
      BY <2>4 DEF BroadcastKnowledge, Rebroadcast, Left, OnTheBooks
    <3> QED BY <2>0, <3>1 DEF Share
  <2>5. \/ UNCHANGED share
        \/ \E w \in Worker, k \in Item : ShareKnowledge(w, k)
        \/ \E k \in Item : BroadcastKnowledge(k) \/ Rebroadcast(k)
    BY DEF Next, vars, Hire, Retrieve, Subscribe, Absorb, Inject, Terminate, Leave, Tick
  <2> QED BY <2>1, <2>3, <2>4, <2>5
<1>5. inbox' \in ItemSets /\ tooEarly' \in ItemSets /\ absorbed' \in ItemSets
  <2>0. /\ inbox \in [Worker -> SUBSET Item] /\ tooEarly \in [Worker -> SUBSET Item]
        /\ absorbed \in [Worker -> SUBSET Item]
    BY DEF Typed, ItemSets
  <2>1. CASE UNCHANGED <<inbox, tooEarly, absorbed>>
    BY <2>0, <2>1 DEF ItemSets
  <2>2. ASSUME NEW k \in Item, BroadcastKnowledge(k)
        PROVE  inbox' \in ItemSets /\ tooEarly' \in ItemSets /\ absorbed' \in ItemSets
    BY <2>0, <2>2 DEF BroadcastKnowledge, ItemSets
  <2>3. ASSUME NEW k \in Item, Rebroadcast(k)
        PROVE  inbox' \in ItemSets /\ tooEarly' \in ItemSets /\ absorbed' \in ItemSets
    <3>1. \/ UNCHANGED inbox
          \/ \E w \in Worker : inbox' = [inbox EXCEPT ![w] = @ \cup {k}]
      BY <2>3 DEF Rebroadcast, Left, OnTheBooks
    <3>2. \/ UNCHANGED tooEarly
          \/ \E w \in Worker : tooEarly' = [tooEarly EXCEPT ![w] = @ \cup {k}]
      BY <2>3 DEF Rebroadcast, Left, OnTheBooks
    <3>3. UNCHANGED absorbed
      BY <2>3 DEF Rebroadcast
    <3> QED BY <2>0, <3>1, <3>2, <3>3 DEF ItemSets
  <2>4. ASSUME NEW w \in Worker, NEW k \in Item, Absorb(w, k)
        PROVE  inbox' \in ItemSets /\ tooEarly' \in ItemSets /\ absorbed' \in ItemSets
    BY <2>0, <2>4 DEF Absorb, ItemSets
  <2>5. \/ UNCHANGED <<inbox, tooEarly, absorbed>>
        \/ \E w \in Worker, k \in Item : Absorb(w, k)
        \/ \E k \in Item : BroadcastKnowledge(k) \/ Rebroadcast(k)
    BY DEF Next, vars, history, Hire, Retrieve, Subscribe, ShareKnowledge, Inject,
           Terminate, Leave, Tick
  <2> QED BY <2>1, <2>2, <2>3, <2>4, <2>5
<1>6. thisMs' \in SUBSET Item
  BY DEF Typed, Next, vars, history, Hire, Retrieve, Subscribe, ShareKnowledge, Begin,
         BroadcastKnowledge, Rebroadcast, Absorb, Inject, Terminate, Leave, Tick
<1>7. seen' \in [Worker -> Nat] /\ \A w \in Worker : seen'[w] <= Len(base')
  <2>0. seen \in [Worker -> Nat] /\ \A w \in Worker : seen[w] <= Len(base)
    BY DEF Typed
  <2>1. CASE UNCHANGED seen
    BY <1>1, <2>0, <2>1
  <2>2. ASSUME NEW w \in Worker, Retrieve(w)
        PROVE  seen' \in [Worker -> Nat] /\ \A v \in Worker : seen'[v] <= Len(base')
    BY <1>1, <2>0, <2>2 DEF Retrieve
  <2>3. UNCHANGED seen \/ \E w \in Worker : Retrieve(w)
    BY DEF Next, vars, history, Hire, Subscribe, ShareKnowledge, BroadcastKnowledge,
           Rebroadcast, Absorb, Inject, Terminate, Leave, Tick
  <2> QED BY <2>1, <2>2, <2>3
<1>8. upset' \in ItemSets
  <2>1. upset \in [Worker -> SUBSET Item] /\ thisMs \subseteq Item
    BY DEF Typed, ItemSets
  <2>2. ASSUME NEW w \in Worker, NEW k \in Item, Inject(w, k) PROVE upset' \in ItemSets
    BY <2>1, <2>2 DEF Inject, ItemSets
  <2>3. UNCHANGED upset \/ \E w \in Worker, k \in Item : Inject(w, k)
    BY DEF Next, vars, history, Hire, Retrieve, Subscribe, ShareKnowledge,
           BroadcastKnowledge, Rebroadcast, Absorb, Terminate, Leave, Tick
  <2> QED BY <2>1, <2>2, <2>3 DEF ItemSets
<1> QED BY <1>1, <1>2, <1>3, <1>4, <1>5, <1>6, <1>7, <1>8 DEF Typed
-----------------------------------------------------------------------------
(* Arrivals                                                                *)

LEMMA ArrivalsStep ==
    ASSUME Typed, Arrivals, [Next]_vars
    PROVE  Arrivals'
<1>1. place \in [Worker -> Place] /\ inbox \in ItemSets /\ absorbed \in ItemSets
  BY DEF Typed
<1>2. CASE UNCHANGED <<place, onTopic, inbox, absorbed>>
  BY <1>2 DEF Arrivals, Listening
<1>3. ASSUME NEW w \in Worker, Hire(w) \/ Retrieve(w) PROVE Arrivals'
  <2>1. /\ place[w] \in {"none", "hired"}
        /\ \E p \in {"hired", "retrieved"} : place' = [place EXCEPT ![w] = p]
        /\ place[w] = "none" => \A v \in 1 .. w - 1 : place[v] # "none"
        /\ UNCHANGED <<onTopic, inbox, absorbed>>
    BY <1>3 DEF Hire, Retrieve, history
  <2>2. onTopic' \subseteq {v \in Worker : Listening(v)'}
    BY <1>1, <2>1 DEF Arrivals, Listening
  <2>3. \A v \in Worker : place'[v] \in {"none", "hired", "retrieved"} =>
            absorbed'[v] = {} /\ inbox'[v] = {}
    BY <1>1, <2>1 DEF Arrivals
  <2>4. \A v \in Worker : v < w /\ place[w] = "none" => place[v] # "none"
    BY <2>1 DEF Worker
  <2>5. \A v, u \in Worker : place'[u] # "none" /\ v < u => place'[v] # "none"
    BY <1>1, <2>1, <2>4 DEF Arrivals
  <2> QED BY <2>2, <2>3, <2>5 DEF Arrivals
<1>4. ASSUME NEW w \in Worker, Subscribe(w) \/ Terminate(w) \/ Leave(w) PROVE Arrivals'
  <2>1. /\ place[w] \notin {"none", "hired"}
        /\ \E p \in {"active", "leaving", "left"} : place' = [place EXCEPT ![w] = p]
        /\ UNCHANGED <<inbox, absorbed>>
    BY <1>4 DEF Subscribe, Terminate, Leave, history
  <2>2. onTopic' \subseteq {v \in Worker : Listening(v)'}
    BY <1>1, <1>4 DEF Arrivals, Listening, Subscribe, Terminate, Leave
  <2> QED BY <1>1, <2>1, <2>2 DEF Arrivals
<1>5. ASSUME NEW k \in Item, BroadcastKnowledge(k) PROVE Arrivals'
  <2>1. UNCHANGED <<place, onTopic, inbox>>
    BY <1>5 DEF BroadcastKnowledge
  <2>2. \A w \in Worker : ~Listening(w) => absorbed'[w] = absorbed[w]
    BY <1>5 DEF BroadcastKnowledge, Arrivals
  <2> QED BY <2>1, <2>2 DEF Arrivals, Listening
<1>6. ASSUME NEW k \in Item, Rebroadcast(k) PROVE Arrivals'
  <2>1. UNCHANGED <<place, onTopic, absorbed>>
    BY <1>6 DEF Rebroadcast
  <2>2. \A w \in Worker : ~Listening(w) => inbox'[w] = inbox[w]
    BY <1>1, <1>6 DEF Rebroadcast, ItemSets
  <2> QED BY <2>1, <2>2 DEF Arrivals, Listening
<1>7. ASSUME NEW w \in Worker, NEW k \in Item, Absorb(w, k) PROVE Arrivals'
  <2>1. UNCHANGED <<place, onTopic>>
    BY <1>7 DEF Absorb
  <2>2. place[w] \notin {"none", "hired", "retrieved"}
    BY <1>7 DEF Absorb, Arrivals
  <2>3. \A v \in Worker \ {w} : inbox'[v] = inbox[v] /\ absorbed'[v] = absorbed[v]
    BY <1>1, <1>7 DEF Absorb, ItemSets
  <2> QED BY <2>1, <2>2, <2>3 DEF Arrivals, Listening
<1> QED BY <1>2, <1>3, <1>4, <1>5, <1>6, <1>7
        DEF Next, vars, history, ShareKnowledge, Inject, Tick

-----------------------------------------------------------------------------
(* Sharing                                                                 *)

\* A step that leaves the share of k alone, takes nothing from anybody and
\* lets nobody in among those already told.
LEMMA SharingStays ==
    ASSUME NEW k \in Item, Typed, Typed', Sharing(k), Extends(base', base),
           ItemsIn(base) \subseteq ItemsIn(base'), share'[k] = share[k],
           \A w \in Worker :
             /\ absorbed[w] \subseteq absorbed'[w] /\ tooEarly[w] \subseteq tooEarly'[w]
             /\ k \in inbox'[w] => k \in inbox[w]
             /\ k \in inbox[w] => k \in absorbed'[w] \cup inbox'[w]
             /\ place[w] # "none" => place'[w] # "none"
             /\ place'[w] \notin {"none", "left"} =>
                  place[w] \notin {"none", "left"} \/ share[k].told < w
             /\ place'[w] \in {"retrieved", "active"} =>
                  \/ place[w] \in {"retrieved", "active"} /\ seen'[w] = seen[w]
                  \/ seen'[w] = Len(base) /\ base' = base
    PROVE  Sharing(k)'
<1> DEFINE s == share[k]
<1>1. s \in Share
  BY DEF Typed
<1>2. /\ s.told \in Int /\ (s.told = 0 \/ s.told \in Worker)
      /\ Worker \subseteq Int
  BY <1>1, KnowledgeAssumption DEF Share, Worker
<1>3. share'[k] = s
  OBVIOUS
<1> HIDE DEF s
<1>4. \A w \in Worker : place'[w] \in {"retrieved", "active"} =>
          \/ place[w] \in {"retrieved", "active"}
                /\ ItemsIn(Snapshot(w)) \subseteq ItemsIn(Snapshot(w))'
          \/ ItemsIn(base) \subseteq ItemsIn(Snapshot(w))'
  <2> SUFFICES ASSUME NEW w \in Worker, place'[w] \in {"retrieved", "active"}
               PROVE  \/ place[w] \in {"retrieved", "active"}
                            /\ ItemsIn(Snapshot(w)) \subseteq ItemsIn(Snapshot(w))'
                      \/ ItemsIn(base) \subseteq ItemsIn(Snapshot(w))'
    OBVIOUS
  <2>1. /\ base \in Seq(BaseItem) /\ base' \in Seq(BaseItem)
        /\ Len(base) \in Nat /\ Len(base') \in Nat
        /\ seen[w] \in 0 .. Len(base) /\ seen'[w] \in 0 .. Len(base')
    <3>1. base \in Seq(BaseItem) /\ base' \in Seq(BaseItem)
      BY DEF Typed
    <3>2. Len(base) \in Nat /\ Len(base') \in Nat
      BY <3>1, LenProperties
    <3> QED BY <3>1, <3>2 DEF Typed
  <2>2. CASE place[w] \in {"retrieved", "active"} /\ seen'[w] = seen[w]
    <3>1. ItemsIn(SubSeq(base, 1, seen[w])) = {base[i].item : i \in 1 .. seen[w]}
      BY <2>1, ItemsOf
    <3>2. ItemsIn(SubSeq(base', 1, seen[w])) = {base'[i].item : i \in 1 .. seen[w]}
      BY <2>1, <2>2, ItemsOf
    <3>3. \A i \in 1 .. seen[w] : base'[i] = base[i]
      BY <2>1 DEF Extends
    <3> QED BY <2>2, <3>1, <3>2, <3>3 DEF Snapshot
  <2>3. CASE seen'[w] = Len(base) /\ base' = base
    BY <2>1, <2>3, SubSeqFull DEF Snapshot
  <2> QED BY <2>2, <2>3
<1>5. /\ s.at # "unshared" => k \in ItemsIn(base)
      /\ \A w \in Worker : k \in inbox[w] => s.at = "broadcast"
      /\ s.at = "store" => s.told = 0
      /\ s.told # 0 => place[s.told] # "none"
      /\ s.at = "broadcast" =>
             \A w \in OnTheBooks : w # s.by /\ w <= s.told =>
                 k \in absorbed[w] \cup inbox[w] \cup tooEarly[w]
      /\ s.at = "done" =>
             \A w \in Worker : place[w] \in {"retrieved", "active"} /\ w # s.by =>
                 k \in absorbed[w] \cup ItemsIn(Snapshot(w)) \cup tooEarly[w]
  BY DEF Sharing, s
<1>6. s.told # 0 => place'[s.told] # "none"
  BY <1>2, <1>5
<1>7. \A w \in OnTheBooks' : w <= s.told => w \in OnTheBooks
  <2>1. \A w \in Worker : place'[w] \notin {"none", "left"} =>
            place[w] \notin {"none", "left"} \/ s.told < w
    BY DEF s
  <2> DEFINE told == s.told
  <2>2. told \in Int /\ \A w \in Worker : w \in Int
    BY <1>2
  <2>3. \A w \in Worker : place'[w] \notin {"none", "left"} /\ w <= told =>
            place[w] \notin {"none", "left"}
    <3>1. \A w \in Worker : ~ (told < w /\ w <= told)
      <4> HIDE DEF told
      <4> QED BY <2>2
    <3> QED BY <2>1, <3>1
  <2> HIDE DEF told
  <2>4. \A w \in OnTheBooks' : w <= told => w \in OnTheBooks
    BY <2>3 DEF OnTheBooks
  <2> QED BY <2>4 DEF told
<1>8. OnTheBooks' \subseteq Worker
  BY DEF OnTheBooks
<1>9. s.at = "broadcast" =>
          \A w \in OnTheBooks' : w # s.by /\ w <= s.told =>
              k \in absorbed'[w] \cup inbox'[w] \cup tooEarly'[w]
  BY <1>5, <1>7, <1>8
<1>10. s.at = "done" =>
          \A w \in Worker : place'[w] \in {"retrieved", "active"} /\ w # s.by =>
              k \in absorbed'[w] \cup ItemsIn(Snapshot(w))' \cup tooEarly'[w]
  BY <1>4, <1>5
<1>11. /\ s.at # "unshared" => k \in ItemsIn(base')
       /\ \A w \in Worker : k \in inbox'[w] => s.at = "broadcast"
  BY <1>5
<1> QED BY <1>3, <1>5, <1>6, <1>9, <1>10, <1>11 DEF Sharing
LEMMA RebroadcastStep ==
    ASSUME NEW k \in Item, Typed, Typed', Arrivals, Sharing(k), Rebroadcast(k)
    PROVE  Sharing(k)'
<1> DEFINE s == share[k]
<1>1. /\ s \in Share /\ s.at = "broadcast" /\ Worker \subseteq Nat
      /\ s.told \in Nat /\ (s.told = 0 \/ s.told \in Worker)
      /\ \A w \in Worker : k \notin inbox[w]
      /\ UNCHANGED <<base, place, seen, absorbed>>
  BY KnowledgeAssumption DEF Rebroadcast, Typed, Share, Worker
<1>2. /\ share \in [Item -> Share] /\ inbox \in [Worker -> SUBSET Item]
      /\ tooEarly \in [Worker -> SUBSET Item]
  BY DEF Typed, ItemSets
<1>3. /\ k \in ItemsIn(base)
      /\ s.told # 0 => place[s.told] # "none"
      /\ \A w \in OnTheBooks : w # s.by /\ w <= s.told =>
              k \in absorbed[w] \cup inbox[w] \cup tooEarly[w]
  BY <1>1 DEF Sharing
<1>4. ASSUME NEW w \in Left(k), \A v \in Left(k) : w <= v,
             share' = [share EXCEPT ![k].told = w],
             IF Listening(w)
             THEN inbox' = [inbox EXCEPT ![w] = @ \cup {k}] /\ UNCHANGED tooEarly
             ELSE tooEarly' = [tooEarly EXCEPT ![w] = @ \cup {k}] /\ UNCHANGED inbox
      PROVE  Sharing(k)'
  <2>1. w \in Worker /\ place[w] \notin {"none", "left"} /\ OnTheBooks \subseteq Worker
    BY <1>4 DEF Left, OnTheBooks
  <2>2. share'[k].by = s.by /\ share'[k].at = "broadcast" /\ share'[k].told = w
    BY <1>1, <1>2, <1>4 DEF Share
  <2>3. ASSUME NEW v \in OnTheBooks, v # s.by, v <= w
        PROVE  k \in absorbed[v] \cup inbox'[v] \cup tooEarly'[v]
    <3>1. CASE v = w
      BY <1>2, <1>4, <2>1, <3>1
    <3>2. CASE v # w
      <4>1. v \notin Left(k)
        BY <1>1, <1>4, <2>1, <2>3, <3>2
      <4>2. v <= s.told
        BY <1>1, <2>1, <2>3, <4>1 DEF Left
      <4>3. inbox[v] \subseteq inbox'[v] /\ tooEarly[v] \subseteq tooEarly'[v]
        BY <1>2, <1>4, <2>1
      <4> QED BY <1>3, <2>3, <4>2, <4>3
    <3> QED BY <3>1, <3>2
  <2>4. OnTheBooks' = OnTheBooks
    BY <1>1 DEF OnTheBooks
  <2> QED BY <1>1, <1>3, <2>1, <2>2, <2>3, <2>4 DEF Sharing
<1>5. ASSUME Left(k) = {}, share' = [share EXCEPT ![k].at = "done"],
             UNCHANGED <<inbox, tooEarly>>
      PROVE  Sharing(k)'
  <2>1. share'[k].by = s.by /\ share'[k].at = "done" /\ share'[k].told = s.told
    BY <1>1, <1>2, <1>5 DEF Share
  <2>2. ASSUME NEW w \in Worker, place[w] \in {"retrieved", "active"}, w # s.by
        PROVE  k \in absorbed[w] \cup tooEarly[w]
    <3>1. w \in OnTheBooks
      BY <2>2 DEF OnTheBooks
    <3>2. w <= s.told
      BY <1>1, <1>5, <2>2, <3>1 DEF Left
    <3> QED BY <1>1, <1>3, <2>2, <3>1, <3>2
  <2> QED BY <1>1, <1>3, <1>5, <2>1, <2>2 DEF Sharing
<1>6. \/ \E w \in Left(k) :
            /\ \A v \in Left(k) : w <= v
            /\ share' = [share EXCEPT ![k].told = w]
            /\ IF Listening(w)
               THEN inbox' = [inbox EXCEPT ![w] = @ \cup {k}] /\ UNCHANGED tooEarly
               ELSE tooEarly' = [tooEarly EXCEPT ![w] = @ \cup {k}] /\ UNCHANGED inbox
      \/ /\ Left(k) = {} /\ share' = [share EXCEPT ![k].at = "done"]
         /\ UNCHANGED <<inbox, tooEarly>>
  BY DEF Rebroadcast
<1> QED BY <1>4, <1>5, <1>6

LEMMA SharingStep ==
    ASSUME NEW k \in Item, Typed, Typed', Arrivals, Sharing(k), [Next]_vars
    PROVE  Sharing(k)'
<1>0. /\ Extends(base', base) /\ ItemsIn(base) \subseteq ItemsIn(base')
      /\ base \in Seq(BaseItem)
  BY BaseGrows DEF Typed
<1>1. /\ place \in [Worker -> Place] /\ inbox \in [Worker -> SUBSET Item]
      /\ absorbed \in [Worker -> SUBSET Item] /\ tooEarly \in [Worker -> SUBSET Item]
      /\ seen \in [Worker -> Nat] /\ share \in [Item -> Share]
      /\ Worker \subseteq Nat \ {0}
  BY KnowledgeAssumption DEF Typed, ItemSets, Worker
<1>2. /\ share[k] \in Share /\ (share[k].told = 0 \/ share[k].told \in Worker)
  BY <1>1, KnowledgeAssumption DEF Share, Worker
<1>3. CASE UNCHANGED <<place, inbox, tooEarly, absorbed, seen>> /\ share'[k] = share[k]
  BY <1>0, <1>3, SharingStays
<1>4. ASSUME NEW w \in Worker, Hire(w) PROVE Sharing(k)'
  <2>1. /\ place' = [place EXCEPT ![w] = "hired"] /\ place[w] = "none"
        /\ UNCHANGED <<base, share, inbox, tooEarly, absorbed, seen>>
    BY <1>4 DEF Hire, history
  <2>2. share[k].told < w
    <3> DEFINE told == share[k].told
    <3>1. /\ told = 0 \/ told \in Worker
          /\ told # 0 => place[told] # "none"
      BY <1>2 DEF Sharing
    <3> HIDE DEF told
    <3>2. told # 0 => ~ (w < told) /\ w # told
      BY <2>1, <3>1 DEF Arrivals
    <3>3. w \in Nat \ {0} /\ (told = 0 \/ told \in Nat)
      BY <1>1, <3>1
    <3>4. told < w
      BY <3>2, <3>3
    <3> QED BY <3>4 DEF told
  <2>3. \A v \in Worker \ {w} : place'[v] = place[v]
    BY <1>1, <2>1
  <2>4. place'[w] = "hired"
    BY <1>1, <2>1
  <2> QED BY <1>0, <2>1, <2>2, <2>3, <2>4, SharingStays
<1>5. ASSUME NEW w \in Worker, Retrieve(w) PROVE Sharing(k)'
  <2>1. /\ place[w] = "hired" /\ place'[w] = "retrieved" /\ seen'[w] = Len(base)
        /\ \A v \in Worker \ {w} : place'[v] = place[v] /\ seen'[v] = seen[v]
        /\ UNCHANGED <<base, share, inbox, tooEarly, absorbed>>
    BY <1>1, <1>5 DEF Retrieve
  <2> QED BY <1>0, <2>1, SharingStays
<1>6. ASSUME NEW w \in Worker, Subscribe(w) \/ Terminate(w) \/ Leave(w)
      PROVE  Sharing(k)'
  <2>1. /\ \/ place[w] = "retrieved" /\ place'[w] = "active"
           \/ place[w] \notin {"none", "left"} /\ place'[w] \in {"leaving", "left"}
        /\ \A v \in Worker \ {w} : place'[v] = place[v]
        /\ UNCHANGED <<share, inbox, tooEarly, absorbed, seen>>
    BY <1>1, <1>6 DEF Subscribe, Terminate, Leave, history
  <2> QED BY <1>0, <2>1, SharingStays
<1>7. ASSUME NEW w \in Worker, NEW j \in Item, ShareKnowledge(w, j) PROVE Sharing(k)'
  <2>1. /\ UNCHANGED <<place, inbox, tooEarly, absorbed, seen>>
        /\ share' = [share EXCEPT ![j] = [by |-> w, at |-> "store", told |-> 0]]
        /\ share[j] = Unshared
    BY <1>7 DEF ShareKnowledge
  <2>2. CASE j = k
    <3>1. share'[k].told = 0 /\ share'[k].at = "store" /\ share[k].at = "unshared"
      BY <1>1, <2>1, <2>2 DEF Unshared
    <3>2. \A v \in Worker : k \notin inbox'[v]
      BY <2>1, <3>1 DEF Sharing
    <3>3. k \in ItemsIn(base')
      <4> DEFINE e == Entry(k, Domain[k], Confidence[k])
      <4>1. base' = Append(base, e) /\ e.item = k
        BY <1>7, <2>2 DEF ShareKnowledge, Entry
      <4>2. e \in BaseItem
        BY KnowledgeAssumption DEF Entry, BaseItem, Domains
      <4> HIDE DEF e
      <4>3. Len(base') \in DOMAIN base' /\ base'[Len(base')] = e
        BY <1>0, <4>1, <4>2, AppendProperties, LenProperties
      <4> QED BY <4>1, <4>3 DEF ItemsIn
    <3> QED BY <3>1, <3>2, <3>3 DEF Sharing
  <2>3. CASE j # k
    BY <1>1, <1>3, <2>1, <2>3
  <2> QED BY <2>2, <2>3
<1>8. ASSUME NEW j \in Item, BroadcastKnowledge(j) PROVE Sharing(k)'
  <2>1. /\ UNCHANGED <<base, place, inbox, tooEarly, seen>>
        /\ share' = [share EXCEPT ![j].at = "broadcast"] /\ share[j].at = "store"
        /\ \A w \in Worker : absorbed[w] \subseteq absorbed'[w]
    BY <1>8 DEF BroadcastKnowledge
  <2>2. CASE j = k
    <3>1. share'[k].told = share[k].told /\ share'[k].at = "broadcast"
      BY <1>1, <2>1, <2>2 DEF Share
    <3>2. share[k].told = 0 /\ k \in ItemsIn(base)
      BY <2>1, <2>2 DEF Sharing
    <3>3. \A w \in OnTheBooks' : ~ (w <= 0)
      BY <1>1 DEF OnTheBooks
    <3> QED BY <2>1, <3>1, <3>2, <3>3 DEF Sharing
  <2>3. CASE j # k
    <3>1. share'[k] = share[k]
      BY <1>1, <2>1, <2>3
    <3> QED BY <1>0, <2>1, <3>1, SharingStays
  <2> QED BY <2>2, <2>3
<1>9. ASSUME NEW j \in Item, Rebroadcast(j) PROVE Sharing(k)'
  <2>1. CASE j = k
    BY <1>9, <2>1, RebroadcastStep
  <2>2. CASE j # k
    <3>1. /\ UNCHANGED <<base, place, absorbed, seen>> /\ share'[k] = share[k]
      BY <1>1, <1>9, <2>2 DEF Rebroadcast, Left, OnTheBooks
    <3>2. \A w \in Worker : /\ tooEarly[w] \subseteq tooEarly'[w]
                            /\ k \in inbox'[w] <=> k \in inbox[w]
      BY <1>1, <1>9, <2>2 DEF Rebroadcast, Left, OnTheBooks
    <3> QED BY <1>0, <3>1, <3>2, SharingStays
  <2> QED BY <2>1, <2>2
<1>10. ASSUME NEW w \in Worker, NEW j \in Item, Absorb(w, j) PROVE Sharing(k)'
  <2>1. /\ UNCHANGED <<base, place, share, tooEarly, seen>>
        /\ \A v \in Worker : /\ absorbed[v] \subseteq absorbed'[v]
                             /\ k \in inbox'[v] => k \in inbox[v]
                             /\ k \in inbox[v] => k \in absorbed'[v] \cup inbox'[v]
    BY <1>1, <1>10 DEF Absorb
  <2> QED BY <1>0, <2>1, SharingStays
<1>11. ASSUME NEW w \in Worker, NEW j \in Item, Inject(w, j) PROVE Sharing(k)'
  BY <1>3, <1>11 DEF Inject
<1>12. CASE Tick \/ UNCHANGED vars
  BY <1>3, <1>12 DEF Tick, vars, history
<1> QED BY <1>4, <1>5, <1>6, <1>7, <1>8, <1>9, <1>10, <1>11, <1>12 DEF Next
-----------------------------------------------------------------------------
(* Memory and the clock                                                    *)

\* A step that leaves a memory alone takes no excuse away.
LEMMA RemembersStays ==
    ASSUME NEW w \in Worker, Remembers(w), UNCHANGED memory[w], UNCHANGED absorbed[w],
           thisMs \subseteq thisMs', met \subseteq met', upset[w] \subseteq upset'[w]
    PROVE  Remembers(w)'
BY DEF Remembers, Excused

\* Absorbing an item that is under way displaces only what it has met.
LEMMA AbsorbKeeps ==
    ASSUME Typed, Clock, NEW w \in Worker, NEW k \in thisMs,
           memory'[w] = absorb(memory[w], k), absorbed'[w] = absorbed[w] \cup {k},
           UNCHANGED <<thisMs, met, upset>>
    PROVE  Remembers(w)'
<1>1. memory'[w].settled = memory[w].settled /\ memory'[w].current = {k}
  BY DEF absorb
<1>2. k \in Item /\ \A j \in thisMs \ {k} : {k, j} \in met
  BY DEF Typed, Clock
<1> SUFFICES ASSUME NEW j \in absorbed'[w], j \notin memory'[w].settled
             PROVE  Excused(w, j)' \/ j \in memory'[w].current \cap thisMs'
  BY DEF Remembers
<1>3. CASE j = k
  BY <1>1, <1>3
<1>4. CASE j # k
  <2>1. Excused(w, j) \/ j \in thisMs
    BY <1>1, <1>4 DEF Clock, Remembers
  <2> QED BY <1>2, <1>4, <2>1 DEF Excused
<1> QED BY <1>3, <1>4

\* Injecting an item displaces at most what is excused from then on.
LEMMA InjectKeeps ==
    ASSUME Typed, Clock, NEW w \in Worker, NEW k \in Item, Inject(w, k)
    PROVE  \A v \in Worker : Remembers(v)'
<1>0. memory \in [Worker -> Memory] /\ upset \in [Worker -> SUBSET Item]
  BY DEF Typed, ItemSets
<1>1. /\ memory'[w] = absorb(memory[w], k) /\ upset'[w] = upset[w] \cup (thisMs \ {k})
      /\ \A v \in Worker \ {w} : memory'[v] = memory[v] /\ upset'[v] = upset[v]
      /\ UNCHANGED <<thisMs, met, absorbed>>
  BY <1>0 DEF Inject
<1>2. ASSUME NEW v \in Worker \ {w} PROVE Remembers(v)'
  BY <1>1, <1>2, RemembersStays DEF Clock
<1>3. memory'[w].settled = memory[w].settled /\ memory'[w].current = {k}
  BY <1>1 DEF absorb
<1>4. Remembers(w)'
  BY <1>1, <1>3 DEF Clock, Remembers, Excused
<1> QED BY <1>2, <1>4

LEMMA ClockStep ==
    ASSUME IInv, [Next]_vars
    PROVE  Clock'
<1>1. /\ memory \in [Worker -> Memory] /\ share \in [Item -> Share]
      /\ thisMs \subseteq Item
  BY DEF IInv, Typed
<1> USE DEF IInv
<1>2. CASE UNCHANGED <<memory, share, thisMs, met, absorbed, upset>>
  BY <1>2 DEF Clock, Remembers, Excused
<1>3. ASSUME NEW w \in Worker, Subscribe(w) PROVE Clock'
  <2>1. UNCHANGED <<share, thisMs, met, absorbed, upset>> /\ absorbed[w] = {}
    BY <1>3 DEF Subscribe, Arrivals, history
  <2>2. \A v \in Worker \ {w} : memory'[v] = memory[v]
    BY <1>1, <1>3 DEF Subscribe
  <2>3. Remembers(w)'
    BY <2>1 DEF Remembers
  <2>4. \A v \in Worker \ {w} : Remembers(v)'
    BY <2>1, <2>2, RemembersStays DEF Clock
  <2> QED BY <2>1, <2>3, <2>4 DEF Clock
<1>4. ASSUME NEW w \in Worker, NEW k \in Item, ShareKnowledge(w, k) PROVE Clock'
  <2>1. /\ UNCHANGED <<memory, absorbed, upset>>
        /\ thisMs' = thisMs \cup {k} /\ met' = met \cup {{k, b} : b \in thisMs \ {k}}
        /\ \A j \in Item \ {k} : share'[j] = share[j]
    BY <1>1, <1>4 DEF ShareKnowledge, Begin
  <2>2. \A i, j \in thisMs' : i # j => {i, j} \in met'
    <3> SUFFICES ASSUME NEW i \in thisMs', NEW j \in thisMs', i # j
                 PROVE  {i, j} \in met'
      OBVIOUS
    <3>1. CASE i = k
      BY <2>1, <3>1
    <3>2. CASE j = k
      <4>1. {i, j} = {j, i}
        OBVIOUS
      <4> QED BY <2>1, <3>2, <4>1
    <3>3. CASE i # k /\ j # k
      BY <2>1, <3>3 DEF Clock
    <3> QED BY <3>1, <3>2, <3>3
  <2>3. \A v \in Worker : Remembers(v)'
    BY <2>1, RemembersStays DEF Clock
  <2> QED BY <2>1, <2>2, <2>3 DEF Clock
<1>5. ASSUME NEW k \in Item, BroadcastKnowledge(k) PROVE Clock'
  <2>1. /\ UNCHANGED <<thisMs, met, upset>> /\ k \in thisMs
        /\ \A j \in Item : share'[j].at \in {"store", "broadcast"} =>
                share[j].at \in {"store", "broadcast"}
    BY <1>1, <1>5 DEF BroadcastKnowledge, Clock
  <2>2. \A w \in Worker :
            \/ memory'[w] = memory[w] /\ absorbed'[w] = absorbed[w]
            \/ memory'[w] = absorb(memory[w], k) /\ absorbed'[w] = absorbed[w] \cup {k}
    BY <1>5 DEF BroadcastKnowledge
  <2>3. \A w \in Worker : Remembers(w)'
    BY <2>1, <2>2, AbsorbKeeps, RemembersStays DEF Clock
  <2> QED BY <2>1, <2>3 DEF Clock
<1>6. ASSUME NEW w \in Worker, NEW k \in Item, Absorb(w, k) PROVE Clock'
  <2>1. UNCHANGED <<thisMs, met, upset, share>> /\ k \in thisMs
    BY <1>6 DEF Absorb, Sharing, Clock
  <2>2. \A v \in Worker :
            \/ memory'[v] = memory[v] /\ absorbed'[v] = absorbed[v]
            \/ memory'[v] = absorb(memory[v], k) /\ absorbed'[v] = absorbed[v] \cup {k}
    BY <1>1, <1>6 DEF Absorb, Typed, ItemSets
  <2>3. \A v \in Worker : Remembers(v)'
    BY <2>1, <2>2, AbsorbKeeps, RemembersStays DEF Clock
  <2> QED BY <2>1, <2>3 DEF Clock
<1>7. ASSUME NEW w \in Worker, NEW k \in Item, Inject(w, k) PROVE Clock'
  <2>1. UNCHANGED <<share, thisMs, met>>
    BY <1>7 DEF Inject
  <2>2. \A v \in Worker : Remembers(v)'
    BY <1>7, InjectKeeps
  <2> QED BY <2>1, <2>2 DEF Clock
<1>8. ASSUME NEW k \in Item, Rebroadcast(k) PROVE Clock'
  <2>1. /\ UNCHANGED <<memory, thisMs, met, absorbed, upset>>
        /\ \A j \in Item : share'[j].at \in {"store", "broadcast"} =>
                share[j].at \in {"store", "broadcast"}
    BY <1>1, <1>8 DEF Rebroadcast, Left, OnTheBooks, Share
  <2>2. \A w \in Worker : Remembers(w)'
    BY <2>1, RemembersStays DEF Clock
  <2> QED BY <2>1, <2>2 DEF Clock
<1>9. CASE Tick
  <2>1. /\ UNCHANGED <<share, met, absorbed, upset>> /\ thisMs' \subseteq thisMs
        /\ \A k \in Item : share[k].at \in {"store", "broadcast"} => k \in thisMs'
        /\ \A w \in Worker : memory'[w].settled = Known(w) /\ memory'[w].current = {}
    BY <1>9 DEF Tick, Clock, history
  <2>2. \A w \in Worker : Remembers(w)'
    BY <2>1 DEF Clock, Remembers, Excused, Known
  <2>3. \A j, k \in thisMs' : j # k => {j, k} \in met'
    BY <2>1 DEF Clock
  <2> QED BY <2>1, <2>2, <2>3 DEF Clock
<1>10. \/ UNCHANGED <<memory, share, thisMs, met, absorbed, upset>>
       \/ Tick
       \/ \E w \in Worker :
            \/ Subscribe(w)
            \/ \E k \in Item : ShareKnowledge(w, k) \/ Absorb(w, k) \/ Inject(w, k)
       \/ \E k \in Item : BroadcastKnowledge(k) \/ Rebroadcast(k)
  <2>1. ASSUME \/ UNCHANGED vars
               \/ \E w \in Worker : Hire(w) \/ Retrieve(w) \/ Terminate(w) \/ Leave(w)
        PROVE  UNCHANGED <<memory, share, thisMs, met, absorbed, upset>>
    BY <2>1 DEF vars, history, Hire, Retrieve, Terminate, Leave
  <2> QED BY <2>1 DEF Next
<1> QED BY <1>2, <1>3, <1>4, <1>5, <1>6, <1>7, <1>8, <1>9, <1>10

-----------------------------------------------------------------------------
LEMMA Inductive == Spec => []IInv
<1>1. Init => IInv
  <2> SUFFICES ASSUME Init PROVE IInv
    OBVIOUS
  <2>1. Typed
    <3>1. << >> \in Seq(BaseItem) /\ Len(<< >>) = 0
      BY EmptySeq
    <3>2. [settled |-> {}, current |-> {}] \in Memory /\ Unshared \in Share
      BY KnowledgeAssumption DEF Memory, Unshared, Share
    <3> QED BY <3>1, <3>2 DEF Init, Typed, Place, ItemSets
  <2>2. Arrivals
    BY KnowledgeAssumption DEF Init, Arrivals, Listening, Worker
  <2>3. Clock
    BY DEF Init, Clock, Remembers, Unshared
  <2>4. \A k \in Item : Sharing(k)
    BY DEF Init, Sharing, Unshared
  <2> QED BY <2>1, <2>2, <2>3, <2>4 DEF IInv
<1>2. IInv /\ [Next]_vars => IInv'
  <2> SUFFICES ASSUME IInv, [Next]_vars PROVE IInv'
    OBVIOUS
  <2>1. Typed' /\ Arrivals'
    BY TypedStep, ArrivalsStep DEF IInv
  <2>2. \A k \in Item : Sharing(k)'
    BY <2>1, SharingStep DEF IInv
  <2> QED BY <2>1, <2>2, ClockStep DEF IInv
<1> QED BY <1>1, <1>2, PTL DEF Spec

\* Knowledge, memories and shares are always well formed, for any items.
THEOREM TypeCorrect == Spec => []TypeOK
<1>1. IInv => TypeOK
  <2> SUFFICES ASSUME IInv PROVE TypeOK
    OBVIOUS
  <2>1. \A i \in DOMAIN base : base[i] \in BaseItem
    BY LenProperties, ElementOfSeq DEF IInv, Typed
  <2>2. /\ ItemsIn(base) \subseteq Item
        /\ \A i \in DOMAIN base : base[i].domain \in Domains
    BY <2>1 DEF BaseItem, ItemsIn
  <2> QED BY <2>2 DEF IInv, Typed, Arrivals, TypeOK, Memory, Place, Share, ItemSets
<1> QED BY <1>1, Inductive, PTL

\* For any number of workers and items: a colleague of the sharer can only miss
\* what it was sent between its retrieve and its subscription.
THEOREM OnlyGapLoses == Spec => []OnlyTheGapLoses
<1>1. IInv => OnlyTheGapLoses
  BY DEF IInv, Sharing, OnlyTheGapLoses
<1> QED BY <1>1, Inductive, PTL

\* For any number of workers and items, and however workers recover from errors:
\* what a worker absorbed of a share it knows, unless the item met another one or
\* the worker was injected another one while it was under way.
THEOREM ForgottenUnderLoad == Spec => []ForgottenOnlyUnderLoad
<1>1. IInv => ForgottenOnlyUnderLoad
  BY DEF IInv, Clock, Remembers, Excused, ForgottenOnlyUnderLoad, Known
<1> QED BY <1>1, Inductive, PTL
=============================================================================
