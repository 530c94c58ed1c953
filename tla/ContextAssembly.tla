--------------------------- MODULE ContextAssembly ---------------------------
(***************************************************************************)
(* MemoryManager.assembleContext: working memory and the embedding come    *)
(* first and must be there; the three other tiers are searched in parallel *)
(* and one that fails contributes nothing.  What they return is packed     *)
(* into what working memory leaves of the token budget, the most relevant  *)
(* first.                                                                  *)
(*                                                                         *)
(* A memory source is its tier and id, relevance and tokens; its content   *)
(* is left out, and so is storeEpisode, which only passes its arguments to *)
(* two ports.                                                              *)
(***************************************************************************)
EXTENDS Integers, FiniteSets, SequencesExt

CONSTANTS SourceId,        \* what the stores call their entries
          Results,         \* what a search may return: sequences of entries
          WorkingTokens,   \* what working memory may take, 0 if there is none
          TokenBudget      \* request.tokenBudget

Entry == [sourceId : SourceId, relevance : Nat, tokens : Nat]

\* A store names its entries apart and returns none of them twice.
ASSUME ContextAssumption ==
    /\ WorkingTokens \subseteq Nat /\ TokenBudget \in Nat
    /\ \A r \in Results : /\ r \in Seq(Entry)
                          /\ \A i, j \in DOMAIN r : r[i].sourceId = r[j].sourceId => i = j

VARIABLE ctx   \* the call: where it waits, what it has found, its bundle

NoContext == [at |-> "returned", working |-> 0, sources |-> << >>,
              selected |-> << >>, total |-> 0, truncated |-> FALSE, reply |-> "none"]

\* The sources made of what a tier's search returned.
Built(tier, found) ==
    [i \in DOMAIN found |-> [tier |-> tier, sourceId |-> found[i].sourceId,
                             relevance |-> found[i].relevance, tokens |-> found[i].tokens]]

\* reduce: the sum after the first i sources.
Sums(sources) ==
    LET sum[i \in 0 .. Len(sources)] ==
            IF i = 0 THEN 0 ELSE sum[i - 1] + sources[i].tokens
    IN  sum

countTokens(sources) == Sums(sources)[Len(sources)]

\* sort is stable: equally relevant sources keep the order of the tiers.
ByRelevance(sources) ==
    LET Before(i, j) == \/ sources[i].relevance > sources[j].relevance
                        \/ sources[i].relevance = sources[j].relevance /\ i < j
        Place(i) == 1 + Cardinality({j \in DOMAIN sources : Before(j, i)})
    IN  [k \in DOMAIN sources |-> sources[CHOOSE i \in DOMAIN sources : Place(i) = k]]

\* A limit that is not used up.
Considered_Below(l, s, budget) ==
    IF l.used + s.tokens < budget
    THEN [selected |-> Append(l.selected, s), used |-> l.used + s.tokens] ELSE l

\* A source that does not fit is skipped and the next one tried.
Considered(l, s, budget) ==
    IF l.used + s.tokens <= budget
    THEN [selected |-> Append(l.selected, s), used |-> l.used + s.tokens] ELSE l

\* What the loop has selected after the first i sources.
Selections(sorted, budget) ==
    LET after[i \in 0 .. Len(sorted)] ==
            IF i = 0 THEN [selected |-> << >>, used |-> 0]
            ELSE Considered(after[i - 1], sorted[i], budget)
    IN  after

selectWithinBudget(sources, budget) ==
    Selections(ByRelevance(sources), budget)[Len(sources)].selected

assembleContext == /\ ctx.at = "returned"
                   /\ ctx' = [NoContext EXCEPT !.at = "workingStore"]

Rejected == [NoContext EXCEPT !.reply = "rejected"]

WorkingMemoryRead ==
    /\ ctx.at = "workingStore"
    /\ \/ \E n \in WorkingTokens : ctx' = [ctx EXCEPT !.at = "embed", !.working = n]
       \/ ctx' = Rejected

Embedded == /\ ctx.at = "embed"
            /\ ctx' = [ctx EXCEPT !.at = "retrieval"] \/ ctx' = Rejected

\* Promise.allSettled returned: a tier that failed is as one that is empty.
Retrieved ==
    /\ ctx.at = "retrieval"
    /\ \E found \in [1 .. 3 -> Results \cup {<< >>}] :
         LET sources == Built("episodic", found[1]) \o Built("semantic", found[2])
                                                    \o Built("procedural", found[3])
             selected == selectWithinBudget(sources, TokenBudget - ctx.working)
         IN  ctx' = [ctx EXCEPT !.at = "returned", !.sources = sources,
                        !.selected = selected,
                        !.total = ctx.working + countTokens(selected),
                        !.truncated = Len(selected) < Len(sources),
                        !.reply = "ok"]

ContextStep == WorkingMemoryRead \/ Embedded \/ Retrieved

-----------------------------------------------------------------------------
\* A bundle keeps to the token budget unless working memory alone exceeds it;
\* it is marked as truncated exactly if a source is missing; and a source is
\* missing only if it did not fit beside the first n that were chosen, which
\* are no less relevant (selectWithinBudget and its use in assembleContext).
ContextWithinBudget ==
    LET budget == TokenBudget - ctx.working
        left == ToSet(ctx.sources) \ ToSet(ctx.selected)
    IN  ctx.reply = "ok" =>
            /\ ctx.total <= TokenBudget \/ ctx.total = ctx.working
            /\ ctx.truncated <=> left # {}
            /\ \A s \in left : \E n \in 0 .. Len(ctx.selected) :
                 /\ \A i \in 1 .. n : ctx.selected[i].relevance >= s.relevance
                 /\ countTokens(SubSeq(ctx.selected, 1, n)) + s.tokens > budget
=============================================================================
