------------------------------- MODULE Enrich -------------------------------
(***************************************************************************)
(* The enrich flow (flows/enrich.py, enrich.py): list the items of one      *)
(* collection once, then for each ask the LLM and PUT the whole item, as it *)
(* was listed, back with the answer merged in.                              *)
(***************************************************************************)
EXTENDS Lake

CONSTANTS
    Enrichers,       \* runs of the enrich flow
    Collection,      \* the collection each run is given
    Allowed,         \* classifications that may be sent to the LLM
    ListLimit        \* the limit parameter of the listing

Answers == {"none", "classification", "already", "error", "untitled", "enriched"}

EnrichStates == [
    pc : {"list", "next", "ask", "put", "done", "failed"},
    read : [Items -> ItemRecords \cup {NoItem}],   \* the items as listed
    todo : SUBSET Items,                           \* items still to be handled
    item : Items \cup {NoItem},                    \* the item at hand
    titled : BOOLEAN,                              \* the LLM's title is not empty
    answer : [Items -> Answers]]                   \* what the flow returns

ASSUME EnrichAssumption ==
    /\ Collection \in [Enrichers -> Domains]
    /\ Allowed \subseteq Classes
    /\ ListLimit \in Nat \ {0}

VARIABLE enrich

EnrichTypeOK == enrich \in [Enrichers -> EnrichStates]

EnrichInit ==
    enrich = [e \in Enrichers |->
        [pc |-> "list", read |-> [i \in Items |-> NoItem], todo |-> {}, item |-> NoItem,
         titled |-> FALSE, answer |-> [i \in Items |-> "none"]]]

-----------------------------------------------------------------------------

InCollection(d) == {i \in Items : DomainOf[i] = d /\ Catalogued(i)}

(* A listing: everything, or as much of it as the limit admits.             *)
Listings(S) ==
    {T \in SUBSET S : IF Cardinality(S) <= ListLimit THEN T = S ELSE Cardinality(T) = ListLimit}

ListItems(e) ==
    /\ enrich[e].pc = "list"
    /\ \E T \in Listings(InCollection(Collection[e])) :
         enrich' = [enrich EXCEPT ![e].pc = "next", ![e].todo = T,
             ![e].read = [i \in Items |-> IF i \in T THEN catalog[i] ELSE NoItem]]
    /\ UNCHANGED lakeVars

ListFails(e) ==
    /\ enrich[e].pc = "list"
    /\ enrich' = [enrich EXCEPT ![e].pc = "failed"]
    /\ UNCHANGED lakeVars

Answered(e, i, a) ==
    enrich' = [enrich EXCEPT ![e].pc = "next", ![e].todo = @ \ {i}, ![e].item = NoItem,
                             ![e].titled = FALSE, ![e].answer[i] = a]

(* Mutant of TakeItem: the classification is not looked at.                 *)
TakeAnyItem(e) ==
    /\ enrich[e].pc = "next"
    /\ \E i \in enrich[e].todo :
         IF enrich[e].read[i].enriched THEN Answered(e, i, "already")
         ELSE enrich' = [enrich EXCEPT ![e].pc = "ask", ![e].item = i]
    /\ UNCHANGED lakeVars

(* enrich_one up to the call of the LLM: both tests look at the listed item. *)
TakeItem(e) ==
    /\ enrich[e].pc = "next"
    /\ \E i \in enrich[e].todo : LET rec == enrich[e].read[i] IN
         CASE rec.cls \notin Allowed -> Answered(e, i, "classification")
           [] rec.cls \in Allowed /\ rec.enriched -> Answered(e, i, "already")
           [] OTHER -> enrich' = [enrich EXCEPT ![e].pc = "ask", ![e].item = i]
    /\ UNCHANGED lakeVars

(* The LLM answers with a usable object; its title may be missing.          *)
AskLlm(e) ==
    /\ enrich[e].pc = "ask"
    /\ \E t \in BOOLEAN : enrich' = [enrich EXCEPT ![e].pc = "put", ![e].titled = t]
    /\ UNCHANGED lakeVars

(* Mutant of AskFails: the item is taken up again.                          *)
AskFailsAndRetries(e) ==
    /\ enrich[e].pc = "ask"
    /\ enrich' = [enrich EXCEPT ![e].pc = "next", ![e].item = NoItem]
    /\ UNCHANGED lakeVars

AskFails(e) ==
    /\ enrich[e].pc = "ask"
    /\ Answered(e, enrich[e].item, "error")
    /\ UNCHANGED lakeVars

(* Mutants of Enriched: only the answer is sent; the listed properties are  *)
(* replaced, not merged.                                                    *)
EnrichedAlone(e) == [enriched |-> enrich[e].titled]

EnrichedOnly(e) ==
    [enrich[e].read[enrich[e].item] EXCEPT !.enriched = enrich[e].titled, !.curated = FALSE]

(* {**item, "properties": {**props, **enriched}}                            *)
Enriched(e) == [enrich[e].read[enrich[e].item] EXCEPT !.enriched = enrich[e].titled]

(* The PUT replaces the item; it is answered 404 when the item is gone.     *)
PutEnriched(e) ==
    LET i == enrich[e].item IN
    /\ enrich[e].pc = "put"
    /\ IF Catalogued(i)
       THEN /\ WriteItem(i, Enriched(e))
            /\ Answered(e, i, IF enrich[e].titled THEN "enriched" ELSE "untitled")
       ELSE /\ Answered(e, i, "error")
            /\ UNCHANGED catalog
    /\ UNCHANGED <<collections, objects>>

(* The PUT fails without effect, or its answer is lost.                     *)
PutEnrichedFails(e) ==
    LET i == enrich[e].item IN
    /\ enrich[e].pc = "put"
    /\ \/ UNCHANGED catalog
       \/ Catalogued(i) /\ WriteItem(i, Enriched(e))
    /\ Answered(e, i, "error")
    /\ UNCHANGED <<collections, objects>>

EnrichDone(e) ==
    /\ enrich[e].pc = "next"
    /\ enrich[e].todo = {}
    /\ enrich' = [enrich EXCEPT ![e].pc = "done"]
    /\ UNCHANGED lakeVars

EnrichStep(e) ==
    ListItems(e) \/ TakeItem(e) \/ AskLlm(e) \/ PutEnriched(e) \/ EnrichDone(e)

EnrichFault(e) == ListFails(e) \/ AskFails(e) \/ PutEnrichedFails(e)

EnrichNext == \E e \in Enrichers : EnrichStep(e) \/ EnrichFault(e)
=============================================================================
