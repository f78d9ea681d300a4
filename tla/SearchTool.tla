------------------------------ MODULE SearchTool ------------------------------
(***************************************************************************)
(* The retrieval tools of one worker (agentic-search/tool.py): the client  *)
(* is built once, the answer to a search is kept for the life of the       *)
(* process, and a backend that fails is an error the model sees.  Calls of *)
(* one worker overlap: each looks into the cache, POSTs and stores, with   *)
(* those of others in between.                                             *)
(*                                                                         *)
(* So an input is a sequence of events: a call is asked, [at, tool, text,  *)
(* top_k, client], where client says whether one could be built then; or   *)
(* the POST of the call asked at an earlier place is answered, [at, call,  *)
(* answer].  A passage is [title, capital, text]; titles that differ in    *)
(* capital only are equal when lowered.  Clipping and the words of an error *)
(* are left out.                                                           *)
(***************************************************************************)
EXTENDS Selection, Integers, FiniteSetsExt

CONSTANTS TopK,             \* QA_SEARCH_TOP_K
          Most              \* 20, the largest top_k

ASSUME ToolConfigOK == Most \in Nat \ {0} /\ TopK \in Int

NotANumber == -1000         \* for a top_k that no int() reads
Short == "x"                \* a text of less than two characters

Answer(rows) == [kind |-> "answer", rows |-> rows]
Malformed == [kind |-> "malformed", rows |-> <<>>]
Down == [kind |-> "down", rows |-> <<>>]

Infra == [kind |-> "infra", rows |-> <<>>]          \* ToolInfraError
TooShort == [kind |-> "refused", rows |-> <<>>]      \* Error: at least 2 characters
None == [kind |-> "none", rows |-> <<>>]
Passages(rows) == IF rows = <<>> THEN None ELSE [kind |-> "passages", rows |-> rows]

Flying == [kind |-> "flying", rows |-> <<>>]         \* nothing yet, its POST is under way
Took == [kind |-> "took", rows |-> <<>>]             \* by an answer: its call got it
Nothing == [kind |-> "nothing", rows |-> <<>>]       \* by an answer to no POST under way

(* A client can be built or not, and an answer's passages are a list.       *)
IsEvent(event) ==
    \/ event.at = "asked" /\ event.client \in BOOLEAN
    \/ event.at = "answered" /\ event.call \in Nat /\ event.answer.rows \in Seq(Range(event.answer.rows))

-----------------------------------------------------------------------------
_rows(answer) == IF answer = Malformed THEN <<>> ELSE answer.rows

_coerce_int(top_k) == IF top_k = NotANumber THEN TopK ELSE top_k
Wanted(top_k) == Max({1, Min({_coerce_int(top_k), Most})})

\* Mutant: the number of results is not in the key.
KeyWithoutK(call) == <<call.tool, call.text>>

Key(call) == <<call.tool, call.text, Wanted(call.top_k)>>

(* A call up to its POST: what is kept is shown, an article is always asked *)
(* for, and without a client there is nothing to ask.                      *)
_search(state, call) ==
    LET kept == {entry \in state._QCACHE : call.tool # "read" /\ entry.key = Key(call)}
        _get_client == state.client \/ call.client
    IN IF call.text = Short THEN [state EXCEPT !.shown = Append(@, TooShort)]
       ELSE IF kept # {} THEN [state EXCEPT !.shown = Append(@, (CHOOSE entry \in kept : TRUE).out)]
       ELSE [state EXCEPT !.client = _get_client, !.shown = Append(@, IF _get_client THEN Flying ELSE Infra)]

(* Of an article only the passages with that title are shown, even if the   *)
(* index ignored the filter.                                               *)
_vs_query(call, event) ==
    LET rows == _rows(event.answer)
    IN IF event.answer = Down THEN Infra
       ELSE IF call.tool = "read" THEN Passages(InOrder(rows, {row \in Range(rows) : row.title = call.text}))
       ELSE Passages(rows)

(* A call from its POST on: no passage is an answer too, and kept, over what *)
(* another call kept meanwhile; an outage is not.                          *)
_stores(state, call, event) ==
    LET out == _vs_query(call, event)
        others == {entry \in state._QCACHE : entry.key # Key(call)}
    IN [state EXCEPT !.shown = Append([@ EXCEPT ![event.call] = out], Took),
                     !._QCACHE = IF call.tool = "read" \/ event.answer = Down THEN @
                                 ELSE others \cup {[key |-> Key(call), out |-> out]}]

Happens(events, state, event) ==
    IF event.at = "asked" THEN _search(state, event)
    ELSE IF event.call \in DOMAIN state.shown /\ state.shown[event.call] = Flying
    THEN _stores(state, events[event.call], event)
    ELSE [state EXCEPT !.shown = Append(@, Nothing)]

Worker(events) ==
    FoldLeft(LAMBDA state, event : Happens(events, state, event),
             [client |-> FALSE, _QCACHE |-> {}, shown |-> <<>>], events)

-----------------------------------------------------------------------------
(* What the model is shown as passages is what the index gave, in whatever  *)
(* order the calls of a worker ask and are answered.  A call that was       *)
(* answered shows just that.  A search that was not shows what the index    *)
(* gave another call of the same tool, query and number of results, never   *)
(* another search's passages; it is not asked again once that was kept; and *)
(* a call shows an outage only if its own POST failed or no client could    *)
(* ever be built, so that no outage is kept.                               *)
ShowsTheIndex(events) ==
    LET shown == Worker(events).shown
        Asked(i) == events[i].at = "asked" /\ events[i].text # Short
        Taken(j) == events[j].at = "answered" /\ shown[j] = Took
        Given(j) == _rows(events[j].answer)
        Same(i, p) == /\ events[p].tool = events[i].tool /\ events[p].text = events[i].text
                      /\ Wanted(events[p].top_k) = Wanted(events[i].top_k)
        Kept(j, i) == /\ Taken(j) /\ events[j].answer # Down /\ events[i].tool # "read"
                      /\ Same(i, events[j].call)
    IN /\ \A j \in DOMAIN events : Taken(j) =>
             LET i == events[j].call
             IN /\ i \in 1..(j - 1) /\ Asked(i)
                /\ shown[i] = Infra <=> events[j].answer = Down
                /\ events[j].answer # Down /\ events[i].tool = "read" =>
                      Range(shown[i].rows) = {row \in Range(Given(j)) : row.title = events[i].text}
                /\ events[j].answer # Down /\ events[i].tool # "read" => shown[i].rows = Given(j)
       /\ \A i \in DOMAIN events : Asked(i) =>
             /\ shown[i] \notin {Flying, Infra} /\ (\A j \in DOMAIN events : Taken(j) => events[j].call # i) =>
                   \E j \in 1..(i - 1) : Kept(j, i) /\ shown[i].rows = Given(j)
             /\ shown[i] = Infra =>
                   \/ \E j \in DOMAIN events : Taken(j) /\ events[j].call = i
                   \/ \A j \in 1..i : Asked(j) => ~events[j].client
             /\ (\E j \in 1..(i - 1) : Kept(j, i)) => shown[i] \notin {Flying, Infra}
=============================================================================
