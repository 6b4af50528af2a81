------------------------------- MODULE Feeds -------------------------------
(***************************************************************************)
(* What a card is built from: the daily files, the odds, the requests to   *)
(* api-football and the web searches, with the budgets that guard them.    *)
(* The workers of the daemon share all of it.                              *)
(*                                                                         *)
(* Every call is cleared before it starts and counts against its budget    *)
(* when it ends, whether it worked or not (external_call).  The count is   *)
(* in a ledger that may drop a row (cost.py:106-120) or not be readable.   *)
(* What may go wrong with a source is bounded by MaxFaults.                *)
(***************************************************************************)
EXTENDS Picks, Sequences

CONSTANTS OddsBudget, Units,   \* odds_api: credits of the month, of one call
          DailyLimit, Brake,   \* brave: searches of 24 hours, of the month
          DayBudget,           \* api_football: requests of the day
          InjuriesTTL,
          Listings,            \* what bookmakers quote: books |-> prices
          Prefer,              \* DEFAULT_PREFER_BOOKS
          NotListed, None,     \* the event is in no listing; no value
          MaxFaults            \* bound of the model

VARIABLES files,     \* the daily products on disk
          credits, searches, requests,  \* history: spent so far
          lost,      \* history: what the ledger has dropped of it
          blind,     \* history: clearances that could not read the ledger
          teamId,    \* teamId[side]: its api-football id is on disk
          fixtureId, \* the fixture's id is in memory
          injuries,  \* injuries[side]: when it was answered, and whether that said anything
          faults

feeds == <<files, credits, searches, requests, lost, blind, teamId, fixtureId,
           injuries, faults>>

spent == <<credits, searches, requests, lost, blind>>
football == <<requests, teamId, fixtureId, injuries>>

Fault(n) == faults + n <= MaxFaults /\ faults' = faults + n

-----------------------------------------------------------------------------
(***************************************************************************)
(* The ledger of calls.  What a budget compares itself with are the rows.  *)
(***************************************************************************)
Metered == {"odds", "search", "request"}

\* A call of so many units has ended; its row may be dropped.
Recorded(kind, units, dropped) ==
  lost' = IF dropped THEN [lost EXCEPT ![kind] = @ + units] ELSE lost

Once(fault) == IF fault THEN 1 ELSE 0

\* A clearance that is given, too, when the ledger cannot be read.
FailsOpen(kind, cleared, open) ==
  /\ cleared => open
  /\ blind' = IF open = cleared THEN blind ELSE [blind EXCEPT ![kind] = @ + 1]

-----------------------------------------------------------------------------
(***************************************************************************)
(* cached_json: what is on disk is used for a day, an empty product like   *)
(* any other; a producer that raises leaves nothing behind.                *)
(***************************************************************************)
Products == {"history", "strengths", "elo"}

Reading(p) == IF files[p] # "absent" THEN {files[p]} ELSE {"full", "empty", "failed"}

\* The fit has the history to work from; without rows it gives no team.
Fitting(history) ==
  IF files["strengths"] # "absent" THEN {files["strengths"]}
  ELSE IF history = "full" THEN {"full", "failed"} ELSE {"empty", "failed"}

Stored(p, outcome) == IF outcome = "failed" THEN files[p] ELSE outcome

Mishap(p, outcome) == IF files[p] = "absent" /\ outcome # "full" THEN 1 ELSE 0

-----------------------------------------------------------------------------
(***************************************************************************)
(* The odds of one event: the first preferred book that quotes it, else    *)
(* the average of what all books say once the margin is taken out.  An     *)
(* event that is not listed has no quote.                                  *)
(***************************************************************************)
NoQuote == [book |-> None, odds |-> NoOdds]

Consensus(listing) ==
  LET books == DOMAIN listing
      total(d) == MapThenSumSet(LAMBDA b : Devig(listing[b])[d], books)
  IN [book |-> "consensus",
      odds |-> [d \in Directions |->
                  (1000 * Cardinality(books)) \div AtLeast(1, total(d))]]

PickBook(listing) ==
  LET quoting == {i \in DOMAIN Prefer : Prefer[i] \in DOMAIN listing}
      first == CHOOSE i \in quoting : \A j \in quoting : i <= j
  IN IF quoting = {} THEN Consensus(listing)
     ELSE [book |-> Prefer[first], odds |-> listing[Prefer[first]]]

\* With no preferred book, one price at or below even makes the average raise.
Quote(event) ==
  IF event = NotListed THEN NoQuote
  ELSE IF \E i \in DOMAIN Prefer : Prefer[i] \in DOMAIN event THEN PickBook(event)
  ELSE IF \A b \in DOMAIN event : Usable(event[b]) THEN Consensus(event)
  ELSE NoQuote

Events == Listings \cup {NotListed}

\* fetch_all_odds: what it finds out, None when it raises.
FetchAllOdds(event) ==
  /\ credits' = credits + Units
  /\ \E dropped \in BOOLEAN : /\ Recorded("odds", Units, dropped)
                              /\ Fault(Once(event = None) + Once(dropped))

\* Without a readable ledger the odds are fetched all the same (oddsapi.py:212-219).
OddsCleared == credits - lost["odds"] < OddsBudget

-----------------------------------------------------------------------------
(***************************************************************************)
(* Web searches.  The count of the last 24 hours fails open, the check of  *)
(* the month fails closed (web_search.py:46-102).                          *)
(***************************************************************************)
\* Slip: the last search of a budget is cleared once more.
SearchClearedLate == searches - lost["search"] <= Brake /\ searches - lost["search"] <= DailyLimit

SearchCleared == searches - lost["search"] < Brake /\ searches - lost["search"] < DailyLimit

SearchGate(open) ==
  \/ open = SearchCleared /\ UNCHANGED <<blind, faults>>
  \/ /\ open /\ searches - lost["search"] \in DailyLimit..(Brake - 1)
     /\ Fault(1) /\ blind' = [blind EXCEPT !["search"] = @ + 1]
  \/ ~open /\ SearchCleared /\ Fault(1) /\ UNCHANGED blind

Searched == /\ searches' = searches + 1
            /\ \E dropped \in BOOLEAN : Recorded("search", 1, dropped) /\ Fault(Once(dropped))

-----------------------------------------------------------------------------
(***************************************************************************)
(* api-football.  A request is cleared against the budget of the day, or   *)
(* because the ledger cannot be read (api_football.py:76-83), then sent;   *)
(* ids are kept for good, injuries for a while: also a failure, as if      *)
(* nobody were injured.                                                    *)
(***************************************************************************)
Sides == {"home", "away"}

RequestCleared == requests - lost["request"] < DayBudget

NoInjuries == [at |-> -1, told |-> FALSE]

Heard(side) == injuries[side].at >= 0

Remembered(side, now) == Heard(side) /\ now - injuries[side].at < InjuriesTTL

\* The answer is in no cache that may be used now; injuries that are too old still are
\* when nothing new may be asked for.
Needed(r, now, cleared) ==
  CASE r.kind = "fixture"  -> ~fixtureId
    [] r.kind = "lineups"  -> fixtureId
    [] r.kind = "team"     -> ~teamId[r.side]
    [] r.kind = "injuries" -> teamId[r.side] /\ ~Remembered(r.side, now)
                                /\ (Heard(r.side) => cleared)

Remember(r, now, told) ==
  injuries' = IF r.kind = "injuries"
              THEN [injuries EXCEPT ![r.side] = [at |-> now, told |-> told]] ELSE injuries

\* A request the budget stopped, or that brought nothing.
Unanswered(r, now) == Remember(r, now, FALSE) /\ UNCHANGED <<teamId, fixtureId>>

Answered(r, now) ==
  /\ Remember(r, now, TRUE)
  /\ fixtureId' = (fixtureId \/ r.kind = "fixture")
  /\ teamId' = IF r.kind = "team" THEN [teamId EXCEPT ![r.side] = TRUE] ELSE teamId
=============================================================================
