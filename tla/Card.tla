-------------------------------- MODULE Card --------------------------------
(***************************************************************************)
(* The cards of one match, from the tick that dispatches a window to the   *)
(* message that goes out: build_card with its ladder of degradations, the  *)
(* news agent, the row in predictions, the tilt, the channels.             *)
(*                                                                         *)
(* Every window is one job of the pool, so after an outage several windows *)
(* of the match are built at the same time and share the feeds.            *)
(***************************************************************************)
EXTENDS Feeds, News

CONSTANTS Windows, Lead,      \* the windows and their time before the kickoff
          Order,              \* WINDOW_PREFERENCE of latest_snapshot
          Kickoff, CatchUp, MaxTime,
          Fired,              \* sets of windows that may be on record already, as failed
          OddsWindows, SearchWindows, LineupWindows, ReuseWindows,
          Primary,            \* T-60m, whose news later windows may reuse
          ReuseAge,           \* T15M_REUSE_AGE_MIN
          Quota, MaxQueries,  \* QUERIES_PER_WINDOW, NEWS_MAX_QUERIES
          Variants,           \* names api-football may know the team by
          Texts,              \* what a chain of providers may come back with
          Settings,           \* stage and detonator of the match
          Standings,          \* what a read of the standings may find: table, games left
          FitGoals, RatedHome, FlatHome,  \* DC goals; Elo expectation, rated or not
          People, Operator,               \* who is tracked, MY_PARTICIPANT
          GlobalTilt, Overrides           \* STRATEGY_TILT, STRATEGY_OVERRIDES

\* T-60m takes nothing over from itself; the month allows at least a day's searches.
ASSUME CardAssumption ==
  /\ IsFiniteSet(Windows) /\ Order \in Seq(Windows) /\ Order # <<>>
  /\ Primary \in Windows \ ReuseWindows /\ SearchWindows \subseteq Windows
  /\ LineupWindows \subseteq SearchWindows
  /\ MaxTime \in Nat /\ MaxFaults \in Nat /\ Variants \in Nat
  /\ Quota \in [Windows -> Nat] /\ MaxQueries \in Nat
  /\ Units \in Nat /\ OddsBudget \in Nat /\ 1 + 2 * Units <= OddsBudget
  /\ DailyLimit \in Nat \ {0} /\ Brake \in Nat /\ DailyLimit <= Brake
  /\ DayBudget \in Nat /\ 2 <= DayBudget
  /\ \A t \in Texts : \/ t.data = NonDict
                       \/ {t.data.home, t.data.away} \subseteq Int \cup {NaN, Junk, Huge}

VARIABLES now, pc,
          events,   \* events[w]: what the tick's odds call said for w
          togo,     \* togo[w]: searches still to make
          asking,   \* asking[w]: api-football requests still to make
          used, failed, quote, news,  \* what build_card has so far
          prior,    \* the row of T-60m in predictions: when, and its corrections
          snaps,    \* odds_snapshots
          card,     \* card[w]: what build_card returned, while it goes out
          locked    \* the odds the card of the lock window was made for

job == <<used, failed, quote, news>>
vars == <<now, pc, events, togo, asking, job, prior, snaps, card, locked, feeds>>

AllSignals == {"dixon_coles", "elo", "market", "news"}
Stages == {"Group", "R32", "R16", "QF", "SF", "3rd", "Final"}
From(n, who) == [home |-> n.home, away |-> n.away, conf |-> n.conf, from |-> who]
NoNews == From(Neutral, "nobody")

\* The requests of one job: the fixture and its lineups, then for either side its id and
\* its injuries.  find_team_id asks for each of the names twice: in the tournament, then
\* anywhere.
OfSide == 2 * Variants + 1
RequestCount == 2 + 2 * OfSide

RequestAt(n) ==
  CASE n = 1 -> [kind |-> "fixture"]
    [] n = 2 -> [kind |-> "lineups"]
    [] n > 2 -> [kind |-> IF n \in {2 + OfSide, RequestCount} THEN "injuries" ELSE "team",
                 side |-> IF n <= 2 + OfSide THEN "home" ELSE "away"]

\* What search_queries has to ask in a window, and how much of it is allowed.
Templates(w) == CASE w = "T24" -> 3 [] w = "T15" -> 2 [] w \notin {"T24", "T15"} -> 4

Queries(w) == AtMost(MaxQueries, AtMost(Quota[w], Templates(w)))

-----------------------------------------------------------------------------
Init ==
  /\ now = 0
  /\ \E S \in Fired : pc = [w \in Windows |-> IF w \in S THEN "done" ELSE "idle"]
  /\ events = [w \in Windows |-> None]
  /\ togo = [w \in Windows |-> 0] /\ asking = [w \in Windows |-> 0]
  /\ used = [w \in Windows |-> {}] /\ failed = [w \in Windows |-> {}]
  /\ quote = [w \in Windows |-> NoQuote] /\ news = [w \in Windows |-> NoNews]
  /\ prior = None /\ snaps = [w \in Windows |-> None]
  /\ card = [w \in Windows |-> None] /\ locked = NoOdds
  /\ files = [p \in Products |-> "absent"]
  /\ credits = OddsBudget - 1 - 2 * Units /\ searches = DailyLimit - 1
  /\ requests = DayBudget - 2
  /\ teamId = [side \in Sides |-> FALSE] /\ fixtureId = FALSE
  /\ injuries = [side \in Sides |-> NoInjuries] /\ faults = 0
  /\ lost = [kind \in Metered |-> 0] /\ blind = [kind \in Metered |-> 0]

Advance == now < MaxTime /\ now' = now + 1
           /\ UNCHANGED <<pc, events, togo, asking, job, prior, snaps, card, locked, feeds>>

Due == {w \in Windows : /\ pc[w] = "idle" /\ now < Kickoff
                        /\ now - (Kickoff - Lead[w]) \in 0..CatchUp}

\* Goto: one worker moves on, its window's other variables stay.
Goto(w, label) == pc' = [pc EXCEPT ![w] = label]

(***************************************************************************)
(* One tick.  The odds are fetched once for all its windows, whatever the  *)
(* ledger says; a tick without an odds window fetches nothing.             *)
(***************************************************************************)
Tick ==
  /\ Due # {}
  /\ pc' = [w \in Windows |-> IF w \in Due THEN "models" ELSE pc[w]]
  /\ IF Due \cap OddsWindows = {}
     THEN UNCHANGED <<events, credits, lost, faults>>
     ELSE \E e \in Events \cup {None} :
            /\ FetchAllOdds(e)
            /\ events' = [w \in Windows |-> IF w \in Due \cap OddsWindows THEN e ELSE events[w]]
  /\ UNCHANGED <<now, togo, asking, job, prior, snaps, card, locked, files, searches,
                 requests, blind, teamId, fixtureId, injuries>>

(***************************************************************************)
(* Sections 1 and 2: the fit and the ratings.                              *)
(***************************************************************************)
LoadModels(w) ==
  /\ pc[w] = "models" /\ Goto(w, "market")
  /\ \E h \in Reading("history"), e \in Reading("elo") : \E s \in Fitting(h) :
       LET fit == IF h = "failed" THEN "failed" ELSE s
           good == {x \in {"dixon_coles", "elo"} :
                      IF x = "elo" THEN e = "full" ELSE fit = "full"}
       IN /\ Fault(Mishap("history", h) + Mishap("elo", e)
                   + IF h = "full" /\ fit = "failed" THEN 1 ELSE 0)
          /\ files' = [history |-> Stored("history", h), elo |-> Stored("elo", e),
                       strengths |-> Stored("strengths", fit)]
          /\ used' = [used EXCEPT ![w] = good]
          /\ failed' = [failed EXCEPT ![w] = {"dixon_coles", "elo"} \ good]
  /\ UNCHANGED <<now, events, togo, asking, quote, news, prior, snaps, card, locked,
                 spent, teamId, fixtureId, injuries>>

(***************************************************************************)
(* Section 3: the odds, which are also the multiplier of the points.  A    *)
(* quote that is used is kept as a snapshot of this window; the card does  *)
(* not notice when that fails.                                             *)
(***************************************************************************)
NoMarket(w) ==
  /\ failed' = [failed EXCEPT ![w] = @ \cup {"market"}]
  /\ UNCHANGED <<used, quote, snaps>>

\* Slip: a snapshot that fails is handled like a quote that failed.
PricedInOneTry(w, event, mishaps) ==
  IF ~Usable(Quote(event).odds) THEN NoMarket(w) /\ Fault(mishaps)
  ELSE /\ used' = [used EXCEPT ![w] = @ \cup {"market"}]
       /\ quote' = [quote EXCEPT ![w] = Quote(event)]
       /\ \/ /\ snaps' = [snaps EXCEPT ![w] = Quote(event)] /\ UNCHANGED failed
             /\ Fault(mishaps)
          \/ UNCHANGED snaps /\ Fault(1 + mishaps) /\ failed' = [failed EXCEPT ![w] = @ \cup {"market"}]

Priced(w, event, mishaps) ==
  IF ~Usable(Quote(event).odds) THEN NoMarket(w) /\ Fault(mishaps)
  ELSE /\ used' = [used EXCEPT ![w] = @ \cup {"market"}]
       /\ quote' = [quote EXCEPT ![w] = Quote(event)]
       /\ \/ snaps' = [snaps EXCEPT ![w] = Quote(event)] /\ Fault(mishaps)
          \/ UNCHANGED snaps /\ Fault(1 + mishaps)
       /\ UNCHANGED failed

Market(w) ==
  /\ pc[w] = "market"
  /\ \/ /\ w \notin OddsWindows \/ ~OddsCleared
        /\ NoMarket(w) /\ Goto(w, "news") /\ UNCHANGED <<blind, faults>>
     \/ /\ w \in OddsWindows /\ FailsOpen("odds", OddsCleared, TRUE) /\ events[w] # None
        /\ Priced(w, events[w], Once(~OddsCleared)) /\ Goto(w, "news")
     \/ /\ w \in OddsWindows /\ FailsOpen("odds", OddsCleared, TRUE) /\ events[w] = None
        /\ Goto(w, "fetching") /\ Fault(Once(~OddsCleared))
        /\ UNCHANGED <<used, failed, quote, snaps>>
  /\ events' = [events EXCEPT ![w] = None]
  /\ UNCHANGED <<now, togo, asking, news, prior, card, locked, files, credits, searches,
                 lost, football>>

\* fetch_match_odds without the tick's events: a call for this match alone.
Fetching(w) ==
  /\ pc[w] = "fetching" /\ Goto(w, "news")
  /\ credits' = credits + Units
  /\ \E dropped \in BOOLEAN :
       /\ Recorded("odds", Units, dropped)
       /\ \/ \E e \in Events : Priced(w, e, Once(dropped))
          \/ NoMarket(w) /\ Fault(1 + Once(dropped))
  /\ UNCHANGED <<now, events, togo, asking, news, prior, card, locked, files, searches,
                 blind, football>>
-----------------------------------------------------------------------------
(***************************************************************************)
(* Section 4, the news.  T-15m and T-7m first look for the row of T-60m;   *)
(* the lock window never searches.                                         *)
(***************************************************************************)
\* The row holds corrections that were discounted already; they are again.
Reused(w) ==
  news' = [news EXCEPT ![w] = From(Discount(ValidateAndClamp(prior.news)), "prior")]

HasPrior(w) == w \in ReuseWindows /\ prior # None /\ Reusable(prior, now, ReuseAge)

StartNews(w) ==
  /\ pc[w] = "news"
  /\ \/ /\ HasPrior(w) /\ Reused(w) /\ Goto(w, "assemble")
        /\ used' = [used EXCEPT ![w] = @ \cup {"news"}]
        /\ UNCHANGED <<asking, faults>>
     \/ /\ IF HasPrior(w) THEN Fault(1) ELSE UNCHANGED faults
        /\ w \notin SearchWindows
        /\ Goto(w, "assemble")
        /\ news' = [news EXCEPT ![w] = NoNews]
        /\ used' = [used EXCEPT ![w] = @ \cup {"news"}]
        /\ UNCHANGED asking
     \/ /\ IF HasPrior(w) THEN Fault(1) ELSE UNCHANGED faults
        /\ w \in SearchWindows
        /\ Goto(w, IF w \in LineupWindows THEN "asking" ELSE "searching")
        /\ asking' = [asking EXCEPT ![w] = 1]
        /\ UNCHANGED <<news, used>>
  /\ UNCHANGED <<now, events, togo, failed, quote, prior, snaps, card, locked, files,
                 spent, teamId, fixtureId, injuries>>

(***************************************************************************)
(* gather_context: api-football, one request after the other ...           *)
(***************************************************************************)
\* The requests from the i-th on that no cache answers, if the budget says so.
StillNeeded(i, cleared) ==
  {k \in i..RequestCount : Needed(RequestAt(k), now, cleared)}

\* The next of them is put to the budget: sent, or given up.
Put(w, k, cleared) ==
  \/ /\ cleared /\ Goto(w, "asked") /\ asking' = [asking EXCEPT ![w] = k]
     /\ UNCHANGED <<teamId, fixtureId, injuries>>
  \/ /\ ~cleared /\ UNCHANGED pc /\ asking' = [asking EXCEPT ![w] = k + 1]
     /\ Unanswered(RequestAt(k), now)

Ask(w) ==
  /\ pc[w] = "asking"
  /\ \/ /\ StillNeeded(asking[w], RequestCleared) = {}
        /\ Goto(w, "searching") /\ asking' = [asking EXCEPT ![w] = 0]
        /\ UNCHANGED <<teamId, fixtureId, injuries, blind, faults>>
     \/ \E cleared \in BOOLEAN : \E k \in StillNeeded(asking[w], cleared) :
          /\ \A n \in StillNeeded(asking[w], cleared) : k <= n
          /\ FailsOpen("request", RequestCleared, cleared)
          /\ Fault(Once(cleared # RequestCleared))
          /\ Put(w, k, cleared)
  /\ UNCHANGED <<now, events, togo, job, prior, snaps, card, locked, files, credits,
                 searches, requests, lost>>

AnswerRequest(w) ==
  /\ pc[w] = "asked" /\ Goto(w, "asking")
  /\ asking' = [asking EXCEPT ![w] = @ + 1]
  /\ requests' = requests + 1
  /\ \E dropped \in BOOLEAN :
       /\ Recorded("request", 1, dropped)
       /\ \/ Answered(RequestAt(asking[w]), now) /\ Fault(Once(dropped))
          \/ Unanswered(RequestAt(asking[w]), now) /\ Fault(1 + Once(dropped))
  /\ UNCHANGED <<now, events, togo, job, prior, snaps, card, locked, files, credits,
                 searches, blind>>

(***************************************************************************)
(* ... then the web: the gate once for the source, and before each query.  *)
(***************************************************************************)
OpenSearch(w) ==
  /\ pc[w] = "searching"
  /\ \E open \in BOOLEAN :
       /\ SearchGate(open)
       /\ togo' = [togo EXCEPT ![w] = IF open THEN Queries(w) ELSE 0]
       /\ Goto(w, IF open /\ Queries(w) > 0 THEN "query" ELSE "json")
  /\ UNCHANGED <<now, events, asking, job, prior, snaps, card, locked, files, credits,
                 searches, lost, football>>

Query(w) ==
  /\ pc[w] = "query"
  /\ \E open \in BOOLEAN :
       /\ SearchGate(open)
       /\ togo' = [togo EXCEPT ![w] = @ - 1]
       /\ Goto(w, IF open THEN "queried" ELSE IF togo[w] = 1 THEN "json" ELSE "query")
  /\ UNCHANGED <<now, events, asking, job, prior, snaps, card, locked, files, credits,
                 searches, lost, football>>

EndQuery(w) ==
  /\ pc[w] = "queried" /\ Searched
  /\ Goto(w, IF togo[w] = 0 THEN "json" ELSE "query")
  /\ UNCHANGED <<now, events, togo, asking, job, prior, snaps, card, locked, files,
                 credits, blind, football>>

(***************************************************************************)
(* The chain of providers, first in JSON mode, then in plain text; the     *)
(* text is the one that was accepted, or the last.  A correction that is   *)
(* no number counts as zero; one too large for a float raises, and then    *)
(* the whole answer counts as none.                                        *)
(***************************************************************************)
Analysed(w, text) ==
  /\ news' = [news EXCEPT ![w] = From(Discount(ValidateAndClamp(text.data)), "llm")]
  /\ used' = [used EXCEPT ![w] = @ \cup {"news"}]
  /\ Goto(w, "assemble") /\ UNCHANGED <<failed, faults>>

Unanalysed(w) ==
  /\ failed' = [failed EXCEPT ![w] = @ \cup {"news"}]
  /\ news' = [news EXCEPT ![w] = NoNews]
  /\ Goto(w, "assemble") /\ UNCHANGED <<used, faults>>

AskModel(w) ==
  /\ pc[w] \in {"json", "plain"}
  /\ \E text \in Texts :
       \/ Corrects(text) /\ Analysed(w, text)
       \/ Parsed(text) /\ ~Corrects(text) /\ Unanalysed(w)
       \/ /\ ~Parsed(text) /\ pc[w] = "json" /\ Goto(w, "plain")
          /\ Fault(1) /\ UNCHANGED <<used, failed, news>>
       \/ ~Parsed(text) /\ pc[w] = "plain" /\ Unanalysed(w)
  /\ UNCHANGED <<now, events, togo, asking, quote, prior, snaps, card, locked, files,
                 spent, football>>

-----------------------------------------------------------------------------
(***************************************************************************)
(* Sections 5 to 10: the pick, the audit trail, the advice, the row.       *)
(***************************************************************************)
Shifts ==
  LET fresh == {Discount(ValidateAndClamp(t.data)) : t \in {x \in Texts : Corrects(x)}}
      again == {Discount(ValidateAndClamp(n)) : n \in fresh}
  IN {<<n.home, n.away>> : n \in fresh \cup again \cup {Neutral}}

(***************************************************************************)
(* Everything a card says that its inputs decide: whether there is a fit   *)
(* and a rating, the shift by the news, the odds, the setting.             *)
(***************************************************************************)
Quotes == {Quote(e).odds : e \in Events} \cup {NoOdds}

Fits == [fit \in BOOLEAN |-> [shift \in Shifts |->
           Fit(IF fit THEN FitGoals ELSE NeutralGoals, shift)]]
FitsProbs == [fit \in BOOLEAN |-> [shift \in Shifts |-> FitProbs(Fits[fit][shift])]]
Ratings == [rated \in BOOLEAN |-> EloOutcome(IF rated THEN RatedHome ELSE FlatHome)]
Markets == [odds \in Quotes |-> [rated \in BOOLEAN |->
              IF Usable(odds) THEN Devig(odds) ELSE Ratings[rated]]]

Sources ==
  {[fit |-> fit, rated |-> rated, shift |-> shift, odds |-> odds] :
     fit \in BOOLEAN, rated \in BOOLEAN, shift \in Shifts, odds \in Quotes}

Forecasts ==
  [i \in Sources |->
     LET dc == FitsProbs[i.fit][i.shift]
         elo == Ratings[i.rated]
         market == Markets[i.odds][i.rated]
     IN [fit |-> Fits[i.fit][i.shift], probs |-> Blended(dc, elo, market),
         votes |-> {Dominant(dc), Dominant(elo), Dominant(market)}]]

Valued(odds, s) == Usable(odds) /\ s.stage \in Stages

\* How the card came about: ev_pathway, or "alert" when match_card raised.
Pathway(odds, s) == IF Valued(odds, s) THEN "ev_optimized"
                    ELSE IF Usable(odds) THEN "alert" ELSE "modal_fallback"

Inputs == {<<i, s>> : i \in Sources, s \in Settings}

Rankings ==
  [q \in Inputs |->
     LET i == q[1]
         s == q[2]
     IN IF Valued(i.odds, s) THEN RankScores(Forecasts[i], s.stage, i.odds, s.detonator)
        ELSE {}]

Candidates ==
  [q \in Inputs |->
     IF ~Valued(q[1].odds, q[2]) THEN {}
     ELSE Gated(Rankings[q], Forecasts[q[1]].probs,
                Thresholds(StageType(q[2].stage), q[2].detonator))]

\* match_card, or the alert card when it raises.
MatchCards ==
  [q \in Inputs |->
     IF Valued(q[1].odds, q[2])
     THEN Recommend(Candidates[q], Forecasts[q[1]].probs,
                    Thresholds(StageType(q[2].stage), q[2].detonator))
     ELSE IF Usable(q[1].odds) THEN AlertCard ELSE ModalCard(Forecasts[q[1]])]

(***************************************************************************)
(* The tilt of a person: an override of their own, else everybody's, from  *)
(* 0 to 100 percent.  There is advice when somebody may be told something  *)
(* else than the card says.                                                *)
(***************************************************************************)
Overridden(x) == x \in DOMAIN Overrides

TiltOf(x) ==
  AtMost(100, AtLeast(0, IF Overridden(x) THEN Overrides[x] ELSE GlobalTilt))

Enabled ==
  IF Cardinality(People) < 2 THEN DOMAIN Overrides # {}
  ELSE \E x \in People : TiltOf(x) # GlobalTilt \/ Overridden(x)

(***************************************************************************)
(* recommend_to_win makes of the same candidates a pick for everybody who  *)
(* is tracked, and the pick of the card for the operator; that one takes   *)
(* the tilt of the configuration as it is.  Each of them goes by the       *)
(* standings as they were read for them alone, from a table that another   *)
(* process rewrites row by row; a read that failed shows nobody.           *)
(***************************************************************************)
Unread == [table |-> <<>>, left |-> 0]
Reads == Standings \cup {Unread}

ContextOf(x, read) == StandingsContext(read.table, read.left, x)

Contexts == {ContextOf(x, read) : x \in People, read \in Reads}
Tilts == {GlobalTilt} \cup {TiltOf(x) : x \in People}

Tilted ==
  [t \in {<<q, ctx, tilt>> : q \in Inputs, ctx \in Contexts, tilt \in Tilts} |->
     RecommendToWin(MatchCards[t[1]], t[2], t[3])]

\* What somebody is told: with which force the pick was tilted, by which standings, and
\* how risky the score is.
AdviceTo(x, read, tilted, pool) ==
  [to |-> x, table |-> read.table, risk |-> Risk(tilted, pool),
   force |-> TiltForce(ContextOf(x, read), TiltOf(x))]

Advice ==
  [t \in {<<q, x, read>> : q \in Inputs, x \in People, read \in Reads} |->
     IF MatchCards[t[1]].pool = {} THEN None
     ELSE AdviceTo(t[2], t[3], Tilted[<<t[1], ContextOf(t[2], t[3]), TiltOf(t[2])>>],
                   MatchCards[t[1]].pool)]

\* A card without odds has no advice, so nobody's standings are read for it.
Advised(q) == IF MatchCards[q].pool = {} \/ ~Enabled THEN {} ELSE People

AdviceNow(q, reads) == {Advice[<<q, x, reads[x]>>] : x \in Advised(q)}

TiltedNow(q, read) == Tilted[<<q, ContextOf(Operator, read), GlobalTilt>>]

BuiltCard(rec, f, stage, rated) ==
  [mode |-> rec.mode, dom |-> rec.dom, dir |-> rec.pick.dir,
   penalty |-> PenaltyWinner(f, stage, rated /\ RatedHome < FlatHome),
   disagree |-> Cardinality(f.votes) > 1]

Cards == [q \in Inputs |-> BuiltCard(MatchCards[q], Forecasts[q[1]], q[2].stage, q[1].rated)]

SourceNow(w) == [fit |-> "dixon_coles" \in used[w], rated |-> "elo" \in used[w],
                 shift |-> <<news[w].home, news[w].away>>, odds |-> quote[w].odds]

\* Prices, points and tilts are numbers, no score is likelier than its direction, and the
\* operator is one of those who are tracked.
ASSUME NumbersAssumption ==
  /\ \A odds \in Quotes, d \in Directions : odds[d] \in Nat
  /\ {RatedHome, FlatHome} \subseteq Int
  /\ \A fit \in BOOLEAN, shift \in Shifts :
       /\ \A d \in Directions : Fits[fit][shift].mass[d] \in Nat \ {0}
       /\ \A c \in Cells :
            Fits[fit][shift].matrix[c] \in 0..Fits[fit][shift].mass[Direction(c)]
  /\ \A s \in Settings : s.detonator \in BOOLEAN
  /\ \A read \in Standings : /\ read.left \in Int /\ IsFiniteSet(DOMAIN read.table)
                             /\ \A x \in DOMAIN read.table : read.table[x] \in Int
  /\ IsFiniteSet(People) /\ Operator \in People /\ GlobalTilt \in Int
  /\ \A x \in DOMAIN Overrides : Overrides[x] \in Int

\* A strong favourite's direction has enough scores that are worth something to fill the
\* pool: of the 81 of the matrix (blend.py:16) 36 are wins of either side, and the pool
\* has five.
ASSUME CandidatesAssumption ==
  \A q \in Inputs : MatchCards[q].mode = "strong_favorite" =>
    TopK <= Cardinality({a \in Candidates[q] : a.dir = MatchCards[q].dom /\ a.ev > 0})

(***************************************************************************)
(* The stage and the detonator are those of the match row now, which may   *)
(* have changed since the window before.  The standings are read for the   *)
(* operator when the job starts and for everybody tracked, one after the   *)
(* other, once the card is built (per_person.py:146-158): no two of these  *)
(* reads need agree.  No context, no tilt.  The row is written by          *)
(* build_card, the operator's tilt comes after it.                         *)
(***************************************************************************)
Assembled(w, path, c, pick, advice) ==
  [failed |-> failed[w] \cup IF path = "alert" THEN {"model"} ELSE {},
   ev |-> path = "ev_optimized", mode |-> c.mode, dom |-> c.dom, dir |-> pick.dir,
   penalty |-> c.penalty, disagree |-> c.disagree, advice |-> advice]

Issued(w, q, kept, own, reads) ==
  /\ Fault(Once(~kept) + Once(own = Unread)
           + Cardinality({x \in Advised(q) : reads[x] = Unread}))
  /\ w = Primary \/ kept
  /\ prior' = IF kept /\ w = Primary THEN [at |-> now, news |-> news[w]] ELSE prior
  /\ card' = [card EXCEPT ![w] = Assembled(w, Pathway(quote[w].odds, q[2]), Cards[q],
                                           TiltedNow(q, own), AdviceNow(q, reads))]
  /\ locked' = IF w = Order[1] THEN quote[w].odds ELSE locked

Assemble(w) ==
  /\ pc[w] = "assemble" /\ Goto(w, "deliver")
  /\ \E s \in Settings, kept \in BOOLEAN, own \in Reads :
       \E reads \in [Advised(<<SourceNow(w), s>>) -> Reads] :
         Issued(w, <<SourceNow(w), s>>, kept, own, reads)
  /\ UNCHANGED <<now, events, togo, asking, job, snaps, files, spent, teamId, fixtureId,
                 injuries>>

\* The job ends; whether a channel accepted the card changes nothing here.
Deliver(w) ==
  /\ pc[w] = "deliver" /\ Goto(w, "done")
  /\ card' = [card EXCEPT ![w] = None]
  /\ used' = [used EXCEPT ![w] = {}] /\ failed' = [failed EXCEPT ![w] = {}]
  /\ quote' = [quote EXCEPT ![w] = NoQuote] /\ news' = [news EXCEPT ![w] = NoNews]
  /\ UNCHANGED <<now, events, togo, asking, prior, snaps, locked, feeds>>

Step(w) == \/ LoadModels(w) \/ Market(w) \/ Fetching(w)
           \/ StartNews(w) \/ Ask(w) \/ AnswerRequest(w)
           \/ OpenSearch(w) \/ Query(w) \/ EndQuery(w) \/ AskModel(w)
           \/ Assemble(w) \/ Deliver(w)

Next == Advance \/ Tick \/ \E w \in Windows : Step(w)

Spec == Init /\ [][Next]_vars
-----------------------------------------------------------------------------
(***************************************************************************)
(* latest_snapshot: the odds a match is scored with.                       *)
(***************************************************************************)
Snapped == {i \in DOMAIN Order : snaps[Order[i]] # None}

\* Slip: of the snapshots, the first one that was taken.
OldestSnapshot ==
  IF Snapped = {} THEN None ELSE snaps[Order[CHOOSE i \in Snapped : \A j \in Snapped : j <= i]]

LatestSnapshot ==
  IF Snapped = {} THEN None ELSE snaps[Order[CHOOSE i \in Snapped : \A j \in Snapped : i <= j]]

-----------------------------------------------------------------------------
Labels == {"idle", "models", "market", "fetching", "news", "asking", "asked", "searching",
           "query", "queried", "json", "plain", "assemble", "deliver", "done"}

NewsRecords == [home : -Clamp..Clamp, away : -Clamp..Clamp, conf : Confidences,
                from : {"nobody", "llm", "prior"}]

\* Corrections never leave the clamp, whatever a model answered (news_agent.py:524-566).
TypeOK ==
  /\ now \in 0..MaxTime
  /\ pc \in [Windows -> Labels]
  /\ togo \in [Windows -> Nat] /\ asking \in [Windows -> 0..(RequestCount + 1)]
  /\ used \in [Windows -> SUBSET AllSignals] /\ failed \in [Windows -> SUBSET AllSignals]
  /\ news \in [Windows -> NewsRecords]
  /\ files \in [Products -> {"absent", "empty", "full"}]
  /\ credits \in Nat /\ searches \in Nat /\ requests \in Nat
  /\ lost \in [Metered -> Nat] /\ blind \in [Metered -> Nat]
  /\ teamId \in [Sides -> BOOLEAN] /\ fixtureId \in BOOLEAN /\ faults \in 0..MaxFaults

Weaker(x, y) == x \in 0..y \/ x \in y..0

\* The golden rule of build_card (build_card.py:9-12), and what it is for: every signal
\* of a card is in one list and one list only, the odds and the news that moved the pick
\* are exactly those listed as used, a card is called EV-optimised exactly when odds and
\* rules priced it, and news used again (it is discounted again) is what T-60m had on
\* record and never stronger.
HonestAudit ==
  \A w \in Windows : card[w] # None =>
    /\ AllSignals \subseteq used[w] \cup card[w].failed /\ used[w] \cap card[w].failed = {}
    /\ "market" \in used[w] <=> Usable(quote[w].odds)
    /\ card[w].ev <=> "market" \in used[w] /\ "model" \notin card[w].failed
    /\ news[w].from \in {"llm", "prior"} => "news" \in used[w]
    /\ news[w].from = "nobody" => news[w].home = 0 /\ news[w].away = 0
    /\ news[w].from = "prior" =>
         /\ prior # None /\ prior.news.from = "llm"
         /\ Weaker(news[w].home, prior.news.home) /\ Weaker(news[w].away, prior.news.away)

\* The card of the lock window optimised the points for the odds the match is scored
\* with: whichever of the match's jobs ends last, the snapshot that settles is the lock's
\* own (oddsapi.py:3-7), unless the lock had no odds or could not keep them.
SettledAsOptimised ==
  Usable(locked) => \/ LatestSnapshot # None /\ LatestSnapshot.odds = locked
                    \/ snaps[Order[1]] = None

\* However the jobs of a match interleave, what they spend stays within the budgets but
\* for the calls cleared at the same time (each job makes one call at a time), for the
\* calls whose row the ledger dropped (cost.py:106-120), and for those cleared while it
\* could not be read: searches then go on up to the month's brake, which fails closed
\* (web_search.py:46-102), requests without end (api_football.py:79-83).
SpendingBounded ==
  LET others(S) == Cardinality(S) - 1
  IN /\ searches <= DailyLimit + others(SearchWindows) + lost["search"] + blind["search"]
     /\ searches <= Brake + others(SearchWindows) + lost["search"]
     /\ requests <= DayBudget + others(LineupWindows) + lost["request"] + blind["request"]

\* "tilt picks within-direction variance ... preserving the direction-only
\* partial-credit floor" (ev_optimizer.py:162-164): with a strong favourite no tilt, of
\* whoever is how far behind, makes the card leave the favourite's direction.
StrongFavouriteKept ==
  \A w \in Windows : card[w] # None /\ card[w].mode = "strong_favorite"
                       => card[w].dir = card[w].dom

Trails(x, table) == \E y \in DOMAIN table : table[y] > table[x]
Leads(x, table) == \A y \in DOMAIN table \ {x} : table[y] < table[x]

\* "BEHIND: take more variance ... AHEAD: protect" (strategy.py:3-10): on one card, who
\* trailed when the standings were read for them is never advised a safer score than who
\* led when they were read for them, even if the table changed in between or a third
\* read failed; nothing is promised of two who both led, each at their own read.
RiskOrdered ==
  \A w \in Windows : card[w] # None =>
    \A a, b \in card[w].advice :
      /\ a.force # 0 /\ b.force # 0
      /\ a.to \in DOMAIN a.table /\ Trails(a.to, a.table)
      /\ b.to \in DOMAIN b.table /\ Leads(b.to, b.table)
      => a.risk >= b.risk
=============================================================================
