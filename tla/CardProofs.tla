----------------------------- MODULE CardProofs ------------------------------
(***************************************************************************)
(* Proofs about Card, for any windows, budgets, texts and settings: the    *)
(* audit trail is honest, the match is settled at the odds its last card   *)
(* was made for, the budgets hold, a strong favourite is the pick however  *)
(* it is tilted, and the advice follows the standings.                     *)
(*                                                                         *)
(* A window's job writes its own variables only, so what is shown of one   *)
(* window in each step is that nothing else disturbs it (Frame).  The one  *)
(* thing windows share here is the row of T-60m, which is written once,    *)
(* before anybody can have used it.                                        *)
(*                                                                         *)
(* The last two are about what is computed, not about who moves when: they *)
(* are shown of every card of Cards first, then DataInv carries them into  *)
(* the state (whatever is assembled is one of Cards).                      *)
(***************************************************************************)
EXTENDS Card, FiniteSetTheorems, WellFoundedInduction, TLAPS

ToMarket == {"market", "fetching"}
ToNews == {"news", "asking", "asked", "searching", "query", "queried", "json", "plain"}
Built == {"assemble", "deliver"}

DomainInv ==
  DOMAIN quote = Windows /\ DOMAIN card = Windows /\ DOMAIN snaps = Windows
  /\ DOMAIN events = Windows

\* The signals of window w are those of S, each in one list.
Visited(w, S) == used[w] \cup failed[w] = S /\ used[w] \cap failed[w] = {}

\* The odds of a card are those it says it used.
OddsTrue(w) == "market" \in used[w] <=> Usable(quote[w].odds)

NewsTrue(w) ==
  /\ news[w].from \in {"llm", "prior"} => "news" \in used[w]
  /\ news[w].from = "nobody" => news[w] = NoNews
  /\ news[w].from = "prior" =>
       /\ w \in ReuseWindows /\ prior # None /\ prior.news.from = "llm"
       /\ Weaker(news[w].home, prior.news.home) /\ Weaker(news[w].away, prior.news.away)

CardTrue(w) ==
  /\ card[w].failed = failed[w] \/ card[w].failed = failed[w] \cup {"model"}
  /\ card[w].ev <=> "market" \in used[w] /\ "model" \notin card[w].failed

\* What the job of w has established at each of its steps.
AuditOf(w) ==
  /\ pc[w] \in {"idle", "models"} =>
       used[w] = {} /\ failed[w] = {} /\ quote[w] = NoQuote /\ news[w] = NoNews
  /\ pc[w] \in ToMarket =>
       Visited(w, {"dixon_coles", "elo"}) /\ quote[w] = NoQuote /\ news[w] = NoNews
  /\ pc[w] \in ToNews =>
       Visited(w, {"dixon_coles", "elo", "market"}) /\ OddsTrue(w) /\ news[w] = NoNews
  /\ pc[w] \in Built => Visited(w, AllSignals) /\ OddsTrue(w) /\ NewsTrue(w)
  /\ pc[w] = "deliver" => CardTrue(w)
  /\ pc[w] # "deliver" => card[w] = None

\* The row of T-60m: written once, from an answer or for want of one.
PriorInv ==
  /\ pc[Primary] \notin {"deliver", "done"} => prior = None
  /\ prior # None => /\ prior.news \in NewsRecords
                     /\ prior.news.from = "llm" \/ prior.news = NoNews

AuditInv == DomainInv /\ PriorInv /\ \A w \in Windows : AuditOf(w)

\* The lock window's snapshot is of its own quote or there is none.
LockInv ==
  LET lock == Order[1]
  IN /\ pc[lock] \notin {"deliver", "done"} => locked = NoOdds
     /\ pc[lock] \in {"idle", "models"} \cup ToMarket => snaps[lock] = None
     /\ pc[lock] \in ToNews \cup {"assemble"} => snaps[lock] \in {None, quote[lock]}
     /\ pc[lock] \in {"deliver", "done"} =>
          snaps[lock] = None \/ snaps[lock].odds = locked

\* Calls under way: cleared, not counted yet.
InQuery == {w \in Windows : pc[w] = "queried"}
InRequest == {w \in Windows : pc[w] = "asked"}

SpendBounds ==
  /\ searches + Cardinality(InQuery)
       <= DailyLimit + Cardinality(SearchWindows) - 1 + lost["search"] + blind["search"]
  /\ searches + Cardinality(InQuery) <= Brake + Cardinality(SearchWindows) - 1 + lost["search"]
  /\ requests + Cardinality(InRequest)
       <= DayBudget + Cardinality(LineupWindows) - 1 + lost["request"] + blind["request"]

SpendInv ==
  /\ \A w \in Windows : /\ pc[w] \in {"searching", "query", "queried"} => w \in SearchWindows
                        /\ pc[w] \in {"asking", "asked"} => w \in LineupWindows
  /\ SpendBounds

\* Where the jobs are, and what they still have to ask.
PositionType ==
  /\ pc \in [Windows -> Labels]
  /\ togo \in [Windows -> Nat] /\ asking \in [Windows -> 0..(RequestCount + 1)]
  /\ \A w \in Windows : /\ pc[w] = "query" => togo[w] > 0
                        /\ pc[w] \in {"asking", "asked"} => asking[w] > 0
                        /\ pc[w] = "asked" => asking[w] <= RequestCount

SignalType ==
  /\ used \in [Windows -> SUBSET AllSignals] /\ failed \in [Windows -> SUBSET AllSignals]
  /\ news \in [Windows -> NewsRecords]

FeedType ==
  /\ files \in [Products -> {"absent", "empty", "full"}]
  /\ credits \in Nat /\ searches \in Nat /\ requests \in Nat
  /\ lost \in [Metered -> Nat] /\ blind \in [Metered -> Nat]
  /\ teamId \in [Sides -> BOOLEAN] /\ fixtureId \in BOOLEAN /\ faults \in 0..MaxFaults

TypeInv == now \in 0..MaxTime /\ PositionType /\ SignalType /\ FeedType

Inv == TypeInv /\ AuditInv /\ LockInv /\ SpendInv
-----------------------------------------------------------------------------
\* A correction is within the clamp, whatever was written in its place
\* (news_agent.py:524-541).
LEMMA ClampHolds ==
  ASSUME NEW x \in Int \cup {NaN, Junk}
  PROVE  Clamped(x) \in -Clamp..Clamp
BY NewsAssumption DEF Clamped

LEMMA ValidatedTyped ==
  ASSUME NEW data, data = NonDict \/ {data.home, data.away} \subseteq Int \cup {NaN, Junk}
  PROVE  ValidateAndClamp(data) \in [home : -Clamp..Clamp, away : -Clamp..Clamp,
                                    conf : Confidences]
<1>1. CASE data = NonDict
  BY <1>1, NewsAssumption DEF ValidateAndClamp, Neutral, Confidences
<1>2. CASE data # NonDict
  <2>1. Clamped(data.home) \in -Clamp..Clamp /\ Clamped(data.away) \in -Clamp..Clamp
    BY <1>2, ClampHolds
  <2> QED BY <1>2, <2>1 DEF ValidateAndClamp, Confidences
<1> QED BY <1>1, <1>2

\* A discount never makes a correction stronger, nor turns it around.
LEMMA DiscountWeakens ==
  ASSUME NEW x \in -Clamp..Clamp, NEW conf \in Confidences
  PROVE  Discounted(x, conf) \in -Clamp..Clamp /\ Weaker(Discounted(x, conf), x)
<1> DEFINE scale == ConfidenceScale[conf]
<1>1. scale \in {30, 70, 100}
  BY DEF ConfidenceScale, Confidences
<1>2. x \in Int /\ Clamp \in Nat
  BY NewsAssumption
<1>3. CASE x >= 0
  <2>1. Discounted(x, conf) = (x * scale) \div 100
    BY <1>3 DEF Discounted
  <2>2. (x * scale) \div 100 \in 0..x
    BY <1>1, <1>2, <1>3
  <2> QED BY <1>2, <1>3, <2>1, <2>2 DEF Weaker
<1>4. CASE x < 0
  <2>1. Discounted(x, conf) = -((-x * scale) \div 100)
    BY <1>2, <1>4 DEF Discounted
  <2>2. (-x * scale) \div 100 \in 0..(-x)
    BY <1>1, <1>2, <1>4
  <2> QED BY <1>2, <1>4, <2>1, <2>2 DEF Weaker
<1> QED BY <1>2, <1>3, <1>4

LEMMA DiscountTyped ==
  ASSUME NEW n \in [home : -Clamp..Clamp, away : -Clamp..Clamp, conf : Confidences], NEW who
  PROVE  From(Discount(n), who) \in [home : -Clamp..Clamp, away : -Clamp..Clamp,
                                    conf : Confidences, from : {who}]
BY DiscountWeakens DEF From, Discount

\* What was taken over from T-60m, discounted once more.
LEMMA ReuseWeakens ==
  ASSUME NEW n \in NewsRecords
  PROVE  /\ ValidateAndClamp(n) = [home |-> n.home, away |-> n.away, conf |-> n.conf]
         /\ From(Discount(ValidateAndClamp(n)), "prior") \in NewsRecords
         /\ Weaker(Discount(ValidateAndClamp(n)).home, n.home)
         /\ Weaker(Discount(ValidateAndClamp(n)).away, n.away)
<1>1. n # NonDict
  <2>1. n \in [home : Int, away : Int, conf : Confidences, from : {"nobody", "llm", "prior"}]
    BY NewsAssumption DEF NewsRecords
  <2> QED BY <2>1, NewsAssumption
<1>2. ASSUME NEW x \in -Clamp..Clamp PROVE Clamped(x) = x
  BY NewsAssumption DEF Clamped
<1>3. ValidateAndClamp(n) = [home |-> n.home, away |-> n.away, conf |-> n.conf]
  BY <1>1, <1>2 DEF ValidateAndClamp, NewsRecords
<1>4. [home |-> n.home, away |-> n.away, conf |-> n.conf]
        \in [home : -Clamp..Clamp, away : -Clamp..Clamp, conf : Confidences]
  BY DEF NewsRecords
<1>5. From(Discount(ValidateAndClamp(n)), "prior") \in NewsRecords
  BY <1>3, <1>4, DiscountTyped DEF NewsRecords
<1> QED BY <1>3, <1>4, <1>5, DiscountWeakens DEF Discount

LEMMA AnswerTyped ==
  ASSUME NEW text \in Texts, Corrects(text)
  PROVE  From(Discount(ValidateAndClamp(text.data)), "llm") \in NewsRecords
<1>1. text.data = NonDict \/ {text.data.home, text.data.away} \subseteq Int \cup {NaN, Junk}
  BY CardAssumption DEF Corrects, Overflows
<1> QED BY <1>1, ValidatedTyped, DiscountTyped DEF NewsRecords

LEMMA NoNewsTyped ==
  NoNews \in NewsRecords /\ NoNews.home = 0 /\ NoNews.away = 0
  /\ NoNews.conf = "low" /\ NoNews.from = "nobody"
BY NewsAssumption DEF NoNews, From, Neutral, NewsRecords, Confidences

LEMMA RequestsCounted ==
  /\ RequestCount \in Nat /\ RequestCount >= 1 /\ OfSide \in Nat
  /\ \A n \in 1..RequestCount : RequestAt(n).kind \in {"injuries", "team"}
                                  => RequestAt(n).side \in Sides
<1>1. OfSide \in Nat /\ RequestCount \in Nat /\ RequestCount >= 1
  BY CardAssumption DEF RequestCount, OfSide
<1>2. ASSUME NEW n \in 1..RequestCount, RequestAt(n).kind \in {"injuries", "team"}
      PROVE  RequestAt(n).side \in Sides
  <2>1. n > 2
    BY <1>1, <1>2 DEF RequestAt
  <2> QED BY <1>1, <2>1 DEF RequestAt, Sides
<1> QED BY <1>1, <1>2

LEMMA QueriesTyped == \A w \in Windows : Queries(w) \in Nat
BY CardAssumption DEF Queries, Templates, AtMost

\* A fault uses up the bound.
LEMMA FaultTyped ==
  ASSUME NEW n \in Nat, Fault(n), faults \in 0..MaxFaults
  PROVE  faults' \in 0..MaxFaults
BY CardAssumption DEF Fault

\* What was dropped or cleared blindly is counted with the kind of call.
LEMMA Metering ==
  ASSUME lost \in [Metered -> Nat], blind \in [Metered -> Nat], NEW kind \in Metered
  PROVE  /\ \A units \in Nat, dropped \in BOOLEAN : Recorded(kind, units, dropped) =>
              /\ lost' \in [Metered -> Nat]
              /\ \A k \in Metered \ {kind} : lost'[k] = lost[k]
              /\ lost'[kind] = lost[kind] + IF dropped THEN units ELSE 0
         /\ \A cleared, open \in BOOLEAN : FailsOpen(kind, cleared, open) =>
              /\ blind' \in [Metered -> Nat]
              /\ \A k \in Metered \ {kind} : blind'[k] = blind[k]
              /\ blind'[kind] = blind[kind] + IF open = cleared THEN 0 ELSE 1
BY DEF Recorded, FailsOpen

LEMMA OnceTyped ==
  ASSUME NEW fault
  PROVE  Once(fault) \in Nat /\ 1 + Once(fault) \in Nat
BY DEF Once

\* Pricing the market is a fault at most once more than what came before it.
LEMMA PricedFaults ==
  ASSUME NEW w, NEW event, NEW n \in Nat, Priced(w, event, n)
  PROVE  \E m \in Nat : Fault(m)
BY 1 + n \in Nat DEF Priced

LEMMA ClearancesTyped ==
  /\ OddsCleared \in BOOLEAN /\ SearchCleared \in BOOLEAN /\ RequestCleared \in BOOLEAN
  /\ "odds" \in Metered /\ "search" \in Metered /\ "request" \in Metered
BY DEF OddsCleared, SearchCleared, RequestCleared, Metered

\* Types, action by action.
LEMMA LoadModelsTyped ==
  ASSUME TypeInv, NEW w \in Windows, LoadModels(w)
  PROVE  TypeInv'
<1>1. PositionType'
  BY DEF LoadModels, Goto, PositionType, Labels, TypeInv
<1>2. SignalType'
  BY DEF LoadModels, SignalType, AllSignals, TypeInv
<1>3. FeedType'
  <2>1. files' \in [Products -> {"absent", "empty", "full"}]
    BY DEF LoadModels, Stored, Reading, Fitting, Products, FeedType, TypeInv
  <2>2. faults' \in 0..MaxFaults
    BY DEF LoadModels, Fault, Mishap, FeedType, TypeInv
  <2> QED BY <2>1, <2>2 DEF LoadModels, spent, FeedType, TypeInv
<1> QED BY <1>1, <1>2, <1>3 DEF LoadModels, TypeInv

LEMMA MarketTyped ==
  ASSUME TypeInv, NEW w \in Windows, Market(w)
  PROVE  TypeInv'
<1>1. PositionType'
  BY DEF Market, Goto, PositionType, Labels, TypeInv
<1>2. SignalType'
  BY DEF Market, Priced, NoMarket, SignalType, AllSignals, TypeInv
<1>3. FeedType'
  <2>1. UNCHANGED faults \/ \E n \in Nat : Fault(n)
    <3> DEFINE n == Once(~OddsCleared)
    <3>1. n \in Nat
      BY OnceTyped
    <3>2. UNCHANGED faults \/ Priced(w, events[w], n) \/ Fault(n)
      BY DEF Market
    <3> HIDE DEF n
    <3> QED BY <3>1, <3>2, PricedFaults
  <2>2. faults' \in 0..MaxFaults
    BY <2>1, FaultTyped DEF FeedType, TypeInv
  <2>3. UNCHANGED <<files, credits, searches, lost, football>>
        /\ (UNCHANGED blind \/ FailsOpen("odds", OddsCleared, TRUE))
    BY DEF Market
  <2>4. blind' \in [Metered -> Nat]
    BY <2>3, Metering, ClearancesTyped DEF FeedType, TypeInv
  <2> QED BY <2>2, <2>3, <2>4 DEF football, FeedType, TypeInv
<1> QED BY <1>1, <1>2, <1>3 DEF Market, TypeInv

\* What a credit and the clock need of the constants.
LEMMA UnitsAndTime == Units \in Nat /\ MaxTime \in Nat
BY CardAssumption

LEMMA FetchingTyped ==
  ASSUME TypeInv, NEW w \in Windows, Fetching(w)
  PROVE  TypeInv'
<1>1. PositionType'
  BY DEF Fetching, Goto, PositionType, Labels, TypeInv
<1>2. SignalType'
  BY DEF Fetching, Priced, NoMarket, SignalType, AllSignals, TypeInv
<1>3. FeedType'
  <2>1. \E n \in Nat : Fault(n)
    <3>1. PICK dropped \in BOOLEAN :
            \/ \E e \in Events : Priced(w, e, Once(dropped))
            \/ NoMarket(w) /\ Fault(1 + Once(dropped))
      BY DEF Fetching
    <3> QED BY <3>1, PricedFaults, OnceTyped
  <2>2. faults' \in 0..MaxFaults
    BY <2>1, FaultTyped DEF FeedType, TypeInv
  <2>3. credits' \in Nat
    BY UnitsAndTime DEF Fetching, FeedType, TypeInv
  <2>4. UNCHANGED <<files, searches, blind, requests, teamId, fixtureId>>
        /\ \E dropped \in BOOLEAN : Recorded("odds", Units, dropped)
    BY DEF Fetching, football
  <2>5. lost' \in [Metered -> Nat]
    BY <2>4, UnitsAndTime DEF Recorded, Metered, FeedType, TypeInv
  <2> QED BY <2>2, <2>3, <2>4, <2>5 DEF FeedType, TypeInv
<1> QED BY <1>1, <1>2, <1>3 DEF Fetching, TypeInv

LEMMA StartNewsTyped ==
  ASSUME TypeInv, PriorInv, NEW w \in Windows, StartNews(w)
  PROVE  TypeInv'
<1>1. PositionType'
  <2>1. /\ asking' = asking \/ asking' = [asking EXCEPT ![w] = 1]
        /\ UNCHANGED togo
        /\ \E label \in {"assemble", "asking", "searching"} :
             /\ pc' = [pc EXCEPT ![w] = label]
             /\ label = "asking" => asking' = [asking EXCEPT ![w] = 1]
    BY DEF StartNews, Goto
  <2>2. 1 \in 0..(RequestCount + 1)
    BY RequestsCounted
  <2> QED BY <2>1, <2>2 DEF PositionType, Labels, TypeInv
<1>2. SignalType'
  <2>1. CASE HasPrior(w) /\ Reused(w) /\ used' = [used EXCEPT ![w] = @ \cup {"news"}]
    <3>1. From(Discount(ValidateAndClamp(prior.news)), "prior") \in NewsRecords
      BY <2>1, ReuseWeakens DEF HasPrior, PriorInv
    <3> QED BY <2>1, <3>1 DEF StartNews, Reused, SignalType, AllSignals, TypeInv
  <2>2. CASE news' = [news EXCEPT ![w] = NoNews] /\ used' = [used EXCEPT ![w] = @ \cup {"news"}]
    BY <2>2, NoNewsTyped DEF StartNews, SignalType, AllSignals, TypeInv
  <2>3. CASE UNCHANGED <<news, used>>
    BY <2>3 DEF StartNews, SignalType, TypeInv
  <2> QED BY <2>1, <2>2, <2>3 DEF StartNews
<1>3. FeedType'
  BY FaultTyped DEF StartNews, spent, FeedType, TypeInv
<1> QED BY <1>1, <1>2, <1>3 DEF StartNews, TypeInv

LEMMA RememberTyped ==
  ASSUME FeedType, NEW n \in 1..RequestCount,
         Unanswered(RequestAt(n), now) \/ Answered(RequestAt(n), now)
  PROVE  teamId' \in [Sides -> BOOLEAN] /\ fixtureId' \in BOOLEAN
<1>1. CASE Unanswered(RequestAt(n), now)
  BY <1>1 DEF Unanswered, FeedType
<1>2. CASE Answered(RequestAt(n), now)
  <2>1. fixtureId' \in BOOLEAN
    BY <1>2 DEF Answered, FeedType
  <2>2. RequestAt(n).kind = "team" => RequestAt(n).side \in Sides
    BY RequestsCounted
  <2> HIDE DEF RequestAt
  <2>3. teamId' \in [Sides -> BOOLEAN]
    BY <1>2, <2>2 DEF Answered, FeedType
  <2> QED BY <2>1, <2>3
<1> QED BY <1>1, <1>2

\* What the step of asking comes to: nothing left to ask, or the next request is put to
\* the budget.
LEMMA AskParts ==
  ASSUME TypeInv, NEW w \in Windows, Ask(w)
  PROVE  /\ pc[w] = "asking" /\ asking[w] \in Nat /\ asking[w] > 0
         /\ \/ /\ Goto(w, "searching") /\ asking' = [asking EXCEPT ![w] = 0]
               /\ UNCHANGED <<teamId, fixtureId, injuries, blind, faults>>
            \/ \E cleared \in BOOLEAN, k \in 1..RequestCount :
                 /\ FailsOpen("request", RequestCleared, cleared)
                 /\ Fault(Once(cleared # RequestCleared))
                 /\ Put(w, k, cleared)
<1>1. pc[w] = "asking" /\ asking[w] \in Nat /\ asking[w] > 0
  BY RequestsCounted DEF Ask, TypeInv, PositionType
<1>2. \A cleared : StillNeeded(asking[w], cleared) \subseteq 1..RequestCount
  BY <1>1, RequestsCounted DEF StillNeeded
<1> QED BY <1>1, <1>2 DEF Ask

LEMMA AskTyped ==
  ASSUME TypeInv, NEW w \in Windows, Ask(w)
  PROVE  TypeInv'
<1>1. SignalType'
  BY DEF Ask, job, SignalType, TypeInv
<1>2. UNCHANGED <<now, togo, files, credits, searches, requests, lost>>
  BY DEF Ask
<1>3. CASE /\ Goto(w, "searching") /\ asking' = [asking EXCEPT ![w] = 0]
           /\ UNCHANGED <<teamId, fixtureId, injuries, blind, faults>>
  <2>1. PositionType'
    BY <1>2, <1>3, RequestsCounted DEF Goto, PositionType, Labels, TypeInv
  <2>2. FeedType'
    BY <1>2, <1>3 DEF FeedType, TypeInv
  <2> QED BY <1>1, <1>2, <2>1, <2>2 DEF TypeInv
<1>4. ASSUME NEW cleared \in BOOLEAN, NEW k \in 1..RequestCount,
             FailsOpen("request", RequestCleared, cleared),
             Fault(Once(cleared # RequestCleared)), Put(w, k, cleared)
      PROVE  TypeInv'
  <2>1. PositionType'
    <3>1. CASE Goto(w, "asked") /\ asking' = [asking EXCEPT ![w] = k]
      BY <1>2, <3>1, RequestsCounted DEF Goto, PositionType, Labels, TypeInv
    <3>2. CASE UNCHANGED pc /\ asking' = [asking EXCEPT ![w] = k + 1]
      <4>1. k \in Nat /\ RequestCount \in Nat /\ k + 1 \in 0..(RequestCount + 1) /\ k + 1 > 0
        BY RequestsCounted
      <4>2. pc[w] = "asking"
        BY AskParts
      <4> HIDE DEF RequestCount
      <4> QED BY <1>2, <3>2, <4>1, <4>2 DEF PositionType, TypeInv
    <3> QED BY <1>4, <3>1, <3>2 DEF Put
  <2>2. teamId' \in [Sides -> BOOLEAN] /\ fixtureId' \in BOOLEAN
    BY <1>4, RememberTyped DEF Put, FeedType, TypeInv
  <2>3. faults' \in 0..MaxFaults
    BY <1>4, FaultTyped, OnceTyped DEF FeedType, TypeInv
  <2>4. blind' \in [Metered -> Nat]
    BY <1>4, Metering, ClearancesTyped DEF FeedType, TypeInv
  <2>5. FeedType'
    BY <1>2, <2>2, <2>3, <2>4 DEF FeedType, TypeInv
  <2> QED BY <1>1, <1>2, <2>1, <2>5 DEF TypeInv
<1> QED BY <1>3, <1>4, AskParts

LEMMA AnswerRequestTyped ==
  ASSUME TypeInv, NEW w \in Windows, AnswerRequest(w)
  PROVE  TypeInv'
<1>1. PositionType'
  BY RequestsCounted DEF AnswerRequest, Goto, PositionType, Labels, TypeInv
<1>2. SignalType'
  BY DEF AnswerRequest, job, SignalType, TypeInv
<1>3. FeedType'
  <2>1. PICK dropped \in BOOLEAN :
          /\ Recorded("request", 1, dropped)
          /\ \/ Answered(RequestAt(asking[w]), now) /\ Fault(Once(dropped))
             \/ Unanswered(RequestAt(asking[w]), now) /\ Fault(1 + Once(dropped))
    BY DEF AnswerRequest
  <2>2. asking[w] \in 1..RequestCount
    BY RequestsCounted DEF AnswerRequest, PositionType, TypeInv
  <2>3. teamId' \in [Sides -> BOOLEAN] /\ fixtureId' \in BOOLEAN
    BY <2>1, <2>2, RememberTyped DEF TypeInv
  <2>4. faults' \in 0..MaxFaults
    BY <2>1, FaultTyped, OnceTyped DEF FeedType, TypeInv
  <2>5. lost' \in [Metered -> Nat]
    BY <2>1, Metering, ClearancesTyped DEF FeedType, TypeInv
  <2>6. UNCHANGED <<files, credits, searches, blind>> /\ requests' \in Nat
    BY DEF AnswerRequest, FeedType, TypeInv
  <2> QED BY <2>3, <2>4, <2>5, <2>6 DEF FeedType, TypeInv
<1> QED BY <1>1, <1>2, <1>3 DEF AnswerRequest, TypeInv

\* The gate never takes back what it let through blindly.
LEMMA GateTypes ==
  ASSUME FeedType, NEW open \in BOOLEAN, SearchGate(open)
  PROVE  faults' \in 0..MaxFaults /\ blind' \in [Metered -> Nat]
         /\ \A k \in Metered : blind'[k] >= blind[k]
BY FaultTyped, ClearancesTyped DEF SearchGate, FeedType

LEMMA OpenSearchTyped ==
  ASSUME TypeInv, NEW w \in Windows, OpenSearch(w)
  PROVE  TypeInv'
<1>1. PositionType'
  BY QueriesTyped DEF OpenSearch, Goto, PositionType, Labels, TypeInv
<1>2. SignalType'
  BY DEF OpenSearch, job, SignalType, TypeInv
<1>3. FeedType'
  BY GateTypes DEF OpenSearch, football, FeedType, TypeInv
<1> QED BY <1>1, <1>2, <1>3 DEF OpenSearch, TypeInv

LEMMA QueryTyped ==
  ASSUME TypeInv, NEW w \in Windows, Query(w)
  PROVE  TypeInv'
<1>1. PositionType'
  BY DEF Query, Goto, PositionType, Labels, TypeInv
<1>2. SignalType'
  BY DEF Query, job, SignalType, TypeInv
<1>3. FeedType'
  BY GateTypes DEF Query, football, FeedType, TypeInv
<1> QED BY <1>1, <1>2, <1>3 DEF Query, TypeInv

LEMMA EndQueryTyped ==
  ASSUME TypeInv, NEW w \in Windows, EndQuery(w)
  PROVE  TypeInv'
<1>1. PositionType'
  BY DEF EndQuery, Goto, PositionType, Labels, TypeInv
<1>2. SignalType'
  BY DEF EndQuery, job, SignalType, TypeInv
<1>3. FeedType'
  <2>1. UNCHANGED <<files, credits, blind, football>> /\ searches' \in Nat
    BY DEF EndQuery, Searched, FeedType, TypeInv
  <2>2. \E dropped \in BOOLEAN : Recorded("search", 1, dropped) /\ Fault(Once(dropped))
    BY DEF EndQuery, Searched
  <2>3. lost' \in [Metered -> Nat] /\ faults' \in 0..MaxFaults
    BY <2>2, Metering, ClearancesTyped, FaultTyped, OnceTyped DEF FeedType, TypeInv
  <2> QED BY <2>1, <2>3 DEF football, FeedType, TypeInv
<1> QED BY <1>1, <1>2, <1>3 DEF EndQuery, TypeInv

LEMMA AskModelTyped ==
  ASSUME TypeInv, NEW w \in Windows, AskModel(w)
  PROVE  TypeInv'
<1>1. PositionType'
  BY DEF AskModel, Analysed, Unanalysed, Goto, PositionType, Labels, TypeInv
<1>2. SignalType'
  BY NoNewsTyped, AnswerTyped
  DEF AskModel, Analysed, Unanalysed, SignalType, AllSignals, TypeInv
<1>3. FeedType'
  BY FaultTyped DEF AskModel, Analysed, Unanalysed, spent, football, FeedType, TypeInv
<1> QED BY <1>1, <1>2, <1>3 DEF AskModel, TypeInv

LEMMA AssembleTyped ==
  ASSUME TypeInv, NEW w \in Windows, Assemble(w)
  PROVE  TypeInv'
<1>1. PositionType'
  BY DEF Assemble, Goto, PositionType, Labels, TypeInv
<1>2. SignalType'
  BY DEF Assemble, job, SignalType, TypeInv
<1>3. FeedType'
  <2>1. PICK s \in Settings, kept \in BOOLEAN, own \in Reads :
          \E reads \in [Advised(<<SourceNow(w), s>>) -> Reads] :
            Issued(w, <<SourceNow(w), s>>, kept, own, reads)
    BY DEF Assemble
  <2> DEFINE told == Advised(<<SourceNow(w), s>>)
  <2>2. PICK reads \in [told -> Reads] :
          Fault(Once(~kept) + Once(own = Unread) + Cardinality({x \in told : reads[x] = Unread}))
    BY <2>1 DEF Issued
  <2>3. Cardinality({x \in told : reads[x] = Unread}) \in Nat
    <3>1. {x \in told : reads[x] = Unread} \subseteq People
      BY DEF Advised
    <3> QED BY <3>1, NumbersAssumption, FS_Subset, FS_CardinalityType
  <2>4. faults' \in 0..MaxFaults
    <3> HIDE DEF told
    <3>1. \A m, n, k \in Nat : m + n + k \in Nat
      OBVIOUS
    <3>2. Once(~kept) \in Nat /\ Once(own = Unread) \in Nat
      BY OnceTyped
    <3>3. Once(~kept) + Once(own = Unread)
            + Cardinality({x \in told : reads[x] = Unread}) \in Nat
      BY <2>3, <3>1, <3>2
    <3> QED BY <2>2, <3>3, FaultTyped DEF FeedType, TypeInv
  <2> QED BY <2>4 DEF Assemble, spent, FeedType, TypeInv
<1> QED BY <1>1, <1>2, <1>3 DEF Assemble, TypeInv

LEMMA DeliverTyped ==
  ASSUME TypeInv, NEW w \in Windows, Deliver(w)
  PROVE  TypeInv'
<1>1. PositionType'
  BY DEF Deliver, Goto, PositionType, Labels, TypeInv
<1>2. SignalType'
  BY NoNewsTyped DEF Deliver, SignalType, TypeInv
<1>3. FeedType'
  BY DEF Deliver, feeds, FeedType, TypeInv
<1> QED BY <1>1, <1>2, <1>3 DEF Deliver, TypeInv

LEMMA TickTyped ==
  ASSUME TypeInv, Tick
  PROVE  TypeInv'
<1>1. PositionType'
  BY DEF Tick, PositionType, Labels, TypeInv
<1>2. SignalType'
  BY DEF Tick, job, SignalType, TypeInv
<1>3. FeedType'
  <2>1. CASE UNCHANGED <<events, credits, lost, faults>>
    BY <2>1 DEF Tick, FeedType, TypeInv
  <2>2. CASE \E e \in Events \cup {None} : FetchAllOdds(e)
    <3>1. PICK e \in Events \cup {None}, dropped \in BOOLEAN :
            Recorded("odds", Units, dropped) /\ Fault(Once(e = None) + Once(dropped))
      BY <2>2 DEF FetchAllOdds
    <3>2. lost' \in [Metered -> Nat]
      BY <3>1, UnitsAndTime DEF Recorded, Metered, FeedType, TypeInv
    <3>3. Once(e = None) + Once(dropped) \in Nat
      <4>1. Once(e = None) \in Nat /\ Once(dropped) \in Nat
        BY OnceTyped
      <4> QED BY <4>1
    <3>4. faults' \in 0..MaxFaults
      BY <3>1, <3>3, FaultTyped DEF FeedType, TypeInv
    <3>5. credits' \in Nat
      BY <2>2, UnitsAndTime DEF FetchAllOdds, FeedType, TypeInv
    <3> QED BY <3>2, <3>4, <3>5 DEF Tick, FeedType, TypeInv
  <2> QED BY <2>1, <2>2 DEF Tick
<1> QED BY <1>1, <1>2, <1>3 DEF Tick, TypeInv

LEMMA TypePreserved ==
  ASSUME TypeInv, PriorInv, [Next]_vars
  PROVE  TypeInv'
<1>1. CASE Advance
  BY <1>1, UnitsAndTime DEF Advance, job, feeds, TypeInv, PositionType, SignalType, FeedType
<1>2. CASE \E w \in Windows : Step(w)
  BY <1>2, LoadModelsTyped, MarketTyped, FetchingTyped, StartNewsTyped, AskTyped,
     AnswerRequestTyped, OpenSearchTyped, QueryTyped, EndQueryTyped, AskModelTyped,
     AssembleTyped, DeliverTyped DEF Step
<1>3. CASE UNCHANGED vars
  BY <1>3 DEF vars, job, feeds, TypeInv, PositionType, SignalType, FeedType
<1> QED BY <1>1, <1>2, <1>3, TickTyped DEF Next
-----------------------------------------------------------------------------
\* Frame: a step of one window leaves the variables of the others alone.
Stays(v) ==
  /\ pc'[v] = pc[v] /\ used'[v] = used[v] /\ failed'[v] = failed[v]
  /\ quote'[v] = quote[v] /\ news'[v] = news[v] /\ card'[v] = card[v]
  /\ snaps'[v] = snaps[v]

LEMMA Frame ==
  ASSUME TypeInv, DomainInv, NEW w \in Windows, Step(w)
  PROVE  DomainInv' /\ \A v \in Windows \ {w} : Stays(v)
<1> USE DEF DomainInv, Stays, Goto
<1>1. DOMAIN pc = Windows /\ DOMAIN used = Windows /\ DOMAIN failed = Windows
      /\ DOMAIN news = Windows
  BY DEF TypeInv, PositionType, SignalType
<1>2. CASE LoadModels(w)
  BY <1>1, <1>2 DEF LoadModels
<1>3. CASE Market(w)
  BY <1>1, <1>3 DEF Market, Priced, NoMarket
<1>4. CASE Fetching(w)
  BY <1>1, <1>4 DEF Fetching, Priced, NoMarket
<1>5. CASE StartNews(w)
  BY <1>1, <1>5 DEF StartNews, Reused
<1>6. CASE Ask(w)
  BY <1>1, <1>6 DEF Ask, Put, job
<1>7. CASE AnswerRequest(w)
  BY <1>1, <1>7 DEF AnswerRequest, job
<1>8. CASE OpenSearch(w) \/ Query(w) \/ EndQuery(w)
  BY <1>1, <1>8 DEF OpenSearch, Query, EndQuery, job
<1>9. CASE AskModel(w)
  BY <1>1, <1>9 DEF AskModel, Analysed, Unanalysed
<1>10. CASE Assemble(w)
  BY <1>1, <1>10 DEF Assemble, Issued, job
<1>11. CASE Deliver(w)
  BY <1>1, <1>11 DEF Deliver
<1> QED BY <1>2, <1>3, <1>4, <1>5, <1>6, <1>7, <1>8, <1>9, <1>10, <1>11 DEF Step

\* Who did not take the step keeps what is true of it: the row of T-60m changes only
\* while nobody has used it.
LEMMA OthersAudit ==
  ASSUME NEW v, AuditOf(v), Stays(v), prior' = prior \/ prior = None
  PROVE  AuditOf(v)'
BY DEF AuditOf, Stays, Visited, OddsTrue, NewsTrue, CardTrue, ToMarket, ToNews, Built

\* What the step of a window is for: its own part of the audit.
LEMMA LoadModelsAudit ==
  ASSUME TypeInv, AuditInv, NEW w \in Windows, LoadModels(w)
  PROVE  AuditOf(w)'
<1>1. pc[w] = "models" /\ pc'[w] = "market" /\ UNCHANGED <<quote, news, card>>
  BY DEF LoadModels, Goto, TypeInv, PositionType
<1>2. \E good \in SUBSET {"dixon_coles", "elo"} :
        used'[w] = good /\ failed'[w] = {"dixon_coles", "elo"} \ good
  BY DEF LoadModels, TypeInv, SignalType
<1>3. Visited(w, {"dixon_coles", "elo"})'
  BY <1>2 DEF Visited
<1> QED BY <1>1, <1>3 DEF AuditInv, AuditOf, ToMarket, ToNews, Built

\* A quote that is usable is listed as used, any other as failed.
LEMMA PricedAudit ==
  ASSUME TypeInv, DomainInv, NEW w \in Windows, NEW event, NEW mishaps,
         Visited(w, {"dixon_coles", "elo"}), quote[w] = NoQuote,
         Priced(w, event, mishaps) \/ NoMarket(w)
  PROVE  Visited(w, {"dixon_coles", "elo", "market"})' /\ OddsTrue(w)'
<1>1. ~Usable(NoQuote.odds)
  BY DEF NoQuote, NoOdds, Usable, Directions
<1>2. CASE NoMarket(w)
  BY <1>1, <1>2 DEF NoMarket, Visited, OddsTrue, TypeInv, SignalType
<1>3. CASE Priced(w, event, mishaps) /\ Usable(Quote(event).odds)
  <2>1. used'[w] = used[w] \cup {"market"} /\ failed'[w] = failed[w]
        /\ quote'[w] = Quote(event)
    BY <1>3 DEF Priced, DomainInv, TypeInv, SignalType
  <2> QED BY <1>3, <2>1 DEF Visited, OddsTrue
<1> QED BY <1>2, <1>3 DEF Priced

LEMMA MarketAudit ==
  ASSUME TypeInv, AuditInv, NEW w \in Windows, Market(w)
  PROVE  AuditOf(w)'
<1>1. /\ Visited(w, {"dixon_coles", "elo"}) /\ quote[w] = NoQuote /\ news[w] = NoNews
      /\ card[w] = None /\ UNCHANGED <<news, card>>
  BY DEF Market, AuditInv, AuditOf, ToMarket
<1>2. CASE pc'[w] = "news" /\ (NoMarket(w) \/ \E n : Priced(w, events[w], n))
  <2>1. Visited(w, {"dixon_coles", "elo", "market"})' /\ OddsTrue(w)'
    BY <1>1, <1>2, PricedAudit DEF AuditInv
  <2> QED BY <1>1, <1>2, <2>1 DEF AuditOf, ToMarket, ToNews, Built
<1>3. CASE pc'[w] = "fetching" /\ UNCHANGED <<used, failed, quote>>
  BY <1>1, <1>3 DEF AuditOf, Visited, ToMarket, ToNews, Built
<1> QED BY <1>2, <1>3 DEF Market, Goto, TypeInv, PositionType

LEMMA FetchingAudit ==
  ASSUME TypeInv, AuditInv, NEW w \in Windows, Fetching(w)
  PROVE  AuditOf(w)'
<1>1. /\ Visited(w, {"dixon_coles", "elo"}) /\ quote[w] = NoQuote /\ news[w] = NoNews
      /\ card[w] = None /\ UNCHANGED <<news, card>> /\ pc'[w] = "news"
  BY DEF Fetching, AuditInv, AuditOf, ToMarket, Goto, TypeInv, PositionType
<1>2. \E e \in Events : NoMarket(w) \/ \E n : Priced(w, e, n)
  BY DEF Fetching, Events
<1>3. Visited(w, {"dixon_coles", "elo", "market"})' /\ OddsTrue(w)'
  BY <1>1, <1>2, PricedAudit DEF AuditInv
<1> QED BY <1>1, <1>3 DEF AuditOf, ToMarket, ToNews, Built

\* What is used again was an answer of the providers once: T-60m's own want of news
\* has low confidence.
LEMMA StartNewsAudit ==
  ASSUME TypeInv, AuditInv, NEW w \in Windows, StartNews(w)
  PROVE  AuditOf(w)'
<1>1. /\ Visited(w, {"dixon_coles", "elo", "market"}) /\ OddsTrue(w) /\ news[w] = NoNews
      /\ card[w] = None /\ UNCHANGED <<failed, quote, prior, card>>
  BY DEF StartNews, AuditInv, AuditOf, ToNews
<1>2. CASE pc'[w] = "assemble" /\ used'[w] = used[w] \cup {"news"} /\ NewsTrue(w)'
  BY <1>1, <1>2 DEF AuditOf, Visited, OddsTrue, ToMarket, ToNews, Built, AllSignals
<1>3. CASE pc'[w] \in {"asking", "searching"} /\ UNCHANGED <<news, used>>
  BY <1>1, <1>3 DEF AuditOf, Visited, OddsTrue, ToMarket, ToNews, Built
<1>4. ASSUME HasPrior(w), Reused(w), used' = [used EXCEPT ![w] = @ \cup {"news"}]
      PROVE  NewsTrue(w)'
  <2> DEFINE again == From(Discount(ValidateAndClamp(prior.news)), "prior")
  <2>1. prior # None /\ prior.news \in NewsRecords /\ prior.news.from = "llm"
        /\ w \in ReuseWindows
    BY <1>4, NoNewsTyped DEF HasPrior, Reusable, AuditInv, PriorInv
  <2>2. news'[w] = again /\ again.from = "prior"
        /\ again.home = Discount(ValidateAndClamp(prior.news)).home
        /\ again.away = Discount(ValidateAndClamp(prior.news)).away
    BY <1>4 DEF Reused, From, TypeInv, SignalType
  <2>3. Weaker(again.home, prior.news.home) /\ Weaker(again.away, prior.news.away)
    BY <2>1, <2>2, ReuseWeakens
  <2>4. "news" \in used'[w]
    BY <1>4 DEF TypeInv, SignalType
  <2> HIDE DEF again
  <2> QED BY <1>1, <2>1, <2>2, <2>3, <2>4 DEF NewsTrue
<1>5. ASSUME news' = [news EXCEPT ![w] = NoNews]
      PROVE  NewsTrue(w)'
  BY <1>5, NoNewsTyped DEF NewsTrue, TypeInv, SignalType
<1>6. \/ Goto(w, "assemble") /\ used' = [used EXCEPT ![w] = @ \cup {"news"}] /\ NewsTrue(w)'
      \/ Goto(w, "asking") /\ UNCHANGED <<news, used>>
      \/ Goto(w, "searching") /\ UNCHANGED <<news, used>>
  BY <1>4, <1>5 DEF StartNews
<1> QED BY <1>2, <1>3, <1>6 DEF Goto, TypeInv, PositionType, SignalType

\* While requests and searches are made, nothing of the audit moves.
LEMMA AskingAudit ==
  ASSUME TypeInv, AuditInv, NEW w \in Windows,
         Ask(w) \/ AnswerRequest(w) \/ OpenSearch(w) \/ Query(w) \/ EndQuery(w)
  PROVE  AuditOf(w)'
<1>1. pc[w] \in ToNews /\ pc'[w] \in ToNews /\ UNCHANGED <<job, card>>
  BY DEF Ask, Put, AnswerRequest, OpenSearch, Query, EndQuery, Goto, ToNews, TypeInv, PositionType
<1>2. Visited(w, {"dixon_coles", "elo", "market"}) /\ OddsTrue(w) /\ news[w] = NoNews
      /\ card[w] = None
  BY <1>1 DEF AuditInv, AuditOf, ToNews
<1> QED BY <1>1, <1>2 DEF AuditOf, Visited, OddsTrue, job, ToMarket, ToNews, Built

LEMMA AskModelAudit ==
  ASSUME TypeInv, AuditInv, NEW w \in Windows, AskModel(w)
  PROVE  AuditOf(w)'
<1>1. /\ Visited(w, {"dixon_coles", "elo", "market"}) /\ OddsTrue(w) /\ news[w] = NoNews
      /\ card[w] = None /\ UNCHANGED <<quote, prior, card>>
  BY DEF AskModel, AuditInv, AuditOf, ToNews
<1>2. ASSUME NEW text \in Texts, Analysed(w, text)
      PROVE  AuditOf(w)'
  <2>1. pc'[w] = "assemble" /\ used'[w] = used[w] \cup {"news"} /\ failed' = failed
        /\ news'[w].from = "llm"
    BY <1>2 DEF Analysed, Goto, From, TypeInv, PositionType, SignalType
  <2> QED BY <1>1, <2>1 DEF AuditOf, NewsTrue, Visited, OddsTrue, ToMarket, ToNews, Built,
                           AllSignals
<1>3. CASE Goto(w, "plain") /\ UNCHANGED <<used, failed, news>>
  <2>1. pc'[w] = "plain"
    BY <1>3 DEF Goto, TypeInv, PositionType
  <2> QED BY <1>1, <1>3, <2>1 DEF AuditOf, Visited, OddsTrue, ToMarket, ToNews, Built
<1>4. CASE Unanalysed(w)
  <2>1. /\ pc'[w] = "assemble" /\ failed'[w] = failed[w] \cup {"news"} /\ news'[w] = NoNews
        /\ UNCHANGED used
    BY <1>4 DEF Unanalysed, Goto, TypeInv, PositionType, SignalType
  <2> QED BY <1>1, <2>1, NoNewsTyped
          DEF AuditOf, NewsTrue, Visited, OddsTrue, ToMarket, ToNews, Built, AllSignals
<1> QED BY <1>2, <1>3, <1>4 DEF AskModel

\* The card is called what its odds and rules made it; what happened to the row or to
\* the context does not show in it.
LEMMA AssembleAudit ==
  ASSUME TypeInv, AuditInv, NEW w \in Windows, Assemble(w)
  PROVE  AuditOf(w)' /\ PriorInv' /\ (prior' = prior \/ prior = None)
<1>1. /\ Visited(w, AllSignals) /\ OddsTrue(w) /\ NewsTrue(w)
      /\ pc[w] = "assemble" /\ pc' = [pc EXCEPT ![w] = "deliver"] /\ UNCHANGED job
  BY DEF Assemble, Goto, AuditInv, AuditOf, Built
<1>2. PICK q, kept, own, reads : Issued(w, q, kept, own, reads)
  BY DEF Assemble
<1>3. pc'[w] = "deliver"
  BY <1>1 DEF TypeInv, PositionType
<1>4. CardTrue(w)'
  <2> DEFINE path == Pathway(quote[w].odds, q[2])
             built == Cards[q]
  <2>1. card'[w] = Assembled(w, path, built, TiltedNow(q, own), AdviceNow(q, reads))
    BY <1>2 DEF Issued, AuditInv, DomainInv
  <2> HIDE DEF path, built
  <2>2. /\ card'[w].failed = failed[w] \cup IF path = "alert" THEN {"model"} ELSE {}
        /\ card'[w].ev = (path = "ev_optimized")
    BY <2>1 DEF Assembled
  <2> USE DEF path
  <2>3. /\ path = "alert" => Usable(quote[w].odds)
        /\ path = "ev_optimized" => Usable(quote[w].odds)
        /\ Usable(quote[w].odds) => path \in {"alert", "ev_optimized"}
    BY DEF Pathway, Valued
  <2>4. "model" \notin failed[w]
    BY DEF TypeInv, SignalType, AllSignals
  <2> HIDE DEF path
  <2> QED BY <1>1, <2>2, <2>3, <2>4 DEF CardTrue, OddsTrue, job
<1>5. prior' = prior \/ (prior = None /\ w = Primary)
  BY <1>1, <1>2 DEF Issued, AuditInv, PriorInv
<1>6. PriorInv'
  <2>1. CASE w = Primary /\ prior' = [at |-> now, news |-> news[w]]
    <3>1. news[w].from \in {"nobody", "llm", "prior"} /\ news[w] \in NewsRecords
      BY DEF TypeInv, SignalType, NewsRecords
    <3>2. news[w].from = "llm" \/ news[w] = NoNews
      BY <1>1, <2>1, <3>1, CardAssumption DEF NewsTrue
    <3> QED BY <1>3, <2>1, <3>1, <3>2 DEF PriorInv
  <2>2. CASE prior' = prior
    <3>1. pc'[Primary] \notin {"deliver", "done"} => pc[Primary] \notin {"deliver", "done"}
      BY <1>1, CardAssumption DEF TypeInv, PositionType
    <3> QED BY <2>2, <3>1 DEF AuditInv, PriorInv
  <2> QED BY <1>2, <2>1, <2>2 DEF Issued
<1>7. NewsTrue(w)'
  BY <1>1, <1>5 DEF NewsTrue, job
<1>8. Visited(w, AllSignals)' /\ OddsTrue(w)'
  BY <1>1 DEF Visited, OddsTrue, job
<1> QED BY <1>3, <1>4, <1>5, <1>6, <1>7, <1>8 DEF AuditOf, ToMarket, ToNews, Built

LEMMA DeliverAudit ==
  ASSUME TypeInv, AuditInv, NEW w \in Windows, Deliver(w)
  PROVE  AuditOf(w)'
BY
DEF Deliver, Goto, AuditInv, DomainInv, AuditOf, TypeInv, PositionType, ToMarket, ToNews, Built

\* Only the card of T-60m touches its row, and only once it is built.
LEMMA PriorStays ==
  ASSUME TypeInv, AuditInv, NEW w \in Windows, Step(w), ~Assemble(w)
  PROVE  UNCHANGED prior /\ PriorInv'
<1>1. UNCHANGED prior
  BY DEF Step, LoadModels, Market, Fetching, StartNews, Ask, AnswerRequest, OpenSearch, Query,
         EndQuery, AskModel, Deliver, job
<1>2. pc[w] \in {"deliver", "done"} => pc'[w] = "done"
  BY DEF Step, LoadModels, Market, Fetching, StartNews, Ask, AnswerRequest, OpenSearch, Query,
         EndQuery, AskModel, Deliver, Goto, TypeInv, PositionType
<1>3. pc[Primary] \in {"deliver", "done"} => pc'[Primary] \in {"deliver", "done"}
  BY <1>2, Frame, CardAssumption DEF Stays, AuditInv
<1> QED BY <1>1, <1>3 DEF AuditInv, PriorInv

LEMMA AuditPreserved ==
  ASSUME TypeInv, AuditInv, [Next]_vars
  PROVE  AuditInv'
<1>1. CASE Advance \/ UNCHANGED vars
  <2>1. UNCHANGED <<pc, events, job, prior, snaps, card>>
    BY <1>1 DEF Advance, vars
  <2> QED BY <2>1 DEF job, AuditInv, DomainInv, PriorInv, AuditOf, Visited, OddsTrue, NewsTrue,
                     CardTrue
<1>2. CASE Tick
  <2>1. /\ UNCHANGED <<job, prior, snaps, card>> /\ DOMAIN events' = Windows
        /\ \A w \in Windows : pc'[w] = pc[w] \/ (pc[w] = "idle" /\ pc'[w] = "models")
    BY <1>2 DEF Tick, Due, AuditInv, DomainInv
  <2>2. ASSUME NEW w \in Windows
        PROVE  AuditOf(w)'
    BY <2>1 DEF job, AuditInv, AuditOf, Visited, OddsTrue, NewsTrue, CardTrue, ToMarket, ToNews,
                Built
  <2>3. PriorInv'
    BY <2>1, CardAssumption DEF AuditInv, PriorInv
  <2> QED BY <2>1, <2>2, <2>3 DEF job, AuditInv, DomainInv
<1>3. ASSUME NEW w \in Windows, Step(w)
      PROVE  AuditInv'
  <2>1. DomainInv' /\ \A v \in Windows \ {w} : Stays(v)
    BY <1>3, Frame DEF AuditInv
  <2>2. AuditOf(w)'
    BY <1>3, LoadModelsAudit, MarketAudit, FetchingAudit, StartNewsAudit, AskingAudit,
       AskModelAudit, AssembleAudit, DeliverAudit DEF Step
  <2>3. PriorInv' /\ (prior' = prior \/ prior = None)
    BY <1>3, PriorStays, AssembleAudit
  <2>4. ASSUME NEW v \in Windows \ {w}
        PROVE  AuditOf(v)'
    BY <2>1, <2>3, OthersAudit DEF AuditInv
  <2> QED BY <2>1, <2>2, <2>3, <2>4 DEF AuditInv
<1> QED BY <1>1, <1>2, <1>3 DEF Next
-----------------------------------------------------------------------------
LEMMA LockWindow == Order[1] \in Windows /\ 1 \in DOMAIN Order
BY CardAssumption

\* The lock window's own steps.
LEMMA LockStep ==
  ASSUME TypeInv, AuditInv, LockInv, Step(Order[1])
  PROVE  LockInv'
<1> DEFINE lock == Order[1]
<1> USE LockWindow DEF Goto, TypeInv, PositionType
<1>1. CASE LoadModels(lock)
  BY <1>1 DEF LoadModels, LockInv, ToMarket, ToNews
<1>2. CASE Market(lock)
  <2>1. pc[lock] = "market" /\ locked = NoOdds /\ snaps[lock] = None /\ UNCHANGED locked
    BY <1>2 DEF Market, LockInv, ToMarket
  <2>2. \/ pc'[lock] = "fetching" /\ UNCHANGED snaps
        \/ pc'[lock] = "news" /\ (NoMarket(lock) \/ \E n : Priced(lock, events[lock], n))
    BY <1>2 DEF Market
  <2>3. snaps'[lock] = None \/ snaps'[lock] = quote'[lock]
    BY <2>1, <2>2 DEF NoMarket, Priced, AuditInv, DomainInv
  <2> QED BY <2>1, <2>2, <2>3 DEF LockInv, ToMarket, ToNews, NoMarket
<1>3. CASE Fetching(lock)
  <2>1. pc[lock] = "fetching" /\ locked = NoOdds /\ snaps[lock] = None /\ UNCHANGED locked
    BY <1>3 DEF Fetching, LockInv, ToMarket
  <2>2. pc'[lock] = "news" /\ \E e \in Events : NoMarket(lock) \/ \E n : Priced(lock, e, n)
    BY <1>3 DEF Fetching, Events
  <2>3. snaps'[lock] = None \/ snaps'[lock] = quote'[lock]
    BY <2>1, <2>2 DEF NoMarket, Priced, AuditInv, DomainInv
  <2> QED BY <2>1, <2>2, <2>3 DEF LockInv, ToMarket, ToNews
<1>4. CASE StartNews(lock) \/ Ask(lock) \/ AnswerRequest(lock) \/ OpenSearch(lock)
           \/ Query(lock) \/ EndQuery(lock) \/ AskModel(lock)
  <2>1. pc[lock] \in ToNews /\ pc'[lock] \in ToNews \cup {"assemble"}
        /\ UNCHANGED <<locked, snaps, quote>>
    BY <1>4 DEF StartNews, Ask, Put, AnswerRequest, OpenSearch, Query, EndQuery, AskModel,
                Analysed, Unanalysed, job, ToNews
  <2> QED BY <2>1 DEF LockInv, ToMarket, ToNews
<1>5. CASE Assemble(lock)
  <2>1. pc[lock] = "assemble" /\ pc'[lock] = "deliver" /\ UNCHANGED <<snaps, quote>>
        /\ locked' = quote[lock].odds
    BY <1>5 DEF Assemble, Issued, job
  <2> QED BY <2>1 DEF LockInv, ToMarket, ToNews
<1>6. CASE Deliver(lock)
  BY <1>6 DEF Deliver, LockInv, ToMarket, ToNews
<1> QED BY <1>1, <1>2, <1>3, <1>4, <1>5, <1>6 DEF Step

LEMMA LockPreserved ==
  ASSUME TypeInv, AuditInv, LockInv, [Next]_vars
  PROVE  LockInv'
<1> DEFINE lock == Order[1]
<1>1. CASE Advance \/ UNCHANGED vars
  <2>1. UNCHANGED <<pc, job, snaps, locked>>
    BY <1>1 DEF Advance, vars
  <2> QED BY <2>1 DEF job, LockInv
<1>2. CASE Tick
  <2>1. /\ UNCHANGED <<job, snaps, locked>>
        /\ pc'[lock] = pc[lock] \/ (pc[lock] = "idle" /\ pc'[lock] = "models")
    BY <1>2, LockWindow DEF Tick, Due
  <2> QED BY <2>1 DEF job, LockInv, ToMarket, ToNews
<1>3. ASSUME NEW w \in Windows \ {lock}, Step(w)
      PROVE  LockInv'
  <2>1. Stays(lock)
    BY <1>3, LockWindow, Frame DEF AuditInv
  <2>2. UNCHANGED locked
    BY <1>3 DEF Step, LoadModels, Market, Fetching, StartNews, Ask, AnswerRequest, OpenSearch,
                Query, EndQuery, AskModel, Assemble, Issued, Deliver
  <2> QED BY <2>1, <2>2 DEF LockInv, Stays
<1> QED BY <1>1, <1>2, <1>3, LockStep DEF Next
-----------------------------------------------------------------------------
LEMMA CountSubset ==
  ASSUME NEW S \in SUBSET Windows, NEW T \in SUBSET S
  PROVE  /\ IsFiniteSet(T) /\ Cardinality(T) \in Nat /\ Cardinality(S) \in Nat
         /\ Cardinality(T) <= Cardinality(S)
<1>1. IsFiniteSet(S)
  BY FS_Subset, CardAssumption
<1> QED BY <1>1, FS_Subset, FS_CardinalityType

LEMMA CountOneMore ==
  ASSUME NEW S \in SUBSET Windows, NEW T \in SUBSET S, NEW w \in S \ T
  PROVE  Cardinality(T \cup {w}) = Cardinality(T) + 1 /\ Cardinality(T) + 1 <= Cardinality(S)
<1>1. IsFiniteSet(T) /\ T \cup {w} \in SUBSET S
  BY CountSubset
<1>2. Cardinality(T \cup {w}) = Cardinality(T) + 1
  BY <1>1, FS_AddElement
<1> QED BY <1>1, <1>2, CountSubset

LEMMA CountOneLess ==
  ASSUME NEW T \in SUBSET Windows, NEW w \in T
  PROVE  Cardinality(T \ {w}) = Cardinality(T) - 1
BY CountSubset, FS_RemoveElement

\* Who is searching or asking is one of those that may.
LEMMA CallersWithin ==
  ASSUME SpendInv
  PROVE  InQuery \in SUBSET SearchWindows /\ InRequest \in SUBSET LineupWindows
         /\ SearchWindows \in SUBSET Windows /\ LineupWindows \in SUBSET Windows
BY CardAssumption DEF SpendInv, InQuery, InRequest

LEMMA PlacesPreserved ==
  ASSUME TypeInv, DomainInv, SpendInv, NEW w \in Windows, Step(w), NEW v \in Windows
  PROVE  (/\ pc[v] \in {"searching", "query", "queried"} => v \in SearchWindows
          /\ pc[v] \in {"asking", "asked"} => v \in LineupWindows)'
<1>1. CASE v # w
  BY <1>1, Frame DEF Stays, SpendInv
<1>2. CASE v = w
  <2> USE DEF SpendInv, Goto, TypeInv, PositionType
  <2>1. CASE LoadModels(w) \/ Market(w) \/ Fetching(w) \/ AskModel(w) \/ Assemble(w) \/ Deliver(w)
    BY <1>2, <2>1
    DEF LoadModels, Market, Fetching, AskModel, Analysed, Unanalysed, Assemble, Deliver
  <2>2. CASE StartNews(w) \/ Ask(w) \/ AnswerRequest(w)
    BY <1>2, <2>2, CardAssumption DEF StartNews, Ask, Put, AnswerRequest
  <2>3. CASE OpenSearch(w) \/ Query(w) \/ EndQuery(w)
    BY <1>2, <2>3 DEF OpenSearch, Query, EndQuery
  <2> QED BY <2>1, <2>2, <2>3 DEF Step
<1> QED BY <1>1, <1>2

LEMMA MeteredTyped ==
  ASSUME TypeInv
  PROVE  /\ lost["search"] \in Nat /\ lost["request"] \in Nat
         /\ blind["search"] \in Nat /\ blind["request"] \in Nat
         /\ searches \in Nat /\ requests \in Nat
BY DEF TypeInv, FeedType, Metered

\* A search is cleared with at most one other per window that searches under way.
LEMMA QueryBounds ==
  ASSUME TypeInv, SpendInv, NEW w \in Windows, Query(w)
  PROVE  SpendBounds'
<1>1. w \in SearchWindows \ InQuery /\ UNCHANGED <<searches, requests, lost>>
  BY DEF Query, SpendInv, InQuery, football
<1>2. PICK open \in BOOLEAN :
        /\ SearchGate(open)
        /\ Goto(w, IF open THEN "queried" ELSE IF togo[w] = 1 THEN "json" ELSE "query")
  BY DEF Query
<1>3. /\ blind'["search"] >= blind["search"] /\ blind'["request"] = blind["request"]
      /\ blind'["search"] \in Nat
  BY <1>2 DEF SearchGate, TypeInv, FeedType, Metered
<1>4. InRequest' = InRequest
  BY DEF Query, Goto, InRequest, TypeInv, PositionType
<1>5. DailyLimit \in Nat /\ Brake \in Nat /\ DayBudget \in Nat /\ SpendBounds
  BY CardAssumption DEF SpendInv
<1>6. CASE pc'[w] = "queried"
  <2>1. InQuery' = InQuery \cup {w}
    BY <1>6 DEF Query, Goto, InQuery, TypeInv, PositionType
  <2>2. open
    BY <1>2, <1>6 DEF Goto, TypeInv, PositionType
  <2>3. searches < Brake + lost["search"]
        /\ (searches < DailyLimit + lost["search"] \/ blind'["search"] = blind["search"] + 1)
    <3> DEFINE rows == searches - lost["search"]
    <3>1. rows \in Int /\ searches = rows + lost["search"]
      BY MeteredTyped
    <3>2. CASE SearchCleared
      BY <1>5, <3>1, <3>2, MeteredTyped DEF SearchCleared
    <3>3. CASE /\ rows \in DailyLimit..(Brake - 1)
               /\ blind' = [blind EXCEPT !["search"] = @ + 1]
      <4>1. blind'["search"] = blind["search"] + 1
        BY <3>3 DEF TypeInv, FeedType, Metered
      <4> QED BY <1>5, <3>1, <3>3, <4>1, MeteredTyped
    <3> QED BY <1>2, <2>2, <3>2, <3>3 DEF SearchGate
  <2>4. Cardinality(InQuery') = Cardinality(InQuery) + 1
        /\ Cardinality(InQuery) + 1 <= Cardinality(SearchWindows)
        /\ Cardinality(InQuery) \in Nat /\ Cardinality(SearchWindows) \in Nat
    BY <1>1, <2>1, CallersWithin, CountOneMore, CountSubset
  <2> HIDE DEF InQuery
  <2>5. /\ searches + (Cardinality(InQuery) + 1)
              <= DailyLimit + Cardinality(SearchWindows) - 1 + lost["search"] + blind'["search"]
        /\ searches + (Cardinality(InQuery) + 1)
              <= Brake + Cardinality(SearchWindows) - 1 + lost["search"]
    BY <1>3, <1>5, <2>3, <2>4, MeteredTyped DEF SpendBounds
  <2> QED BY <1>1, <1>3, <1>4, <1>5, <2>4, <2>5 DEF SpendBounds
<1>7. CASE pc'[w] # "queried"
  <2>1. InQuery' = InQuery
    BY <1>7 DEF Query, Goto, InQuery, TypeInv, PositionType
  <2>2. Cardinality(InQuery) \in Nat /\ Cardinality(SearchWindows) \in Nat
    BY CallersWithin, CountSubset
  <2> QED BY <1>1, <1>3, <1>4, <1>5, <2>1, <2>2, MeteredTyped DEF SpendBounds
<1> QED BY <1>6, <1>7

\* A search that has ended is counted with those made; its row may be lost.
LEMMA EndQueryBounds ==
  ASSUME TypeInv, SpendInv, NEW w \in Windows, EndQuery(w)
  PROVE  SpendBounds'
<1>1. w \in InQuery /\ searches' = searches + 1 /\ UNCHANGED <<requests, blind>>
  BY DEF EndQuery, Searched, InQuery, football
<1>2. lost'["search"] >= lost["search"] /\ lost'["search"] \in Nat
      /\ lost'["request"] = lost["request"]
  <2>1. \E dropped \in BOOLEAN : Recorded("search", 1, dropped)
    BY DEF EndQuery, Searched
  <2> QED BY <2>1 DEF Recorded, TypeInv, FeedType, Metered
<1>3. InRequest' = InRequest /\ InQuery' = InQuery \ {w}
  BY DEF EndQuery, Goto, InQuery, InRequest, TypeInv, PositionType
<1>4. Cardinality(InQuery') = Cardinality(InQuery) - 1 /\ Cardinality(InQuery) \in Nat
  BY <1>1, <1>3, CallersWithin, CountOneLess, CountSubset
<1>5. Cardinality(SearchWindows) \in Nat
  BY CallersWithin, CountSubset
<1>6. DailyLimit \in Nat /\ Brake \in Nat /\ SpendBounds
  BY CardAssumption DEF SpendInv
<1> HIDE DEF InQuery
<1> QED BY <1>1, <1>2, <1>3, <1>4, <1>5, <1>6, MeteredTyped DEF SpendBounds

\* A request that is sent was cleared, or nobody could read the ledger.
LEMMA AskBounds ==
  ASSUME TypeInv, SpendInv, NEW w \in Windows, Ask(w)
  PROVE  SpendBounds'
<1>1. w \in LineupWindows \ InRequest /\ UNCHANGED <<searches, requests, lost>>
  BY DEF Ask, SpendInv, InRequest
<1>2. InQuery' = InQuery
  BY DEF Ask, Put, Goto, InQuery, TypeInv, PositionType
<1>3. /\ Cardinality(InRequest) \in Nat /\ Cardinality(LineupWindows) \in Nat
      /\ DayBudget \in Nat /\ SpendBounds
  BY CallersWithin, CountSubset, CardAssumption DEF SpendInv
<1>4. CASE UNCHANGED blind /\ Goto(w, "searching")
  <2>1. InRequest' = InRequest
    BY <1>1, <1>4 DEF Goto, InRequest, TypeInv, PositionType
  <2> QED BY <1>1, <1>2, <1>3, <1>4, <2>1 DEF SpendBounds
<1>5. ASSUME NEW cleared \in BOOLEAN, NEW k, FailsOpen("request", RequestCleared, cleared),
             Put(w, k, cleared)
      PROVE  SpendBounds'
  <2>1. /\ blind'["search"] = blind["search"] /\ blind'["request"] \in Nat
        /\ blind'["request"] = blind["request"] + IF cleared = RequestCleared THEN 0 ELSE 1
    BY <1>5 DEF FailsOpen, TypeInv, FeedType, Metered
  <2>2. CASE cleared
    <3>1. InRequest' = InRequest \cup {w}
      BY <1>5, <2>2 DEF Ask, Put, Goto, InRequest, TypeInv, PositionType
    <3>2. requests < DayBudget + lost["request"] \/ blind'["request"] = blind["request"] + 1
      <4>1. CASE RequestCleared
        BY <1>3, <4>1, MeteredTyped DEF RequestCleared
      <4>2. CASE ~RequestCleared
        BY <2>1, <2>2, <4>2
      <4> QED BY <4>1, <4>2
    <3>3. Cardinality(InRequest') = Cardinality(InRequest) + 1
          /\ Cardinality(InRequest) + 1 <= Cardinality(LineupWindows)
      BY <1>1, <3>1, CallersWithin, CountOneMore
    <3> HIDE DEF InRequest
    <3>4. requests + (Cardinality(InRequest) + 1)
            <= DayBudget + Cardinality(LineupWindows) - 1 + lost["request"] + blind'["request"]
      BY <1>3, <2>1, <3>2, <3>3, MeteredTyped DEF SpendBounds
    <3> QED BY <1>1, <1>2, <1>3, <2>1, <3>3, <3>4 DEF SpendBounds
  <2>3. CASE ~cleared
    <3>1. InRequest' = InRequest
      BY <1>5, <2>3 DEF Put, InRequest
    <3> QED BY <1>1, <1>2, <1>3, <2>1, <3>1, MeteredTyped DEF SpendBounds
  <2> QED BY <2>2, <2>3
<1> QED BY <1>4, <1>5, AskParts

LEMMA AnswerBounds ==
  ASSUME TypeInv, SpendInv, NEW w \in Windows, AnswerRequest(w)
  PROVE  SpendBounds'
<1>1. w \in InRequest /\ requests' = requests + 1 /\ UNCHANGED <<searches, blind>>
  BY DEF AnswerRequest, InRequest
<1>2. lost'["request"] >= lost["request"] /\ lost'["request"] \in Nat
      /\ lost'["search"] = lost["search"]
  <2>1. \E dropped \in BOOLEAN : Recorded("request", 1, dropped)
    BY DEF AnswerRequest
  <2> QED BY <2>1 DEF Recorded, TypeInv, FeedType, Metered
<1>3. InQuery' = InQuery /\ InRequest' = InRequest \ {w}
  BY DEF AnswerRequest, Goto, InQuery, InRequest, TypeInv, PositionType
<1>4. Cardinality(InRequest') = Cardinality(InRequest) - 1 /\ Cardinality(InRequest) \in Nat
  BY <1>1, <1>3, CallersWithin, CountOneLess, CountSubset
<1>5. Cardinality(LineupWindows) \in Nat
  BY CallersWithin, CountSubset
<1>6. DayBudget \in Nat /\ SpendBounds
  BY CardAssumption DEF SpendInv
<1> HIDE DEF InRequest
<1> QED BY <1>1, <1>2, <1>3, <1>4, <1>5, <1>6, MeteredTyped DEF SpendBounds

\* No other step searches or asks, drops a row of these or forgets a blind clearance.
LEMMA OtherSpends ==
  ASSUME TypeInv, NEW w \in Windows,
         \/ LoadModels(w) \/ Market(w) \/ Fetching(w) \/ StartNews(w) \/ OpenSearch(w)
         \/ AskModel(w) \/ Assemble(w) \/ Deliver(w)
  PROVE  /\ UNCHANGED <<searches, requests>>
         /\ lost'["search"] = lost["search"] /\ lost'["request"] = lost["request"]
         /\ blind'["search"] \in Nat /\ blind'["search"] >= blind["search"]
         /\ blind'["request"] = blind["request"]
<1> USE DEF Metered, TypeInv, FeedType
<1>1. CASE LoadModels(w) \/ StartNews(w) \/ AskModel(w) \/ Assemble(w) \/ Deliver(w)
  BY <1>1 DEF LoadModels, StartNews, AskModel, Assemble, Deliver, feeds, spent
<1>2. CASE Market(w)
  <2>1. UNCHANGED <<searches, requests, lost>>
        /\ (UNCHANGED blind \/ FailsOpen("odds", OddsCleared, TRUE))
    BY <1>2 DEF Market, football
  <2> QED BY <2>1 DEF FailsOpen
<1>3. CASE Fetching(w)
  <2>1. UNCHANGED <<searches, requests, blind>>
        /\ \E dropped \in BOOLEAN : Recorded("odds", Units, dropped)
    BY <1>3 DEF Fetching, football
  <2> QED BY <2>1 DEF Recorded
<1>4. CASE OpenSearch(w)
  <2>1. UNCHANGED <<searches, requests, lost>> /\ \E open \in BOOLEAN : SearchGate(open)
    BY <1>4 DEF OpenSearch, football
  <2> QED BY <2>1 DEF SearchGate
<1> QED BY <1>1, <1>2, <1>3, <1>4

LEMMA SpendPreserved ==
  ASSUME TypeInv, DomainInv, SpendInv, [Next]_vars
  PROVE  SpendInv'
<1>1. CASE Advance \/ UNCHANGED vars
  <2>1. UNCHANGED <<pc, searches, requests, lost, blind>>
    BY <1>1 DEF Advance, vars, feeds
  <2> QED BY <2>1 DEF SpendInv, SpendBounds, InQuery, InRequest
<1>2. CASE Tick
  <2>1. /\ UNCHANGED <<searches, requests, blind>>
        /\ \A w \in Windows : pc'[w] = pc[w] \/ (pc[w] = "idle" /\ pc'[w] = "models")
    BY <1>2 DEF Tick, Due
  <2>2. UNCHANGED lost \/ \E dropped : Recorded("odds", Units, dropped)
    BY <1>2 DEF Tick, FetchAllOdds
  <2>3. lost'["search"] = lost["search"] /\ lost'["request"] = lost["request"]
    BY <2>2 DEF Recorded, TypeInv, FeedType, Metered
  <2>4. InQuery' = InQuery /\ InRequest' = InRequest
    BY <2>1 DEF InQuery, InRequest
  <2> QED BY <2>1, <2>3, <2>4 DEF SpendInv, SpendBounds
<1>3. ASSUME NEW w \in Windows, Step(w)
      PROVE  SpendInv'
  <2>1. SpendBounds'
    <3>1. CASE Query(w) \/ EndQuery(w) \/ Ask(w) \/ AnswerRequest(w)
      BY <3>1, QueryBounds, EndQueryBounds, AskBounds, AnswerBounds
    <3>2. CASE \/ LoadModels(w) \/ Market(w) \/ Fetching(w) \/ StartNews(w) \/ OpenSearch(w)
               \/ AskModel(w) \/ Assemble(w) \/ Deliver(w)
      <4>1. /\ UNCHANGED <<searches, requests>>
            /\ lost'["search"] = lost["search"] /\ lost'["request"] = lost["request"]
            /\ blind'["search"] \in Nat /\ blind'["search"] >= blind["search"]
            /\ blind'["request"] = blind["request"]
        BY <3>2, OtherSpends
      <4>2. pc'[w] \notin {"queried", "asked"} /\ pc[w] \notin {"queried", "asked"}
        BY <3>2 DEF LoadModels, Market, Fetching, StartNews, OpenSearch, AskModel, Analysed,
                    Unanalysed, Assemble, Deliver, Goto, TypeInv, PositionType
      <4>3. InQuery' = InQuery /\ InRequest' = InRequest
        BY <1>3, <4>2, Frame DEF Stays, InQuery, InRequest
      <4>4. Cardinality(InQuery) \in Nat /\ Cardinality(SearchWindows) \in Nat
        BY CallersWithin, CountSubset
      <4>5. DailyLimit \in Nat /\ SpendBounds
        BY CardAssumption DEF SpendInv
      <4> QED BY <4>1, <4>3, <4>4, <4>5, MeteredTyped DEF SpendBounds
    <3> QED BY <1>3, <3>1, <3>2 DEF Step
  <2>2. \A v \in Windows : (/\ pc[v] \in {"searching", "query", "queried"} => v \in SearchWindows
                            /\ pc[v] \in {"asking", "asked"} => v \in LineupWindows)'
    BY <1>3, PlacesPreserved
  <2> QED BY <2>1, <2>2 DEF SpendInv, SpendBounds
<1> QED BY <1>1, <1>2, <1>3 DEF Next
-----------------------------------------------------------------------------
LEMMA Initially == Init => Inv
<1> SUFFICES ASSUME Init PROVE Inv
  OBVIOUS
<1>1. TypeInv
  <2>1. now \in 0..MaxTime /\ faults \in 0..MaxFaults /\ credits \in Nat /\ searches \in Nat
        /\ requests \in Nat
    <3>1. /\ now = 0 /\ faults = 0 /\ credits = OddsBudget - 1 - 2 * Units
          /\ searches = DailyLimit - 1 /\ requests = DayBudget - 2
      BY DEF Init
    <3> QED BY <3>1, CardAssumption
  <2>2. /\ files \in [Products -> {"absent", "empty", "full"}] /\ teamId \in [Sides -> BOOLEAN]
        /\ fixtureId \in BOOLEAN /\ lost \in [Metered -> Nat] /\ blind \in [Metered -> Nat]
    BY DEF Init
  <2>3. PositionType
    BY RequestsCounted DEF Init, PositionType, Labels
  <2>4. SignalType
    BY NoNewsTyped DEF Init, SignalType
  <2> QED BY <2>1, <2>2, <2>3, <2>4 DEF TypeInv, FeedType
<1>2. AuditInv
  BY CardAssumption DEF Init, AuditInv, DomainInv, PriorInv, AuditOf, ToMarket, ToNews, Built
<1>3. LockInv
  BY LockWindow DEF Init, LockInv, ToMarket, ToNews
<1>4. SpendInv
  <2>1. InQuery = {} /\ InRequest = {}
    BY DEF Init, InQuery, InRequest
  <2>2. Cardinality({}) = 0 /\ Cardinality(SearchWindows) \in Nat
        /\ Cardinality(LineupWindows) \in Nat
    BY FS_EmptySet, CountSubset, CardAssumption
  <2>3. searches = DailyLimit - 1 /\ requests = DayBudget - 2
        /\ lost["search"] = 0 /\ blind["search"] = 0
        /\ lost["request"] = 0 /\ blind["request"] = 0
    BY DEF Init, Metered
  <2>4. SpendBounds
    BY <2>1, <2>2, <2>3, CardAssumption DEF SpendBounds
  <2>5. \A w \in Windows : pc[w] \in {"idle", "done"}
    BY DEF Init
  <2> QED BY <2>4, <2>5 DEF SpendInv
<1> QED BY <1>1, <1>2, <1>3, <1>4 DEF Inv

LEMMA Inductive == Inv /\ [Next]_vars => Inv'
BY TypePreserved, AuditPreserved, LockPreserved, SpendPreserved DEF Inv, AuditInv

LEMMA Invariance == Spec => []Inv
BY Initially, Inductive, PTL DEF Spec

\* Whatever the windows, budgets, texts and settings: a correction never leaves the
\* clamp, and nobody's used or failed list names anything but a signal
\* (news_agent.py:524-566).
THEOREM TypeCorrect == Spec => []TypeOK
<1>1. Inv => TypeOK
  BY DEF Inv, TypeInv, PositionType, SignalType, FeedType, TypeOK
<1> QED BY <1>1, Invariance, PTL

\* Every card says which signals made it, and it is the truth: the golden rule of
\* build_card.py:9-12, in any number of windows.
THEOREM AuditHonest == Spec => []HonestAudit
<1>1. Inv => HonestAudit
  <2> SUFFICES ASSUME Inv, NEW w \in Windows, card[w] # None
               PROVE  /\ AllSignals \subseteq used[w] \cup card[w].failed
                      /\ used[w] \cap card[w].failed = {}
                      /\ "market" \in used[w] <=> Usable(quote[w].odds)
                      /\ card[w].ev <=> "market" \in used[w] /\ "model" \notin card[w].failed
                      /\ news[w].from \in {"llm", "prior"} => "news" \in used[w]
                      /\ news[w].from = "nobody" => news[w].home = 0 /\ news[w].away = 0
                      /\ news[w].from = "prior" =>
                           /\ prior # None /\ prior.news.from = "llm"
                           /\ Weaker(news[w].home, prior.news.home)
                           /\ Weaker(news[w].away, prior.news.away)
    BY DEF HonestAudit
  <2>1. AuditOf(w) /\ pc[w] = "deliver"
    BY DEF Inv, AuditInv, AuditOf
  <2>2. Visited(w, AllSignals) /\ OddsTrue(w) /\ NewsTrue(w) /\ CardTrue(w)
    BY <2>1 DEF AuditOf, Built
  <2>3. "model" \notin used[w]
    BY DEF Inv, TypeInv, SignalType, AllSignals
  <2>4. AllSignals \subseteq used[w] \cup card[w].failed /\ used[w] \cap card[w].failed = {}
    BY <2>2, <2>3 DEF Visited, CardTrue
  <2>5. card[w].ev <=> "market" \in used[w] /\ "model" \notin card[w].failed
    BY <2>2 DEF CardTrue
  <2> QED BY <2>2, <2>4, <2>5, NoNewsTyped DEF OddsTrue, NewsTrue
<1> QED BY <1>1, Invariance, PTL

\* The snapshot a match is settled with is the lock window's own, if there is one, and
\* that is of the odds its card was made for (oddsapi.py:3-7).
THEOREM SettlesAsOptimised == Spec => []SettledAsOptimised
<1>1. Inv => SettledAsOptimised
  <2> SUFFICES ASSUME Inv, Usable(locked), snaps[Order[1]] # None
               PROVE  LatestSnapshot # None /\ LatestSnapshot.odds = locked
    BY DEF SettledAsOptimised
  <2>1. 1 \in Snapped /\ \A j \in Snapped : j \in Nat /\ 1 <= j
    BY LockWindow, CardAssumption DEF Snapped
  <2>2. (CHOOSE i \in Snapped : \A j \in Snapped : i <= j) = 1
    BY <2>1
  <2>3. LatestSnapshot = snaps[Order[1]]
    BY <2>1, <2>2 DEF LatestSnapshot
  <2>4. pc[Order[1]] \in {"deliver", "done"}
    <3>1. ~Usable(NoOdds)
      BY DEF NoOdds, Usable, Directions
    <3> QED BY <3>1 DEF Inv, LockInv
  <2> QED BY <2>3, <2>4 DEF Inv, LockInv
<1> QED BY <1>1, Invariance, PTL

\* A budget is overrun by at most one call for each other window that may make it, by the
\* calls whose row was dropped and by those cleared while nobody could count them, searches
\* of the latter kind up to the brake (web_search.py:46-102, api_football.py:79-83,
\* cost.py:106-120).
THEOREM SpendingHolds == Spec => []SpendingBounded
<1>1. Inv => SpendingBounded
  <2> SUFFICES ASSUME Inv PROVE SpendingBounded
    OBVIOUS
  <2>1. SpendInv /\ TypeInv
    BY DEF Inv
  <2>2. Cardinality(InQuery) \in Nat /\ Cardinality(SearchWindows) \in Nat
        /\ Cardinality(InRequest) \in Nat /\ Cardinality(LineupWindows) \in Nat
    BY <2>1, CallersWithin, CountSubset
  <2>3. DailyLimit \in Nat /\ Brake \in Nat /\ DayBudget \in Nat
    BY CardAssumption
  <2> HIDE DEF InQuery, InRequest
  <2> QED BY <2>1, <2>2, <2>3, MeteredTyped DEF SpendInv, SpendBounds, SpendingBounded
<1> QED BY <1>1, Invariance, PTL
-----------------------------------------------------------------------------
(***************************************************************************)
(* Orders, extremes, percentages.  A strict order on a finite set has a    *)
(* first element: so CHOOSE finds what the code sorts to the front.        *)
(***************************************************************************)
\* A strict total order on a finite set has a first element.
LEMMA First ==
  ASSUME NEW S, IsFiniteSet(S), S # {}, NEW R,
         \A a \in S : <<a, a>> \notin R,
         \A a, b, c \in S : <<a, b>> \in R /\ <<b, c>> \in R => <<a, c>> \in R,
         \A a, b \in S : a = b \/ <<a, b>> \in R \/ <<b, a>> \in R
  PROVE  \E a \in S : \A b \in S \ {a} : <<a, b>> \in R
<1> DEFINE Before(a) == {b \in S : <<b, a>> \in R}
           T == {Before(a) : a \in S}
<1>1. IsWellFoundedOn(StrictSubsetOrdering(S), SUBSET S)
  BY FS_StrictSubsetOrderingWellFounded, FS_FiniteSubsetsOfFinite
<1>2. T \subseteq SUBSET S /\ T # {}
  <2>1. \A a \in S : Before(a) \subseteq S
    OBVIOUS
  <2>2. T # {}
    <3>1. PICK a \in S : TRUE
      OBVIOUS
    <3>2. Before(a) \in T
      OBVIOUS
    <3> QED BY <3>2
  <2> HIDE DEF Before
  <2> QED BY <2>1, <2>2
<1>3. PICK U \in T : \A V \in T : <<V, U>> \notin StrictSubsetOrdering(S)
  <2> HIDE DEF T
  <2> QED BY <1>1, <1>2, WFMin
<1>4. PICK a \in S : U = Before(a)
  OBVIOUS
<1>5. ASSUME NEW b \in S, <<b, a>> \in R
      PROVE  FALSE
  <2>1. Before(b) \subseteq Before(a) /\ b \in Before(a) /\ b \notin Before(b)
    BY <1>5
  <2>2. <<Before(b), Before(a)>> \in StrictSubsetOrdering(S)
    BY <2>1 DEF StrictSubsetOrdering
  <2> QED BY <2>2, <1>3, <1>4
<1> QED BY <1>5

LEMMA Extremes ==
  ASSUME NEW S \in SUBSET Int, IsFiniteSet(S), S # {}
  PROVE  /\ \E x \in S : \A y \in S : y <= x
         /\ \E x \in S : \A y \in S : x <= y
<1>0. \A x \in S : x \in Int
  OBVIOUS
<1>1. \E x \in S : \A y \in S : y <= x
  <2> DEFINE R == {r \in S \X S : r[1] > r[2]}
  <2>1. \A a, b \in S : <<a, b>> \in R <=> a > b
    OBVIOUS
  <2> HIDE DEF R
  <2>2. \A a, b, c \in S : <<a, b>> \in R /\ <<b, c>> \in R => <<a, c>> \in R
    BY <2>1
  <2>3. ASSUME NEW a \in S, NEW b \in S
        PROVE  a = b \/ <<a, b>> \in R \/ <<b, a>> \in R
    <3>1. a = b \/ a > b \/ b > a
      BY <1>0
    <3> QED BY <2>1, <3>1
  <2>4. \A a \in S : <<a, a>> \notin R
    BY <2>1
  <2>5. \E x \in S : \A y \in S \ {x} : <<x, y>> \in R
    BY <2>2, <2>3, <2>4, First
  <2>6. PICK x \in S : \A y \in S \ {x} : <<x, y>> \in R
    BY <2>5
  <2>7. ASSUME NEW y \in S
        PROVE  y <= x
    <3>1. x = y \/ x > y
      BY <2>1, <2>6
    <3> QED BY <1>0, <3>1
  <2> QED BY <2>7
<1>2. \E x \in S : \A y \in S : x <= y
  <2> DEFINE R == {r \in S \X S : r[1] < r[2]}
  <2>1. \A a, b \in S : <<a, b>> \in R <=> a < b
    OBVIOUS
  <2> HIDE DEF R
  <2>2. \A a, b, c \in S : <<a, b>> \in R /\ <<b, c>> \in R => <<a, c>> \in R
    BY <2>1
  <2>3. ASSUME NEW a \in S, NEW b \in S
        PROVE  a = b \/ <<a, b>> \in R \/ <<b, a>> \in R
    <3>1. a = b \/ a < b \/ b < a
      BY <1>0
    <3> QED BY <2>1, <3>1
  <2>4. \A a \in S : <<a, a>> \notin R
    BY <2>1
  <2>5. \E x \in S : \A y \in S \ {x} : <<x, y>> \in R
    BY <2>2, <2>3, <2>4, First
  <2>6. PICK x \in S : \A y \in S \ {x} : <<x, y>> \in R
    BY <2>5
  <2>7. ASSUME NEW y \in S
        PROVE  x <= y
    <3>1. x = y \/ x < y
      BY <2>1, <2>6
    <3> QED BY <1>0, <3>1
  <2> QED BY <2>7
<1> QED BY <1>1, <1>2

\* What a function makes of a finite set is finite.
LEMMA FiniteImage ==
  ASSUME NEW S, IsFiniteSet(S), NEW f, DOMAIN f = S, f \in [S -> {f[x] : x \in S}]
  PROVE  IsFiniteSet({f[x] : x \in S})
<1>1. f \in Surjection(S, {f[x] : x \in S})
  BY DEF Surjection
<1> QED BY <1>1, FS_Surjection

LEMMA DivTyped ==
  ASSUME NEW x \in Nat, NEW y \in Nat \ {0}
  PROVE  x \div y \in Nat
OBVIOUS

LEMMA ShareBound ==
  ASSUME NEW m \in Nat, NEW n \in Nat \ {0}, m <= n
  PROVE  (1000 * m) \div n \in 0..1000
<1> DEFINE q == (1000 * m) \div n
<1>1. q \in Int /\ n * q <= 1000 * m /\ 1000 * m < n * (q + 1)
  OBVIOUS
<1>2. q >= 0
  <2> SUFFICES ASSUME q < 0 PROVE FALSE
    BY <1>1
  <2>1. n * (q + 1) <= 0
    BY <1>1
  <2> QED BY <1>1, <2>1
<1>3. q <= 1000
  <2> SUFFICES ASSUME q >= 1001 PROVE FALSE
    BY <1>1
  <2>1. n * q >= n * 1001
    BY <1>1
  <2> QED BY <1>1, <2>1
<1> QED BY <1>1, <1>2, <1>3

LEMMA PercentTyped ==
  ASSUME NEW h \in Nat, NEW d \in Nat, NEW a \in Nat, h + d + a > 0
  PROVE  /\ \A x \in Directions : Percent(h, d, a)[x] \in Nat
         /\ \E x \in Directions : Percent(h, d, a)[x] > 0
<1> DEFINE n == h + d + a
<1>1. \A x \in Nat : (100 * x) \div n \in Nat
  BY DivTyped
<1>2. \A x \in Nat : 3 * x >= n => (100 * x) \div n > 0
  <2> SUFFICES ASSUME NEW x \in Nat, 3 * x >= n PROVE (100 * x) \div n > 0
    OBVIOUS
  <2>1. 100 * x >= n
    OBVIOUS
  <2> QED BY <2>1
<1>3. 3 * h >= n \/ 3 * d >= n \/ 3 * a >= n
  OBVIOUS
<1> QED BY <1>1, <1>2, <1>3 DEF Percent, Directions

\* Of the four percentages the code blends, none is negative and the ratings' do not
\* all vanish.
LEMMA RatingsTyped ==
  ASSUME NEW rated \in BOOLEAN
  PROVE  /\ \A d \in Directions : Ratings[rated][d] \in Nat
         /\ \E d \in Directions : Ratings[rated][d] > 0
<1> DEFINE e == IF rated THEN RatedHome ELSE FlatHome
           draw == AtLeast(6, (27 * (100 - AtLeast(e - 50, 50 - e))) \div 100)
           h == AtLeast(1, e - draw \div 2)
           a == AtLeast(1, 100 - e - draw \div 2)
<1>1. e \in Int
  BY NumbersAssumption
<1>2. draw \in Nat
  <2>1. (27 * (100 - AtLeast(e - 50, 50 - e))) \div 100 \in Int
    BY <1>1 DEF AtLeast
  <2> QED BY <2>1 DEF AtLeast
<1>3. h \in Nat /\ a \in Nat /\ h >= 1
  <2>1. draw \div 2 \in Int
    BY <1>2
  <2> HIDE DEF draw
  <2> QED BY <1>1, <2>1 DEF AtLeast
<1>4. Ratings[rated] = Percent(h, draw, a)
  BY DEF Ratings, EloOutcome
<1> HIDE DEF h, draw, a
<1> QED BY <1>2, <1>3, <1>4, PercentTyped

LEMMA MarketsTyped ==
  ASSUME NEW odds \in Quotes, NEW rated \in BOOLEAN
  PROVE  \A d \in Directions : Markets[odds][rated][d] \in Nat
<1>1. CASE Usable(odds)
  <2>1. odds["H"] \in Nat /\ odds["D"] \in Nat /\ odds["A"] \in Nat
        /\ odds["H"] > 10 /\ odds["D"] > 10 /\ odds["A"] > 10
    BY <1>1, NumbersAssumption DEF Usable, Directions
  <2> DEFINE h == odds["D"] * odds["A"]
             d == odds["H"] * odds["A"]
             a == odds["H"] * odds["D"]
  <2>2. h \in Nat /\ d \in Nat /\ a \in Nat /\ h > 0
    BY <2>1
  <2>3. Markets[odds][rated] = Percent(h, d, a)
    BY <1>1 DEF Markets, Devig
  <2> HIDE DEF h, d, a
  <2>4. h + d + a > 0
    BY <2>2
  <2>5. \A x \in Directions : Percent(h, d, a)[x] \in Nat
    BY <2>2, <2>4, PercentTyped
  <2> QED BY <2>3, <2>5
<1>2. CASE ~Usable(odds)
  BY <1>2, RatingsTyped DEF Markets
<1> QED BY <1>1, <1>2

LEMMA FitsProbsTyped ==
  ASSUME NEW fit \in BOOLEAN, NEW shift \in Shifts
  PROVE  \A d \in Directions : FitsProbs[fit][shift][d] \in Nat
<1> DEFINE m == Fits[fit][shift].mass
<1>1. m["H"] \in Nat /\ m["D"] \in Nat /\ m["A"] \in Nat
      /\ m["H"] + m["D"] + m["A"] > 0
  BY NumbersAssumption DEF Directions
<1>2. FitsProbs[fit][shift] = Percent(m["H"], m["D"], m["A"])
  BY DEF FitsProbs, FitProbs
<1> HIDE DEF m
<1> QED BY <1>1, <1>2, PercentTyped

LEMMA BlendedTyped ==
  ASSUME NEW dc, NEW elo, NEW market,
         \A d \in Directions : dc[d] \in Nat /\ elo[d] \in Nat /\ market[d] \in Nat,
         \E d \in Directions : elo[d] > 0
  PROVE  \A d \in Directions : Blended(dc, elo, market)[d] \in Nat
<1> DEFINE sum(d) == 20 * dc[d] + 20 * elo[d] + 60 * market[d]
<1>1. \A d \in Directions : sum(d) \in Nat
  OBVIOUS
<1>2. \E d \in Directions : sum(d) > 0
  OBVIOUS
<1>3. Blended(dc, elo, market) = Percent(sum("H"), sum("D"), sum("A"))
  BY DEF Blended
<1> HIDE DEF sum
<1>4. sum("H") \in Nat /\ sum("D") \in Nat /\ sum("A") \in Nat
      /\ sum("H") + sum("D") + sum("A") > 0
  BY <1>1, <1>2 DEF Directions
<1> QED BY <1>3, <1>4, PercentTyped

LEMMA SourceParts ==
  ASSUME NEW i \in Sources
  PROVE  i.fit \in BOOLEAN /\ i.rated \in BOOLEAN /\ i.shift \in Shifts /\ i.odds \in Quotes
BY DEF Sources

LEMMA ForecastsTyped ==
  ASSUME NEW i \in Sources
  PROVE  /\ Forecasts[i].fit = Fits[i.fit][i.shift]
         /\ \A d \in Directions : Forecasts[i].probs[d] \in Nat
<1>1. i.fit \in BOOLEAN /\ i.rated \in BOOLEAN /\ i.shift \in Shifts /\ i.odds \in Quotes
  BY SourceParts
<1>2. /\ Forecasts[i].fit = Fits[i.fit][i.shift]
      /\ Forecasts[i].probs = Blended(FitsProbs[i.fit][i.shift], Ratings[i.rated],
                                      Markets[i.odds][i.rated])
  BY DEF Forecasts
<1> QED BY <1>1, <1>2, RatingsTyped, MarketsTyped, FitsProbsTyped, BlendedTyped

\* A candidate of the ranking: no number of it is negative.
Typed(r) == r.at \in Cells /\ r.dir = Direction(r.at) /\ r.p \in Nat /\ r.ev \in Nat

\* One candidate for each score.
OneEach(S) == IsFiniteSet(S) /\ \A a, b \in S : a.at = b.at => a = b

LEMMA CellsFinite == IsFiniteSet(Cells) /\ \A c \in Cells : c[1] \in Nat /\ c[2] \in Nat
<1>1. IsFiniteSet(0..MaxGoals)
  BY FS_Interval, GoalsAssumption
<1> QED BY <1>1, FS_Product, GoalsAssumption DEF Cells

LEMMA DirectionTyped == \A c \in Cells : Direction(c) \in Directions
BY CellsFinite DEF Direction, Directions

LEMMA MultiplierTyped ==
  ASSUME NEW stype \in {"group", "ko", "final"}, NEW c \in Cells
  PROVE  ExactMultiplier(stype, c) \in Nat /\ Base[stype] \in Nat
<1>1. Base[stype] \in Nat /\ Cap[stype] \in Nat
  BY DEF Base, Cap
<1>2. \A i \in DOMAIN Grid[stype] : \A j \in DOMAIN Grid[stype][i] : Grid[stype][i][j] \in Nat
  <2>1. CASE stype = "group"
    BY <2>1 DEF Grid
  <2>2. CASE stype = "ko"
    BY <2>2 DEF Grid
  <2>3. CASE stype = "final"
    BY <2>3 DEF Grid
  <2> QED BY <2>1, <2>2, <2>3
<1> QED BY <1>1, <1>2 DEF ExactMultiplier

LEMMA RankedTyped ==
  ASSUME NEW i \in Sources, NEW stage \in Stages, NEW detonator \in BOOLEAN,
         NEW r \in RankScores(Forecasts[i], stage, i.odds, detonator)
  PROVE  Typed(r)
<1> DEFINE f == Forecasts[i]
           stype == StageType(stage)
<1>1. PICK c \in Cells :
        r = [at |-> c, dir |-> Direction(c), p |-> ScoreProb(f, c),
             ev |-> ExpectedPoints(f, stype, i.odds, detonator, c)]
  BY DEF RankScores
<1> DEFINE d == Direction(c)
           share == Share(f, c)
<1>2. d \in Directions /\ f.probs[d] \in Nat /\ i.odds[d] \in Nat
  BY DirectionTyped, ForecastsTyped, SourceParts, NumbersAssumption
<1>3. share \in 0..1000
  <2> DEFINE m == f.fit.matrix[c]
             n == f.fit.mass[d]
  <2>1. n \in Nat \ {0} /\ m \in 0..n
    BY <1>2, ForecastsTyped, SourceParts, NumbersAssumption
  <2>2. share = (1000 * m) \div n
    BY DEF Share
  <2> HIDE DEF m, n, share
  <2>3. m \in Nat /\ m <= n
    BY <2>1
  <2> QED BY <2>1, <2>2, <2>3, ShareBound
<1>4. stype \in {"group", "ko", "final"}
  BY DEF Stages, StageType
<1>5. Factor(detonator) \in Nat
  BY DEF Factor
<1> HIDE DEF d, share, stype, f
<1>6. ScoreProb(f, c) \in Nat
  <2> DEFINE x == f.probs[d]
  <2>1. x \in Nat /\ share \in Nat
    BY <1>2, <1>3
  <2> HIDE DEF x
  <2>2. x * share \in Nat
    BY <2>1
  <2> QED BY <2>2, DivTyped DEF ScoreProb, d, share, x
<1>7. ExpectedPoints(f, stype, i.odds, detonator, c) \in Nat
  <2> DEFINE grade == Base[stype] * (1000 - share) + ExactMultiplier(stype, c) * share
             weight == i.odds[d] * Factor(detonator) * f.probs[d]
  <2>1. grade \in Nat
    BY <1>3, <1>4, MultiplierTyped
  <2>2. weight \in Nat
    BY <1>2, <1>5
  <2>3. weight * grade \in Nat
    <3> HIDE DEF weight, grade
    <3> QED BY <2>1, <2>2
  <2>4. ExpectedPoints(f, stype, i.odds, detonator, c) = (weight * grade) \div 40000
    BY DEF ExpectedPoints, d, share
  <2> HIDE DEF weight, grade
  <2> QED BY <2>3, <2>4, DivTyped
<1> QED BY <1>1, <1>6, <1>7 DEF Typed, d

LEMMA RankedOneEach ==
  ASSUME NEW f, NEW stage, NEW odds, NEW detonator
  PROVE  OneEach(RankScores(f, stage, odds, detonator))
<1> DEFINE g == [c \in Cells |->
                   [at |-> c, dir |-> Direction(c), p |-> ScoreProb(f, c),
                    ev |-> ExpectedPoints(f, StageType(stage), odds, detonator, c)]]
           T == {g[c] : c \in Cells}
<1>1. RankScores(f, stage, odds, detonator) = T
  BY DEF RankScores
<1>2. \A a, b \in T : a.at = b.at => a = b
  OBVIOUS
<1>3. DOMAIN g = Cells /\ g \in [Cells -> T]
  OBVIOUS
<1> HIDE DEF g
<1>4. IsFiniteSet(T)
  BY <1>3, CellsFinite, FiniteImage
<1> QED BY <1>1, <1>2, <1>4 DEF OneEach

-----------------------------------------------------------------------------
(***************************************************************************)
(* The candidates: one for each score, with numbers the sort can compare.  *)
(***************************************************************************)
Scorable(r) == Typed(r) /\ r.score \in Int

LEMMA NormsTyped ==
  ASSUME NEW S, IsFiniteSet(S), S # {}, \A r \in S : r.p \in Nat /\ r.ev \in Nat
  PROVE  Norms(S).ev \in Nat /\ Norms(S).ev > 0 /\ Norms(S).p \in Nat /\ Norms(S).p > 0
<1>1. ASSUME NEW T \in SUBSET Int, IsFiniteSet(T), T # {}
      PROVE  AtLeast(1, CHOOSE x \in T : \A y \in T : y <= x) \in Nat \ {0}
  <2> DEFINE m == CHOOSE x \in T : \A y \in T : y <= x
  <2>1. m \in Int
    BY <1>1, Extremes
  <2> HIDE DEF m
  <2>2. AtLeast(1, m) \in Nat \ {0}
    BY <2>1 DEF AtLeast
  <2> QED BY <2>2 DEF m
<1> DEFINE f == [r \in S |-> r.ev]
           g == [r \in S |-> r.p]
           E == {r.ev : r \in S}
           P == {r.p : r \in S}
<1>2. IsFiniteSet(E)
  <2>1. DOMAIN f = S /\ f \in [S -> {f[x] : x \in S}] /\ {f[x] : x \in S} = E
    OBVIOUS
  <2> HIDE DEF f, E
  <2> QED BY <2>1, FiniteImage
<1>3. IsFiniteSet(P)
  <2>1. DOMAIN g = S /\ g \in [S -> {g[x] : x \in S}] /\ {g[x] : x \in S} = P
    OBVIOUS
  <2> HIDE DEF g, P
  <2> QED BY <2>1, FiniteImage
<1>4. E \in SUBSET Int /\ E # {} /\ P \in SUBSET Int /\ P # {}
  <2>1. PICK r \in S : TRUE
    OBVIOUS
  <2>2. r.ev \in E /\ r.p \in P
    OBVIOUS
  <2>3. E \subseteq Int /\ P \subseteq Int
    OBVIOUS
  <2> QED BY <2>2, <2>3
<1>5. Norms(S).ev = AtLeast(1, CHOOSE x \in E : \A y \in E : y <= x)
      /\ Norms(S).p = AtLeast(1, CHOOSE x \in P : \A y \in P : y <= x)
  BY DEF Norms
<1> HIDE DEF E, P
<1>6. Norms(S).ev \in Nat \ {0} /\ Norms(S).p \in Nat \ {0}
  BY <1>1, <1>2, <1>3, <1>4, <1>5
<1> QED BY <1>6

LEMMA BandTyped ==
  ASSUME NEW stage \in Stages, NEW detonator \in BOOLEAN
  PROVE  LET thr == Thresholds(StageType(stage), detonator)
         IN thr.strong \in Int /\ thr.mild \in Int /\ thr.strong - thr.mild > 0
<1>1. StageType(stage) \in {"group", "ko", "final"}
  BY DEF Stages, StageType
<1> QED BY <1>1 DEF Thresholds

LEMMA GateTyped ==
  ASSUME NEW probs, \A d \in Directions : probs[d] \in Nat,
         NEW thr, thr.strong \in Int, thr.mild \in Int
  PROVE  /\ Dominant(probs) \in Directions
         /\ GateMode(probs, thr) \in {"tossup_tied", "tossup", "strong_favorite", "mild_favorite"}
<1>1. Dominant(probs) \in Directions
  BY DEF Dominant, Directions
<1>2. AtLeast(AtLeast(probs["H"], probs["D"]), probs["A"]) \in Int
  BY DEF AtLeast, Directions
<1> QED BY <1>1, <1>2 DEF GateMode

LEMMA WeightTyped ==
  ASSUME NEW mode \in {"tossup_tied", "tossup", "strong_favorite", "mild_favorite"},
         NEW share \in Int, NEW thr, thr.strong \in Int, thr.mild \in Int
  PROVE  Weight(mode, share, thr) \in Int
BY DEF Weight

LEMMA ScoreTyped ==
  ASSUME NEW r, r.p \in Nat, r.ev \in Nat, NEW dom, NEW band \in Int, NEW w \in Int,
         NEW norms, norms.ev \in Nat, norms.p \in Nat
  PROVE  GateScore(r, dom, band, w, norms) \in Int
<1> DEFINE x == band * band - 2 * w * (band - w)
           y == 2 * w * (band - w)
           z == band * (band - w)
           e == r.ev
           p == r.p
           E == norms.ev
           P == norms.p
<1>1. x \in Int /\ y \in Int /\ z \in Int /\ e \in Int /\ p \in Int /\ E \in Int /\ P \in Int
  OBVIOUS
<1>2. GateScore(r, dom, band, w, norms) =
        IF r.dir = dom THEN x * e * P + y * p * E ELSE z * e * P
  BY DEF GateScore
<1> HIDE DEF x, y, z, e, p, E, P
<1>3. x * e * P + y * p * E \in Int /\ z * e * P \in Int
  BY <1>1
<1> QED BY <1>2, <1>3

\* What the gate adds to a ranking is a score for each candidate.
LEMMA GatedTyped ==
  ASSUME NEW S, OneEach(S), S # {}, \A r \in S : Typed(r),
         NEW probs, \A d \in Directions : probs[d] \in Nat,
         NEW thr, thr.strong \in Int, thr.mild \in Int
  PROVE  /\ OneEach(Gated(S, probs, thr)) /\ Gated(S, probs, thr) # {}
         /\ \A a \in Gated(S, probs, thr) : Scorable(a)
<1> DEFINE norms == Norms(S)
           gate == Gate(probs, thr)
           band == thr.strong - thr.mild
           w == Weight(gate.mode, gate.share, thr)
           g == [r \in S |-> [at |-> r.at, dir |-> r.dir, p |-> r.p, ev |-> r.ev,
                              score |-> GateScore(r, gate.dom, band, w, norms)]]
           T == {g[r] : r \in S}
<1>1. Gated(S, probs, thr) = T
  BY DEF Gated, Scored
<1>2. norms.ev \in Nat /\ norms.p \in Nat
  BY NormsTyped DEF OneEach, Typed
<1>3. band \in Int /\ w \in Int
  <2>1. gate.mode \in {"tossup_tied", "tossup", "strong_favorite", "mild_favorite"}
        /\ gate.share \in Int
    BY GateTyped DEF Gate
  <2> HIDE DEF gate
  <2> QED BY <2>1, WeightTyped
<1> HIDE DEF norms, gate, band, w
<1>4. \A r \in S : GateScore(r, gate.dom, band, w, norms) \in Int
  BY <1>2, <1>3, ScoreTyped DEF Typed
<1>5. \A a \in T : Scorable(a)
  BY <1>4 DEF Scorable, Typed
<1>6. \A a, b \in T : a.at = b.at => a = b
  BY DEF OneEach
<1>7. DOMAIN g = S /\ g \in [S -> T]
  OBVIOUS
<1>8. T # {}
  OBVIOUS
<1>9. IsFiniteSet(T)
  <2> HIDE DEF g
  <2> QED BY <1>7, FiniteImage DEF OneEach
<1> HIDE DEF T
<1> QED BY <1>1, <1>5, <1>6, <1>8, <1>9 DEF OneEach

LEMMA InputParts ==
  ASSUME NEW q \in Inputs
  PROVE  q[1] \in Sources /\ q[2] \in Settings /\ q = <<q[1], q[2]>>
BY DEF Inputs

LEMMA CandidatesTyped ==
  ASSUME NEW q \in Inputs, Valued(q[1].odds, q[2])
  PROVE  /\ OneEach(Candidates[q]) /\ Candidates[q] # {}
         /\ \A a \in Candidates[q] : Scorable(a)
<1> DEFINE i == q[1]
           s == q[2]
           thr == Thresholds(StageType(s.stage), s.detonator)
<1>1. i \in Sources /\ s.stage \in Stages /\ s.detonator \in BOOLEAN
  BY InputParts, NumbersAssumption DEF Valued
<1>2. Rankings[q] = RankScores(Forecasts[i], s.stage, i.odds, s.detonator)
  BY DEF Rankings
<1>3. OneEach(Rankings[q]) /\ \A r \in Rankings[q] : Typed(r)
  BY <1>1, <1>2, RankedOneEach, RankedTyped
<1>4. Rankings[q] # {}
  <2>1. <<0, 0>> \in Cells
    BY GoalsAssumption DEF Cells
  <2> QED BY <1>2, <2>1 DEF RankScores
<1>5. thr.strong \in Int /\ thr.mild \in Int
  BY <1>1, BandTyped
<1>6. \A d \in Directions : Forecasts[i].probs[d] \in Nat
  BY <1>1, ForecastsTyped
<1>7. Candidates[q] = Gated(Rankings[q], Forecasts[i].probs, thr)
  BY DEF Candidates
<1> HIDE DEF i, s, thr
<1> QED BY <1>3, <1>4, <1>5, <1>6, <1>7, GatedTyped

-----------------------------------------------------------------------------
(***************************************************************************)
(* The sorts: the pick, the pool, the best of the pool for a tilt.         *)
(***************************************************************************)
\* LoopsFirst orders the scores.
LEMMA LoopsOrder ==
  /\ \A a \in Cells : ~LoopsFirst(a, a)
  /\ \A a, b, c \in Cells : LoopsFirst(a, b) /\ LoopsFirst(b, c) => LoopsFirst(a, c)
  /\ \A a, b \in Cells : a = b \/ LoopsFirst(a, b) \/ LoopsFirst(b, a)
<1>1. \A c \in Cells : c = <<c[1], c[2]>> /\ c[1] \in Nat /\ c[2] \in Nat
  BY CellsFinite DEF Cells
<1>2. \A a \in Cells : ~LoopsFirst(a, a)
  BY <1>1 DEF LoopsFirst
<1>3. \A a, b, c \in Cells : LoopsFirst(a, b) /\ LoopsFirst(b, c) => LoopsFirst(a, c)
  BY <1>1 DEF LoopsFirst
<1>4. ASSUME NEW a \in Cells, NEW b \in Cells
      PROVE  a = b \/ LoopsFirst(a, b) \/ LoopsFirst(b, a)
  <2>1. a[1] < b[1] \/ b[1] < a[1] \/ a[1] = b[1]
    BY <1>1
  <2>2. a[2] < b[2] \/ b[2] < a[2] \/ a[2] = b[2]
    BY <1>1
  <2> QED BY <1>1, <2>1, <2>2 DEF LoopsFirst
<1> QED BY <1>2, <1>3, <1>4

\* The second sort orders the candidates.
LEMMA AheadOrder ==
  ASSUME NEW S, OneEach(S), \A a \in S : Scorable(a)
  PROVE  /\ \A a \in S : ~Ahead(a, a)
         /\ \A a, b, c \in S : Ahead(a, b) /\ Ahead(b, c) => Ahead(a, c)
         /\ \A a, b \in S : a = b \/ Ahead(a, b) \/ Ahead(b, a)
<1>1. \A a \in S : a.at \in Cells /\ a.ev \in Int /\ a.score \in Int
  BY DEF Scorable, Typed
<1>2. \A a \in S : ~Ahead(a, a)
  BY <1>1, LoopsOrder DEF Ahead, Ranked
<1>3. ASSUME NEW a \in S, NEW b \in S, NEW c \in S, Ahead(a, b), Ahead(b, c)
      PROVE  Ahead(a, c)
  <2>1. LoopsFirst(a.at, b.at) /\ LoopsFirst(b.at, c.at) => LoopsFirst(a.at, c.at)
    BY <1>1, LoopsOrder
  <2> QED BY <1>1, <1>3, <2>1 DEF Ahead, Ranked
<1>4. ASSUME NEW a \in S, NEW b \in S
      PROVE  a = b \/ Ahead(a, b) \/ Ahead(b, a)
  <2>1. a = b \/ LoopsFirst(a.at, b.at) \/ LoopsFirst(b.at, a.at)
    <3>1. a.at = b.at \/ LoopsFirst(a.at, b.at) \/ LoopsFirst(b.at, a.at)
      BY <1>1, LoopsOrder
    <3> QED BY <3>1 DEF OneEach
  <2>2. a.score > b.score \/ b.score > a.score \/ a.score = b.score
    BY <1>1
  <2>3. a.ev > b.ev \/ b.ev > a.ev \/ a.ev = b.ev
    BY <1>1
  <2> QED BY <2>1, <2>2, <2>3 DEF Ahead, Ranked
<1> QED BY <1>2, <1>3, <1>4

\* There is a pick, and it is in the pool.
LEMMA PickTyped ==
  ASSUME NEW S, OneEach(S), S # {}, \A a \in S : Scorable(a), NEW probs, NEW thr
  PROVE  LET rec == Recommend(S, probs, thr)
         IN /\ rec.pick \in S /\ \A b \in S \ {rec.pick} : Ahead(rec.pick, b)
            /\ rec.pick \in rec.pool /\ rec.pool \subseteq S
<1> DEFINE R == {r \in S \X S : Ahead(r[1], r[2])}
           rec == Recommend(S, probs, thr)
           pick == rec.pick
<1>1. \A a, b \in S : <<a, b>> \in R <=> Ahead(a, b)
  OBVIOUS
<1> HIDE DEF R
<1>2. /\ \A a \in S : <<a, a>> \notin R
      /\ \A a, b, c \in S : <<a, b>> \in R /\ <<b, c>> \in R => <<a, c>> \in R
      /\ \A a, b \in S : a = b \/ <<a, b>> \in R \/ <<b, a>> \in R
  BY <1>1, AheadOrder
<1>3. \E a \in S : \A b \in S \ {a} : <<a, b>> \in R
  <2>1. IsFiniteSet(S)
    BY DEF OneEach
  <2> QED BY <1>2, <2>1, First
<1>4. pick = CHOOSE a \in S : \A b \in S \ {a} : Ahead(a, b)
  BY DEF Recommend
<1>5. pick \in S /\ \A b \in S \ {pick} : Ahead(pick, b)
  BY <1>1, <1>3, <1>4
<1>6. rec.pool = {a \in S : Cardinality({b \in S : Ahead(b, a)}) < TopK}
  BY DEF Recommend
<1>7. {b \in S : Ahead(b, pick)} = {}
  <2> SUFFICES ASSUME NEW b \in S, Ahead(b, pick) PROVE FALSE
    OBVIOUS
  <2>1. b # pick /\ Ahead(pick, b)
    BY <1>5, AheadOrder
  <2> QED BY <1>5, <2>1, AheadOrder
<1>8. Cardinality({b \in S : Ahead(b, pick)}) < TopK
  BY <1>7, FS_EmptySet, GoalsAssumption
<1> HIDE DEF rec
<1> QED BY <1>5, <1>6, <1>8 DEF rec

LEMMA UpsideTyped ==
  ASSUME NEW r, r.p \in Nat, r.ev \in Nat
  PROVE  Upside(r) \in Nat
<1>1. AtLeast(1, r.p) \in Nat \ {0} /\ 1000 * r.ev \in Nat
  BY DEF AtLeast
<1> QED BY <1>1, DivTyped DEF Upside

LEMMA RiskTyped ==
  ASSUME NEW P, IsFiniteSet(P), \A a \in P : Scorable(a), NEW r \in P
  PROVE  Risk(r, P) \in Int
<1> DEFINE f == [x \in P |-> Upside(x)]
           ups == {Upside(x) : x \in P}
           lo == CHOOSE x \in ups : \A y \in ups : x <= y
           hi == CHOOSE x \in ups : \A y \in ups : x >= y
<1>1. \A x \in P : Upside(x) \in Nat
  BY UpsideTyped DEF Scorable, Typed
<1>2. IsFiniteSet(ups)
  <2>1. DOMAIN f = P /\ f \in [P -> {f[x] : x \in P}] /\ {f[x] : x \in P} = ups
    OBVIOUS
  <2> HIDE DEF f, ups
  <2> QED BY <2>1, FiniteImage
<1>3. ups \in SUBSET Int /\ Upside(r) \in ups
  BY <1>1
<1>4. Risk(r, P) = IF hi = lo THEN 0 ELSE (100 * (Upside(r) - lo)) \div (hi - lo)
  BY DEF Risk
<1> HIDE DEF ups
<1>5. lo \in ups
  BY <1>2, <1>3, Extremes
<1>6. hi \in ups /\ hi >= lo
  <2>1. PICK x \in ups : \A y \in ups : y <= x
    BY <1>2, <1>3, Extremes
  <2>2. \A y \in ups : x >= y
    BY <1>3, <2>1
  <2>3. hi \in ups /\ \A y \in ups : hi >= y
    BY <2>2
  <2> QED BY <1>5, <2>3
<1>7. hi \in Int /\ lo \in Int /\ Upside(r) \in Int
  BY <1>3, <1>5, <1>6
<1> HIDE DEF hi, lo
<1>8. CASE hi # lo
  <2>1. hi - lo \in Nat \ {0} /\ 100 * (Upside(r) - lo) \in Int
    BY <1>6, <1>7, <1>8
  <2>2. (100 * (Upside(r) - lo)) \div (hi - lo) \in Int
    BY <2>1
  <2> QED BY <1>4, <1>8, <2>2
<1> QED BY <1>4, <1>8

\* What is tilted stays in the pool and gains the most from the tilt.
LEMMA StrategizeBest ==
  ASSUME NEW rec, OneEach(rec.pool), rec.pool # {}, \A a \in rec.pool : Scorable(a),
         rec.pick \in rec.pool, NEW force \in Int
  PROVE  /\ Strategize(rec, force) \in rec.pool
         /\ \A b \in rec.pool :
              Tilting(Strategize(rec, force), rec, force) >= Tilting(b, rec, force)
         /\ \A b \in rec.pool \ {Strategize(rec, force)} :
              Preferred(Strategize(rec, force), b,
                        Tilting(Strategize(rec, force), rec, force), Tilting(b, rec, force))
<1> DEFINE P == rec.pool
           T(a) == Tilting(a, rec, force)
           R == {r \in P \X P : Preferred(r[1], r[2], T(r[1]), T(r[2]))}
           best == Strategize(rec, force)
<1>1. \A a \in P : T(a) \in Int
  <2> SUFFICES ASSUME NEW a \in P PROVE T(a) \in Int
    OBVIOUS
  <2> DEFINE e == rec.pick.ev
             k == Risk(a, P)
  <2>1. a.ev \in Int /\ e \in Int /\ k \in Int
    BY RiskTyped DEF Scorable, Typed, OneEach
  <2>2. T(a) = 10000 * a.ev + force * k * e
    BY DEF Tilting
  <2> HIDE DEF e, k, T
  <2>3. 10000 * a.ev + force * k * e \in Int
    BY <2>1
  <2> QED BY <2>2, <2>3
<1>2. \A a, b \in P : <<a, b>> \in R <=> T(a) > T(b) \/ (T(a) = T(b) /\ Ahead(a, b))
  BY DEF Preferred
<1>3. best = CHOOSE a \in P : \A b \in P \ {a} : Preferred(a, b, T(a), T(b))
  BY DEF Strategize
<1> HIDE DEF R, T, best
<1>4. \A a \in P : <<a, a>> \notin R
  BY <1>1, <1>2, AheadOrder
<1>5. ASSUME NEW a \in P, NEW b \in P, NEW c \in P, <<a, b>> \in R, <<b, c>> \in R
      PROVE  <<a, c>> \in R
  <2>1. Ahead(a, b) /\ Ahead(b, c) => Ahead(a, c)
    BY AheadOrder
  <2>2. T(a) \in Int /\ T(b) \in Int /\ T(c) \in Int
    BY <1>1
  <2> QED BY <1>2, <1>5, <2>1, <2>2
<1>6. ASSUME NEW a \in P, NEW b \in P
      PROVE  a = b \/ <<a, b>> \in R \/ <<b, a>> \in R
  <2>1. T(a) > T(b) \/ T(b) > T(a) \/ T(a) = T(b)
    BY <1>1
  <2>2. a = b \/ Ahead(a, b) \/ Ahead(b, a)
    BY AheadOrder
  <2> QED BY <1>2, <2>1, <2>2
<1>7. \E a \in P : \A b \in P \ {a} : <<a, b>> \in R
  <2>1. IsFiniteSet(P) /\ P # {}
    BY DEF OneEach
  <2> HIDE DEF P
  <2> QED BY <1>4, <1>5, <1>6, <2>1, First
<1>8. \E a \in P : \A b \in P \ {a} : Preferred(a, b, T(a), T(b))
  BY <1>2, <1>7 DEF Preferred
<1>9. best \in P /\ \A b \in P \ {best} : Preferred(best, b, T(best), T(b))
  BY <1>3, <1>8
<1>10. ASSUME NEW b \in P PROVE T(best) >= T(b)
  BY <1>1, <1>9 DEF Preferred
<1> QED BY <1>9, <1>10 DEF T, best

-----------------------------------------------------------------------------
(***************************************************************************)
(* A strong favourite: whoever is outside its direction scores nothing, so *)
(* the pool is filled from within it.                                      *)
(***************************************************************************)
\* With the weight of a strong favourite nothing outside its direction scores.
LEMMA StrongScore ==
  ASSUME NEW r, r.p \in Nat, r.ev \in Nat, NEW dom, NEW band \in Int, band > 0,
         NEW norms, norms.ev \in Nat, norms.p \in Nat, norms.p > 0
  PROVE  /\ r.dir # dom => GateScore(r, dom, band, band, norms) = 0
         /\ r.dir = dom /\ r.ev > 0 => GateScore(r, dom, band, band, norms) > 0
<1> DEFINE e == r.ev
           p == r.p
           E == norms.ev
           P == norms.p
<1>1. GateScore(r, dom, band, band, norms) =
        IF r.dir = dom
        THEN (band * band - 2 * band * (band - band)) * e * P + 2 * band * (band - band) * p * E
        ELSE band * (band - band) * e * P
  BY DEF GateScore
<1>2. e \in Nat /\ p \in Nat /\ E \in Nat /\ P \in Nat /\ P > 0
  OBVIOUS
<1> HIDE DEF e, p, E, P
<1>3. band * (band - band) * e * P = 0
  BY <1>2
<1>4. (band * band - 2 * band * (band - band)) * e * P + 2 * band * (band - band) * p * E
        = (band * band) * (e * P)
  BY <1>2
<1>5. e > 0 => (band * band) * (e * P) > 0
  <2> SUFFICES ASSUME e > 0 PROVE (band * band) * (e * P) > 0
    OBVIOUS
  <2> DEFINE x == band * band
             y == e * P
  <2>1. x \in Nat /\ x > 0
    OBVIOUS
  <2>2. y \in Nat /\ y > 0
    BY <1>2
  <2> HIDE DEF x, y
  <2>3. x * y > 0
    BY <2>1, <2>2
  <2> QED BY <2>3 DEF x, y
<1> QED BY <1>1, <1>3, <1>4, <1>5 DEF e

\* The card of a valued match is a recommendation.
LEMMA ValuedCard ==
  ASSUME NEW q \in Inputs, Valued(q[1].odds, q[2])
  PROVE  LET rec == MatchCards[q]
         IN /\ rec.pick \in rec.pool /\ rec.pool # {} /\ rec.pool \subseteq Candidates[q]
            /\ OneEach(rec.pool) /\ \A a \in rec.pool : Scorable(a)
<1> DEFINE S == Candidates[q]
           rec == MatchCards[q]
<1>1. OneEach(S) /\ S # {} /\ \A a \in S : Scorable(a)
  BY CandidatesTyped
<1>2. rec = Recommend(S, Forecasts[q[1]].probs,
                      Thresholds(StageType(q[2].stage), q[2].detonator))
  BY DEF MatchCards
<1> HIDE DEF S, rec
<1>3. rec.pick \in rec.pool /\ rec.pool \subseteq S
  BY <1>1, <1>2, PickTyped
<1>4. OneEach(rec.pool)
  BY <1>1, <1>3, FS_Subset DEF OneEach
<1> QED BY <1>1, <1>3, <1>4 DEF S, rec

LEMMA UnvaluedCard ==
  ASSUME NEW q \in Inputs, ~Valued(q[1].odds, q[2])
  PROVE  MatchCards[q].pool = {} /\ MatchCards[q].mode # "strong_favorite"
BY DEF MatchCards, AlertCard, ModalCard

\* With a strong favourite the pool holds scores of its direction only.
LEMMA StrongPool ==
  ASSUME NEW q \in Inputs, MatchCards[q].mode = "strong_favorite",
         NEW a \in MatchCards[q].pool
  PROVE  a.dir = MatchCards[q].dom
<1> DEFINE i == q[1]
           s == q[2]
           thr == Thresholds(StageType(s.stage), s.detonator)
           probs == Forecasts[i].probs
           rec == MatchCards[q]
           S == Candidates[q]
           band == thr.strong - thr.mild
           norms == Norms(Rankings[q])
           good == {b \in S : b.dir = rec.dom /\ b.ev > 0}
           before == {b \in S : Ahead(b, a)}
<1>1. Valued(i.odds, s)
  BY UnvaluedCard
<1>2. i \in Sources /\ s.stage \in Stages /\ s.detonator \in BOOLEAN
  BY <1>1, InputParts, NumbersAssumption DEF Valued
<1>3. /\ rec.dom = Dominant(probs) /\ GateMode(probs, thr) = "strong_favorite"
      /\ a \in S /\ Cardinality(before) < TopK
  BY <1>1 DEF MatchCards, Recommend
<1>4. band \in Int /\ band > 0
  BY <1>2, BandTyped
<1>5. S = {[at |-> r.at, dir |-> r.dir, p |-> r.p, ev |-> r.ev,
            score |-> GateScore(r, rec.dom, band, band, norms)] : r \in Rankings[q]}
  <2>1. S = Scored(Rankings[q], norms, Gate(probs, thr), thr)
    BY <1>1 DEF Candidates, Gated
  <2>2. Gate(probs, thr).dom = rec.dom /\ Gate(probs, thr).mode = "strong_favorite"
    BY <1>3 DEF Gate
  <2>3. Weight("strong_favorite", Gate(probs, thr).share, thr) = band
    BY DEF Weight
  <2> HIDE DEF S, norms, probs, rec, thr
  <2> QED BY <2>1, <2>2, <2>3 DEF Scored
<1>6. OneEach(Rankings[q]) /\ Rankings[q] # {} /\ \A r \in Rankings[q] : Typed(r)
  <2>1. Rankings[q] = RankScores(Forecasts[i], s.stage, i.odds, s.detonator)
    BY <1>1 DEF Rankings
  <2>2. Rankings[q] # {}
    BY <1>3, <1>5
  <2> QED BY <1>2, <2>1, <2>2, RankedOneEach, RankedTyped
<1>7. norms.ev \in Nat /\ norms.p \in Nat /\ norms.p > 0
  BY <1>6, NormsTyped DEF OneEach, Typed
<1> HIDE DEF i, s, thr, probs, rec, S, band, norms
<1>8. ASSUME NEW b \in S
      PROVE  /\ b.dir # rec.dom => b.score = 0
             /\ b.dir = rec.dom /\ b.ev > 0 => b.score > 0
  <2>1. PICK r \in Rankings[q] :
               b = [at |-> r.at, dir |-> r.dir, p |-> r.p, ev |-> r.ev,
                    score |-> GateScore(r, rec.dom, band, band, norms)]
    BY <1>5
  <2>2. r.p \in Nat /\ r.ev \in Nat
    BY <1>6 DEF Typed
  <2>3. /\ r.dir # rec.dom => GateScore(r, rec.dom, band, band, norms) = 0
        /\ r.dir = rec.dom /\ r.ev > 0 => GateScore(r, rec.dom, band, band, norms) > 0
    BY <1>4, <1>7, <2>2, StrongScore
  <2> QED BY <2>1, <2>3
<1>9. SUFFICES ASSUME a.dir # rec.dom PROVE FALSE
  BY DEF rec
<1>10. good \subseteq before
  <2> SUFFICES ASSUME NEW b \in S, b.dir = rec.dom, b.ev > 0 PROVE Ahead(b, a)
    OBVIOUS
  <2>1. a.score = 0 /\ b.score > 0
    BY <1>3, <1>8, <1>9
  <2> QED BY <2>1 DEF Ahead
<1>11. IsFiniteSet(before)
  <2>1. IsFiniteSet(S)
    BY <1>1, CandidatesTyped DEF OneEach, S, i, s
  <2> QED BY <2>1, FS_Subset
<1>12. TopK <= Cardinality(good)
  BY CandidatesAssumption DEF rec, S
<1> HIDE DEF good, before
<1>13. Cardinality(good) <= Cardinality(before) /\ Cardinality(good) \in Nat
       /\ Cardinality(before) \in Nat
  BY <1>10, <1>11, FS_Subset, FS_CardinalityType
<1> QED BY <1>3, <1>12, <1>13, GoalsAssumption

\* Whoever the card is tilted for, a tilt chooses from the pool.
LEMMA TiltedInPool ==
  ASSUME NEW q \in Inputs, MatchCards[q].mode = "strong_favorite",
         NEW ctx, NEW tilt, TiltForce(ctx, tilt) \in Int
  PROVE  RecommendToWin(MatchCards[q], ctx, tilt) \in MatchCards[q].pool
<1>1. Valued(q[1].odds, q[2])
  BY UnvaluedCard
<1> QED BY <1>1, ValuedCard, StrategizeBest DEF RecommendToWin

-----------------------------------------------------------------------------
(***************************************************************************)
(* Standings, pressure, risk: of two who are tilted in opposite directions *)
(* the one who trails takes the larger risk (an exchange argument).        *)
(***************************************************************************)
\* A participant in front, among finitely many.
LEMMA InFront ==
  ASSUME NEW table, NEW S \in SUBSET DOMAIN table, IsFiniteSet(S), S # {},
         \A x \in S : table[x] \in Int
  PROVE  \E x \in S : \A y \in S : table[y] <= table[x]
<1> DEFINE f == [x \in S |-> table[x]]
           T == {table[x] : x \in S}
<1>1. DOMAIN f = S /\ f \in [S -> {f[x] : x \in S}] /\ {f[x] : x \in S} = T
  OBVIOUS
<1>2. T \in SUBSET Int /\ T # {}
  OBVIOUS
<1>3. IsFiniteSet(T)
  <2> HIDE DEF f, T
  <2> QED BY <1>1, FiniteImage
<1>4. PICK m \in T : \A y \in T : y <= m
  <2> HIDE DEF T
  <2> QED BY <1>2, <1>3, Extremes
<1> QED BY <1>4

\* A read of the standings that failed shows nobody.
LEMMA ReadTyped ==
  ASSUME NEW read \in Reads
  PROVE  /\ read.left \in Int /\ IsFiniteSet(DOMAIN read.table)
         /\ \A x \in DOMAIN read.table : read.table[x] \in Int
<1>1. CASE read \in Standings
  BY <1>1, NumbersAssumption
<1>2. CASE read = Unread
  <2>1. read.left = 0 /\ read.table = <<>> /\ DOMAIN read.table = {}
    BY <1>2 DEF Unread
  <2> QED BY <2>1, FS_EmptySet
<1> QED BY <1>1, <1>2 DEF Reads

\* What the standings of a participant say.
LEMMA ContextTyped ==
  ASSUME NEW read \in Reads, NEW x, ContextOf(x, read) # NoContext
  PROVE  LET ctx == ContextOf(x, read)
         IN /\ x \in DOMAIN read.table /\ ctx.left = read.left /\ ctx.yours = read.table[x]
            /\ ctx.leader \in Int /\ ctx.second \in Int
            /\ \A y \in DOMAIN read.table : read.table[y] <= ctx.leader
            /\ \E y \in DOMAIN read.table : read.table[y] = ctx.leader
<1> DEFINE table == read.table
           D == DOMAIN table
           first == CHOOSE y \in D : \A z \in D : table[z] <= table[y]
           rest == D \ {first}
           second == CHOOSE y \in rest : \A z \in rest : table[z] <= table[y]
<1>1. x \in D /\ ~(Cardinality(D) < 2)
      /\ ContextOf(x, read) = [left |-> read.left, yours |-> table[x],
                            leader |-> table[first], second |-> table[second]]
  BY DEF ContextOf, StandingsContext
<1>2. IsFiniteSet(D) /\ \A y \in D : table[y] \in Int
  BY ReadTyped
<1> HIDE DEF table, D
<1>3. first \in D /\ \A z \in D : table[z] <= table[first]
  <2>1. D # {} /\ D \in SUBSET DOMAIN table
    BY <1>1 DEF D
  <2> QED BY <1>2, <2>1, InFront
<1>4. rest # {}
  <2>1. Cardinality(rest) = Cardinality(D) - 1 /\ Cardinality(D) \in Nat
    BY <1>2, <1>3, FS_RemoveElement, FS_CardinalityType
  <2>2. Cardinality(rest) # 0
    BY <1>1, <2>1
  <2> QED BY <2>2, FS_EmptySet
<1> HIDE DEF first
<1>5. second \in rest
  <2>1. IsFiniteSet(rest) /\ rest \in SUBSET DOMAIN table /\ \A y \in rest : table[y] \in Int
    BY <1>2, FS_RemoveElement, FS_Subset DEF D
  <2> HIDE DEF rest
  <2> QED BY <1>4, <2>1, InFront
<1> HIDE DEF second
<1> QED BY <1>1, <1>2, <1>3, <1>5 DEF table, D

\* Who trails is under pressure to take risks, who leads to avoid them.
LEMMA PressureSigned ==
  ASSUME NEW read \in Reads, NEW x
  PROVE  LET p == RiskPressure(ContextOf(x, read))
         IN p \in Int /\ (Trails(x, read.table) => p >= 0) /\ (Leads(x, read.table) => p <= 0)
<1> DEFINE ctx == ContextOf(x, read)
           p == RiskPressure(ctx)
           scale == ctx.left * Swing
           up == AtMost(100, (100 * (ctx.leader - ctx.yours)) \div scale)
           down == AtMost(100, (100 * AtLeast(0, ctx.yours - ctx.second)) \div scale)
<1>1. CASE ctx = NoContext \/ ctx.left <= 0
  <2>1. ctx.left <= 0
    BY <1>1 DEF NoContext
  <2>2. p = 0
    BY <2>1 DEF RiskPressure
  <2> HIDE DEF p
  <2> QED BY <2>2 DEF p, ctx
<1>2. CASE ctx # NoContext /\ ~(ctx.left <= 0)
  <2>1. /\ x \in DOMAIN read.table /\ ctx.left = read.left /\ ctx.yours = read.table[x]
        /\ ctx.leader \in Int /\ ctx.second \in Int
        /\ \A y \in DOMAIN read.table : read.table[y] <= ctx.leader
        /\ \E y \in DOMAIN read.table : read.table[y] = ctx.leader
    BY <1>2, ContextTyped
  <2>2. read.left \in Int /\ \A y \in DOMAIN read.table : read.table[y] \in Int
    BY ReadTyped
  <2>3. scale \in Nat \ {0}
    BY <1>2, <2>1, <2>2 DEF Swing
  <2>4. p = IF ctx.yours < ctx.leader THEN up ELSE -down
    BY <1>2 DEF RiskPressure
  <2>5. Trails(x, read.table) => ctx.yours < ctx.leader
    BY <2>1, <2>2 DEF Trails
  <2>6. Leads(x, read.table) => ~(ctx.yours < ctx.leader)
    <3> SUFFICES ASSUME Leads(x, read.table) PROVE ~(ctx.yours < ctx.leader)
      OBVIOUS
    <3>1. PICK y \in DOMAIN read.table : read.table[y] = ctx.leader
      BY <2>1
    <3>2. y = x \/ read.table[y] < read.table[x]
      BY DEF Leads
    <3> HIDE DEF ctx
    <3> QED BY <2>1, <2>2, <3>1, <3>2
  <2>7. ctx.yours < ctx.leader => up \in Nat
    <3> SUFFICES ASSUME ctx.yours < ctx.leader PROVE up \in Nat
      OBVIOUS
    <3>1. 100 * (ctx.leader - ctx.yours) \in Nat
      BY <2>1, <2>2
    <3>2. (100 * (ctx.leader - ctx.yours)) \div scale \in Nat
      BY <2>3, <3>1, DivTyped
    <3> QED BY <3>2 DEF AtMost
  <2>8. down \in Nat
    <3>1. 100 * AtLeast(0, ctx.yours - ctx.second) \in Nat
      BY <2>1, <2>2 DEF AtLeast
    <3>2. (100 * AtLeast(0, ctx.yours - ctx.second)) \div scale \in Nat
      BY <2>3, <3>1, DivTyped
    <3> QED BY <3>2 DEF AtMost
  <2> HIDE DEF p, up, down, scale
  <2>9. p \in Int /\ (Trails(x, read.table) => p >= 0) /\ (Leads(x, read.table) => p <= 0)
    BY <2>4, <2>5, <2>6, <2>7, <2>8
  <2> QED BY <2>9 DEF p, ctx
<1> QED BY <1>1, <1>2

\* A tilt keeps the sign of the pressure.
LEMMA ForceSigned ==
  ASSUME NEW ctx, NEW p \in Int, p = RiskPressure(ctx), NEW tilt \in Nat
  PROVE  /\ TiltForce(ctx, tilt) \in Int
         /\ TiltForce(ctx, tilt) # 0 => tilt # 0 /\ p # 0
         /\ TiltForce(ctx, tilt) # 0 /\ p >= 0 => TiltForce(ctx, tilt) > 0
         /\ TiltForce(ctx, tilt) # 0 /\ p <= 0 => TiltForce(ctx, tilt) < 0
<1> DEFINE z == p * tilt
           k == z \div 100
<1>1. TiltForce(ctx, tilt) = k
  BY DEF TiltForce
<1>2. z \in Int
  OBVIOUS
<1>3. (p = 0 \/ tilt = 0 => z = 0) /\ (p >= 0 => z >= 0) /\ (p <= 0 => z <= 0)
  OBVIOUS
<1> HIDE DEF z
<1>4. k \in Int /\ (z = 0 => k = 0) /\ (z >= 0 => k >= 0) /\ (z <= 0 => k <= 0)
  BY <1>2
<1> HIDE DEF k
<1> QED BY <1>1, <1>3, <1>4

LEMMA TiltTyped ==
  ASSUME NEW x
  PROVE  TiltOf(x) \in 0..100
<1>1. (IF Overridden(x) THEN Overrides[x] ELSE GlobalTilt) \in Int
  BY NumbersAssumption DEF Overridden
<1> QED BY <1>1 DEF TiltOf, AtMost, AtLeast

\* Of two that take the best of the same values, the one who is told to take risks
\* does not take the smaller one.
LEMMA Exchange ==
  ASSUME NEW e1 \in Int, NEW e2 \in Int, NEW r1 \in Int, NEW r2 \in Int,
         NEW f1 \in Int, NEW f2 \in Int, NEW E \in Nat, f1 > 0, f2 < 0, E > 0,
         e1 + f1 * r1 * E >= e2 + f1 * r2 * E,
         e2 + f2 * r2 * E >= e1 + f2 * r1 * E
  PROVE  r1 >= r2
<1> SUFFICES ASSUME r1 < r2 PROVE FALSE
  OBVIOUS
<1> DEFINE d == (r2 - r1) * E
<1>1. d \in Nat /\ d > 0
  OBVIOUS
<1>2. f1 * r2 * E - f1 * r1 * E = f1 * d /\ f2 * r2 * E - f2 * r1 * E = f2 * d
  OBVIOUS
<1>3. f1 * r1 * E \in Int /\ f1 * r2 * E \in Int /\ f2 * r1 * E \in Int /\ f2 * r2 * E \in Int
  OBVIOUS
<1> HIDE DEF d
<1>4. f1 * d > 0 /\ f2 * d < 0 /\ f1 * d \in Int /\ f2 * d \in Int
  BY <1>1
<1>5. e1 - e2 >= f1 * d /\ e2 - e1 >= -(f2 * d)
  BY <1>2, <1>3, <1>4
<1> QED BY <1>4, <1>5

LEMMA RiskMonotone ==
  ASSUME NEW rec, OneEach(rec.pool), rec.pool # {}, \A a \in rec.pool : Scorable(a),
         rec.pick \in rec.pool, NEW f1 \in Int, NEW f2 \in Int, f1 > 0, f2 < 0
  PROVE  Risk(Strategize(rec, f1), rec.pool) >= Risk(Strategize(rec, f2), rec.pool)
<1> DEFINE P == rec.pool
           E == rec.pick.ev
           a1 == Strategize(rec, f1)
           a2 == Strategize(rec, f2)
           r1 == Risk(a1, P)
           r2 == Risk(a2, P)
<1>1. a1 \in P /\ a2 \in P /\ E \in Nat
  BY StrategizeBest DEF Scorable, Typed
<1>2. a1.ev \in Int /\ a2.ev \in Int /\ r1 \in Int /\ r2 \in Int
  BY <1>1, RiskTyped DEF OneEach, Scorable, Typed
<1>3. /\ Tilting(a1, rec, f1) >= Tilting(a2, rec, f1)
      /\ Tilting(a2, rec, f2) >= Tilting(a1, rec, f2)
      /\ a1 # a2 => /\ Preferred(a1, a2, Tilting(a1, rec, f1), Tilting(a2, rec, f1))
                    /\ Preferred(a2, a1, Tilting(a2, rec, f2), Tilting(a1, rec, f2))
  <2> HIDE DEF a1, a2
  <2> QED BY <1>1, StrategizeBest DEF a1, a2
<1>4. \A f : /\ Tilting(a1, rec, f) = 10000 * a1.ev + f * r1 * E
             /\ Tilting(a2, rec, f) = 10000 * a2.ev + f * r2 * E
  BY DEF Tilting
<1> HIDE DEF P, E, a1, a2, r1, r2
<1>5. CASE E > 0
  <2> DEFINE e1 == 10000 * a1.ev
             e2 == 10000 * a2.ev
  <2>1. e1 \in Int /\ e2 \in Int
    BY <1>2
  <2>2. /\ e1 + f1 * r1 * E >= e2 + f1 * r2 * E
        /\ e2 + f2 * r2 * E >= e1 + f2 * r1 * E
    BY <1>3, <1>4
  <2> HIDE DEF e1, e2
  <2>3. r1 >= r2
    BY <1>1, <1>2, <1>5, <2>1, <2>2, Exchange, Zenon
  <2> QED BY <2>3 DEF r1, r2, a1, a2, P
<1>6. CASE E = 0
  <2>1. \A f \in Int : /\ Tilting(a1, rec, f) = 10000 * a1.ev
                       /\ Tilting(a2, rec, f) = 10000 * a2.ev
    BY <1>2, <1>4, <1>6
  <2>2. a1 = a2
    <3> SUFFICES ASSUME a1 # a2 PROVE FALSE
      OBVIOUS
    <3>1. /\ 10000 * a1.ev > 10000 * a2.ev \/ (10000 * a1.ev = 10000 * a2.ev /\ Ahead(a1, a2))
          /\ 10000 * a2.ev > 10000 * a1.ev \/ (10000 * a2.ev = 10000 * a1.ev /\ Ahead(a2, a1))
      BY <1>3, <2>1 DEF Preferred
    <3>2. Ahead(a1, a2) /\ Ahead(a2, a1)
      BY <1>2, <3>1
    <3> QED BY <1>1, <3>2, AheadOrder DEF P
  <2>3. r1 >= r2
    BY <1>2, <2>2 DEF r1, r2
  <2> QED BY <2>3 DEF r1, r2, a1, a2, P
<1> QED BY <1>1, <1>5, <1>6

-----------------------------------------------------------------------------
(***************************************************************************)
(* What that makes of every card that can be built.                        *)
(***************************************************************************)
\* The two promises about one card: no tilt leaves the favourite, who trailed is told
\* nothing safer than who led, each by what was read for them.
Safe(c) ==
  /\ c.mode = "strong_favorite" => c.dir = c.dom
  /\ \A a, b \in c.advice :
       /\ a.force # 0 /\ b.force # 0
       /\ Trails(a.to, a.table) /\ Leads(b.to, b.table)
       => a.risk >= b.risk

LEMMA TiltedParts ==
  ASSUME NEW q \in Inputs, NEW x \in People, NEW read \in Reads, NEW tilt \in Tilts
  PROVE  Tilted[<<q, ContextOf(x, read), tilt>>]
           = RecommendToWin(MatchCards[q], ContextOf(x, read), tilt)
<1> DEFINE ctx == ContextOf(x, read)
           t == <<q, ctx, tilt>>
<1>1. ctx \in Contexts
  BY DEF Contexts
<1> HIDE DEF ctx
<1>2. t \in {<<p, c, z>> : p \in Inputs, c \in Contexts, z \in Tilts}
  BY <1>1
<1>3. t[1] = q /\ t[2] = ctx /\ t[3] = tilt
  OBVIOUS
<1> HIDE DEF t
<1>4. Tilted[t] = RecommendToWin(MatchCards[t[1]], t[2], t[3])
  BY <1>2 DEF Tilted
<1> QED BY <1>3, <1>4 DEF t, ctx

\* Of every card there is: a strong favourite is the pick, whatever was read for the
\* operator.
LEMMA CardStrong ==
  ASSUME NEW q \in Inputs, Cards[q].mode = "strong_favorite", NEW read \in Reads
  PROVE  TiltedNow(q, read).dir = Cards[q].dom
<1> DEFINE rec == MatchCards[q]
           ctx == ContextOf(Operator, read)
<1>1. Cards[q] = BuiltCard(rec, Forecasts[q[1]], q[2].stage, q[1].rated)
  BY DEF Cards
<1>2. TiltedNow(q, read) = RecommendToWin(rec, ctx, GlobalTilt)
  BY TiltedParts, NumbersAssumption DEF Tilts, TiltedNow
<1>3. TiltForce(ctx, GlobalTilt) \in Int
  <2> DEFINE p == RiskPressure(ctx)
  <2>1. p \in Int /\ GlobalTilt \in Int
    BY PressureSigned, NumbersAssumption
  <2> HIDE DEF p
  <2>2. (p * GlobalTilt) \div 100 \in Int
    BY <2>1
  <2> QED BY <2>2 DEF TiltForce, p
<1> HIDE DEF rec, ctx
<1>4. Cards[q].mode = rec.mode /\ Cards[q].dom = rec.dom
  BY <1>1 DEF BuiltCard
<1>5. TiltedNow(q, read) \in rec.pool
  BY <1>2, <1>3, <1>4, TiltedInPool DEF rec
<1>6. TiltedNow(q, read).dir = rec.dom
  BY <1>4, <1>5, StrongPool DEF rec
<1> QED BY <1>4, <1>6

\* A piece of advice with some force is the best of the pool for that force.
LEMMA AdvicePicked ==
  ASSUME NEW q \in Inputs, MatchCards[q].pool # {}, NEW x \in People, NEW read \in Reads,
         TiltForce(ContextOf(x, read), TiltOf(x)) # 0
  PROVE  LET force == TiltForce(ContextOf(x, read), TiltOf(x))
         IN /\ Tilted[<<q, ContextOf(x, read), TiltOf(x)>>] = Strategize(MatchCards[q], force)
            /\ force \in Int
            /\ Trails(x, read.table) => force > 0
            /\ Leads(x, read.table) => force < 0
<1> DEFINE ctx == ContextOf(x, read)
           tilt == TiltOf(x)
           p == RiskPressure(ctx)
<1>1. tilt \in Nat /\ tilt \in Tilts
  BY TiltTyped DEF Tilts
<1>2. p \in Int /\ (Trails(x, read.table) => p >= 0) /\ (Leads(x, read.table) => p <= 0)
  BY PressureSigned
<1>3. Tilted[<<q, ctx, tilt>>] = RecommendToWin(MatchCards[q], ctx, tilt)
  BY <1>1, TiltedParts
<1> HIDE DEF ctx, tilt, p
<1>4. p = RiskPressure(ctx) /\ TiltForce(ctx, tilt) # 0
  BY DEF ctx, tilt, p
<1>5. /\ TiltForce(ctx, tilt) \in Int /\ tilt # 0 /\ p # 0
      /\ p >= 0 => TiltForce(ctx, tilt) > 0
      /\ p <= 0 => TiltForce(ctx, tilt) < 0
  BY <1>1, <1>2, <1>4, ForceSigned
<1>6. ctx # NoContext
  BY <1>4, <1>5 DEF RiskPressure, NoContext
<1>7. Tilted[<<q, ctx, tilt>>] = Strategize(MatchCards[q], TiltForce(ctx, tilt))
  BY <1>3, <1>4, <1>5, <1>6 DEF RecommendToWin
<1> QED BY <1>2, <1>5, <1>7 DEF ctx, tilt

\* What somebody is told on a card: the risk of their tilted score.
LEMMA AdviceParts ==
  ASSUME NEW q \in Inputs, NEW reads \in [Advised(q) -> Reads], NEW a \in AdviceNow(q, reads)
  PROVE  \E x \in People, read \in Reads :
           /\ MatchCards[q].pool # {}
           /\ a.to = x /\ a.table = read.table
           /\ a.force = TiltForce(ContextOf(x, read), TiltOf(x))
           /\ a.risk = Risk(Tilted[<<q, ContextOf(x, read), TiltOf(x)>>], MatchCards[q].pool)
<1>1. PICK x \in Advised(q) : a = Advice[<<q, x, reads[x]>>]
  BY DEF AdviceNow
<1>2. x \in People /\ MatchCards[q].pool # {} /\ reads[x] \in Reads
  BY <1>1 DEF Advised
<1> DEFINE read == reads[x]
           t == <<q, x, read>>
<1>3. t \in {<<p, y, z>> : p \in Inputs, y \in People, z \in Reads}
  BY <1>2
<1>4. t[1] = q /\ t[2] = x /\ t[3] = read
  OBVIOUS
<1>5. a = Advice[t]
  BY <1>1
<1> HIDE DEF t, read
<1>6. Advice[t] = AdviceTo(x, read, Tilted[<<q, ContextOf(x, read), TiltOf(x)>>],
                           MatchCards[q].pool)
  <2>1. Advice[t] = IF MatchCards[t[1]].pool = {} THEN None
                    ELSE AdviceTo(t[2], t[3], Tilted[<<t[1], ContextOf(t[2], t[3]), TiltOf(t[2])>>],
                                  MatchCards[t[1]].pool)
    BY <1>3 DEF Advice
  <2>2. MatchCards[q].pool # {}
    BY <1>2
  <2> QED BY <1>4, <2>1, <2>2
<1>7. /\ a.to = x /\ a.table = read.table
      /\ a.force = TiltForce(ContextOf(x, read), TiltOf(x))
      /\ a.risk = Risk(Tilted[<<q, ContextOf(x, read), TiltOf(x)>>], MatchCards[q].pool)
  BY <1>5, <1>6 DEF AdviceTo
<1>8. read \in Reads
  BY <1>2 DEF read
<1> QED BY <1>2, <1>7, <1>8

\* The advice of every card there is follows the standings as they were read.
LEMMA CardOrdered ==
  ASSUME NEW q \in Inputs, NEW reads \in [Advised(q) -> Reads],
         NEW a \in AdviceNow(q, reads), NEW b \in AdviceNow(q, reads),
         a.force # 0, b.force # 0,
         Trails(a.to, a.table), Leads(b.to, b.table)
  PROVE  a.risk >= b.risk
<1> DEFINE rec == MatchCards[q]
           best(x, read) == Tilted[<<q, ContextOf(x, read), TiltOf(x)>>]
<1>1. PICK x \in People, readX \in Reads :
        /\ rec.pool # {} /\ a.to = x /\ a.table = readX.table
        /\ a.force = TiltForce(ContextOf(x, readX), TiltOf(x))
        /\ a.risk = Risk(best(x, readX), rec.pool)
  BY AdviceParts
<1>2. PICK y \in People, readY \in Reads :
        /\ b.to = y /\ b.table = readY.table
        /\ b.force = TiltForce(ContextOf(y, readY), TiltOf(y))
        /\ b.risk = Risk(best(y, readY), rec.pool)
  BY AdviceParts
<1>3. Valued(q[1].odds, q[2])
  BY <1>1, UnvaluedCard
<1>4. /\ OneEach(rec.pool) /\ rec.pool # {} /\ rec.pick \in rec.pool
      /\ \A c \in rec.pool : Scorable(c)
  BY <1>3, ValuedCard
<1>5. a.force \in Int /\ a.force > 0 /\ best(x, readX) = Strategize(rec, a.force)
  BY <1>1, AdvicePicked
<1>6. b.force \in Int /\ b.force < 0 /\ best(y, readY) = Strategize(rec, b.force)
  BY <1>1, <1>2, AdvicePicked
<1> HIDE DEF rec, best
<1>7. Risk(Strategize(rec, a.force), rec.pool) >= Risk(Strategize(rec, b.force), rec.pool)
  BY <1>4, <1>5, <1>6, RiskMonotone
<1> QED BY <1>1, <1>2, <1>5, <1>6, <1>7

\* So whatever build_card makes of them is safe.
LEMMA AssembledSafe ==
  ASSUME NEW q \in Inputs, NEW w, NEW path, NEW own \in Reads,
         NEW reads \in [Advised(q) -> Reads]
  PROVE  Safe(Assembled(w, path, Cards[q], TiltedNow(q, own), AdviceNow(q, reads)))
<1> DEFINE c == Assembled(w, path, Cards[q], TiltedNow(q, own), AdviceNow(q, reads))
<1>1. /\ c.mode = Cards[q].mode /\ c.dom = Cards[q].dom
      /\ c.dir = TiltedNow(q, own).dir /\ c.advice = AdviceNow(q, reads)
  BY DEF Assembled
<1> HIDE DEF c
<1>2. c.mode = "strong_favorite" => c.dir = c.dom
  BY <1>1, CardStrong
<1>3. ASSUME NEW a \in c.advice, NEW b \in c.advice, a.force # 0, b.force # 0,
             Trails(a.to, a.table), Leads(b.to, b.table)
      PROVE  a.risk >= b.risk
  BY <1>1, <1>3, CardOrdered
<1>4. Safe(c)
  BY <1>2, <1>3 DEF Safe
<1> QED BY <1>4 DEF c

-----------------------------------------------------------------------------
(***************************************************************************)
(* What the jobs have in hand: a card is only ever built from odds, news and *)
(* a setting it is known for.                                              *)
(***************************************************************************)
\* The corrections that come from a provider's answer.
Answers == {From(Discount(ValidateAndClamp(t.data)), "llm") : t \in {x \in Texts : Corrects(x)}}

\* News whose shift of the goals is one of Shifts.
Known(n) == \/ n = NoNews
            \/ n \in Answers
            \/ n.from = "prior" /\ <<n.home, n.away>> \in Shifts

\* What a job of w has in hand is what a card can be built from, and the card is safe.
DataOf(w) ==
  /\ events[w] \in Events \cup {None} /\ quote[w].odds \in Quotes /\ Known(news[w])
  /\ card[w] # None => Safe(card[w])

RowInv == prior # None => prior.news = NoNews \/ prior.news \in Answers

DataInv == RowInv /\ \A w \in Windows : DataOf(w)

LEMMA KnownShift ==
  ASSUME NEW n, Known(n)
  PROVE  <<n.home, n.away>> \in Shifts
<1>1. CASE n = NoNews
  <2>1. n.home = Neutral.home /\ n.away = Neutral.away
    BY <1>1 DEF NoNews, From
  <2> QED BY <2>1 DEF Shifts
<1>2. CASE n \in Answers
  <2>1. PICK t \in {x \in Texts : Corrects(x)} : n = From(Discount(ValidateAndClamp(t.data)), "llm")
    BY <1>2 DEF Answers
  <2> DEFINE m == Discount(ValidateAndClamp(t.data))
  <2>2. n.home = m.home /\ n.away = m.away
    BY <2>1 DEF From
  <2>3. m \in {Discount(ValidateAndClamp(y.data)) : y \in {x \in Texts : Corrects(x)}}
    OBVIOUS
  <2> HIDE DEF m
  <2> QED BY <2>2, <2>3 DEF Shifts
<1> QED BY <1>1, <1>2 DEF Known

\* An answer that is discounted once more shifts the goals by one of Shifts, too.
LEMMA ReuseKnown ==
  ASSUME NEW n \in Answers
  PROVE  Known(From(Discount(ValidateAndClamp(n)), "prior"))
<1>1. PICK t \in {x \in Texts : Corrects(x)} : n = From(Discount(ValidateAndClamp(t.data)), "llm")
  BY DEF Answers
<1> DEFINE m == Discount(ValidateAndClamp(t.data))
           Fresh == {Discount(ValidateAndClamp(y.data)) : y \in {x \in Texts : Corrects(x)}}
<1>2. m \in [home : -Clamp..Clamp, away : -Clamp..Clamp, conf : Confidences]
  <2>1. ValidateAndClamp(t.data) \in [home : -Clamp..Clamp, away : -Clamp..Clamp,
                                      conf : Confidences]
    <3>1. t.data = NonDict \/ {t.data.home, t.data.away} \subseteq Int \cup {NaN, Junk}
      BY CardAssumption DEF Corrects, Overflows
    <3> QED BY <3>1, ValidatedTyped
  <2> QED BY <2>1, DiscountWeakens DEF Discount
<1>3. m \in Fresh
  OBVIOUS
<1>4. n = From(m, "llm")
  BY <1>1
<1> HIDE DEF m, Fresh
<1>5. m # NonDict
  BY <1>2, NewsAssumption
<1>6. ASSUME NEW x \in -Clamp..Clamp PROVE Clamped(x) = x
  BY NewsAssumption DEF Clamped
<1>7. ValidateAndClamp(m) = m
  BY <1>2, <1>5, <1>6 DEF ValidateAndClamp
<1>8. ValidateAndClamp(n) = m
  <2>1. n \in NewsRecords /\ n.home = m.home /\ n.away = m.away /\ n.conf = m.conf
    BY <1>2, <1>4 DEF From, NewsRecords
  <2> QED BY <1>2, <2>1, ReuseWeakens
<1> DEFINE again == From(Discount(ValidateAndClamp(n)), "prior")
<1>9. Discount(m) \in {Discount(ValidateAndClamp(y)) : y \in Fresh}
  BY <1>3, <1>7
<1>10. <<Discount(m).home, Discount(m).away>> \in Shifts
  BY <1>9 DEF Shifts, Fresh
<1>11. again.from = "prior" /\ again.home = Discount(m).home /\ again.away = Discount(m).away
  BY <1>8 DEF From
<1> QED BY <1>10, <1>11 DEF Known

LEMMA QuoteKnown ==
  ASSUME NEW e \in Events
  PROVE  Quote(e).odds \in Quotes
BY DEF Quotes

LEMMA NoQuoteKnown == NoQuote.odds \in Quotes
BY DEF Quotes, NoQuote

\* Who does not move keeps what it has; only Tick and the window itself write its events.
LEMMA OthersData ==
  ASSUME NEW v, DataOf(v), Stays(v), events'[v] = events[v]
  PROVE  DataOf(v)'
BY DEF DataOf, Stays, Known

LEMMA EventsStay ==
  ASSUME DomainInv, NEW w \in Windows, Step(w)
  PROVE  /\ \A v \in Windows \ {w} : events'[v] = events[v]
         /\ events'[w] = events[w] \/ events'[w] = None
<1>1. UNCHANGED events \/ events' = [events EXCEPT ![w] = None]
  BY DEF Step, LoadModels, Market, Fetching, StartNews, Ask, AnswerRequest, OpenSearch, Query,
         EndQuery, AskModel, Assemble, Deliver
<1> QED BY <1>1 DEF DomainInv

\* The odds in hand are what the event was quoted at.
LEMMA PricedData ==
  ASSUME DomainInv, NEW w \in Windows, NEW e \in Events, NEW mishaps,
         quote[w].odds \in Quotes, Priced(w, e, mishaps) \/ NoMarket(w)
  PROVE  quote'[w].odds \in Quotes
<1>1. quote'[w] = quote[w] \/ quote'[w] = Quote(e)
  BY DEF Priced, NoMarket, DomainInv
<1> QED BY <1>1, QuoteKnown

LEMMA OddsData ==
  ASSUME TypeInv, AuditInv, DataInv, NEW w \in Windows, Market(w) \/ Fetching(w)
  PROVE  DataOf(w)' /\ UNCHANGED prior
<1>1. UNCHANGED <<news, prior, card>> /\ DomainInv /\ DataOf(w)
  BY DEF Market, Fetching, AuditInv, DataInv
<1>2. UNCHANGED quote \/ \E e \in Events : \E n : Priced(w, e, n) \/ NoMarket(w)
  <2>1. Events # {}
    BY DEF Events
  <2>2. CASE Market(w)
    BY <1>1, <2>1, <2>2 DEF Market, DataOf
  <2>3. CASE Fetching(w)
    BY <2>1, <2>3 DEF Fetching
  <2> QED BY <2>2, <2>3
<1>3. quote'[w].odds \in Quotes
  BY <1>1, <1>2, PricedData DEF DataOf
<1>4. events'[w] \in Events \cup {None}
  BY <1>1, EventsStay DEF DataOf, Step
<1> QED BY <1>1, <1>3, <1>4 DEF DataOf, Known

LEMMA StartNewsData ==
  ASSUME TypeInv, AuditInv, DataInv, NEW w \in Windows, StartNews(w)
  PROVE  DataOf(w)' /\ UNCHANGED prior
<1>1. UNCHANGED <<events, quote, prior, card>> /\ DataOf(w)
  BY DEF StartNews, DataInv
<1>2. Known(news'[w])
  <2>1. CASE HasPrior(w) /\ Reused(w)
    <3>1. prior.news \in Answers
      BY <2>1, NoNewsTyped DEF HasPrior, Reusable, DataInv, RowInv
    <3>2. news'[w] = From(Discount(ValidateAndClamp(prior.news)), "prior")
      BY <2>1 DEF Reused, TypeInv, SignalType
    <3> QED BY <3>1, <3>2, ReuseKnown
  <2>2. CASE news' = [news EXCEPT ![w] = NoNews]
    BY <2>2 DEF Known, TypeInv, SignalType
  <2>3. CASE UNCHANGED news
    BY <1>1, <2>3 DEF DataOf
  <2> QED BY <2>1, <2>2, <2>3 DEF StartNews
<1> QED BY <1>1, <1>2 DEF DataOf, Known

LEMMA AskModelData ==
  ASSUME TypeInv, AuditInv, DataInv, NEW w \in Windows, AskModel(w)
  PROVE  DataOf(w)' /\ UNCHANGED prior
<1>1. UNCHANGED <<events, quote, prior, card>> /\ DataOf(w)
  BY DEF AskModel, DataInv
<1>2. Known(news'[w])
  <2>1. PICK text \in Texts :
               \/ Corrects(text) /\ Analysed(w, text)
               \/ UNCHANGED news
               \/ news' = [news EXCEPT ![w] = NoNews]
    BY DEF AskModel, Unanalysed
  <2>2. CASE Corrects(text) /\ Analysed(w, text)
    <3>1. news'[w] = From(Discount(ValidateAndClamp(text.data)), "llm")
      BY <2>2 DEF Analysed, TypeInv, SignalType
    <3>2. news'[w] \in Answers
      BY <2>2, <3>1 DEF Answers
    <3> QED BY <3>2 DEF Known
  <2>3. CASE UNCHANGED news
    BY <1>1, <2>3 DEF DataOf
  <2>4. CASE news' = [news EXCEPT ![w] = NoNews]
    BY <2>4 DEF Known, TypeInv, SignalType
  <2> QED BY <2>1, <2>2, <2>3, <2>4
<1> QED BY <1>1, <1>2 DEF DataOf, Known

\* What is assembled now is one of Cards.
LEMMA AssembleData ==
  ASSUME TypeInv, AuditInv, DataInv, NEW w \in Windows, Assemble(w)
  PROVE  DataOf(w)' /\ RowInv'
<1>1. UNCHANGED <<events, quote, news>> /\ DataOf(w)
  BY DEF Assemble, job, DataInv
<1>2. PICK s \in Settings, kept \in BOOLEAN, own \in Reads :
        \E reads \in [Advised(<<SourceNow(w), s>>) -> Reads] :
          Issued(w, <<SourceNow(w), s>>, kept, own, reads)
  BY DEF Assemble
<1> DEFINE q == <<SourceNow(w), s>>
           path == Pathway(quote[w].odds, q[2])
<1>3. q \in Inputs
  <2>1. <<news[w].home, news[w].away>> \in Shifts /\ quote[w].odds \in Quotes
    BY <1>1, KnownShift DEF DataOf
  <2>2. \A fit, rated \in BOOLEAN, shift \in Shifts, odds \in Quotes :
          [fit |-> fit, rated |-> rated, shift |-> shift, odds |-> odds] \in Sources
    BY DEF Sources
  <2> DEFINE fit == "dixon_coles" \in used[w]
             rated == "elo" \in used[w]
  <2>3. fit \in BOOLEAN /\ rated \in BOOLEAN
    OBVIOUS
  <2>4. SourceNow(w) = [fit |-> fit, rated |-> rated,
                        shift |-> <<news[w].home, news[w].away>>, odds |-> quote[w].odds]
    BY DEF SourceNow
  <2> HIDE DEF fit, rated
  <2>5. SourceNow(w) \in Sources
    BY <2>1, <2>2, <2>3, <2>4
  <2> QED BY <2>5 DEF Inputs
<1>4. \E reads \in [Advised(q) -> Reads] :
        card'[w] = Assembled(w, path, Cards[q], TiltedNow(q, own), AdviceNow(q, reads))
  BY <1>2 DEF Issued, AuditInv, DomainInv
<1> HIDE DEF q, path
<1>5. Safe(card'[w])
  BY <1>3, <1>4, AssembledSafe
<1>6. DataOf(w)'
  BY <1>1, <1>5 DEF DataOf, Known, Safe
<1>7. RowInv'
  <2>1. CASE w = Primary /\ prior' = [at |-> now, news |-> news[w]]
    <3>1. pc[w] = "assemble"
      BY DEF Assemble
    <3>2. news[w].from # "prior"
      BY <2>1, <3>1, CardAssumption DEF AuditInv, AuditOf, Built, NewsTrue
    <3>3. news[w] = NoNews \/ news[w] \in Answers
      BY <1>1, <3>2 DEF DataOf, Known
    <3> QED BY <2>1, <3>3 DEF RowInv
  <2>2. CASE UNCHANGED prior
    BY <2>2 DEF DataInv, RowInv
  <2> QED BY <1>2, <2>1, <2>2 DEF Issued
<1> QED BY <1>6, <1>7

\* The steps that leave the odds, the news and the card as they are.
LEMMA OtherData ==
  ASSUME TypeInv, AuditInv, DataInv, NEW w \in Windows,
         \/ LoadModels(w) \/ Ask(w) \/ AnswerRequest(w) \/ OpenSearch(w) \/ Query(w)
         \/ EndQuery(w) \/ Deliver(w)
  PROVE  DataOf(w)' /\ UNCHANGED prior
<1>1. DataOf(w) /\ UNCHANGED <<events, prior>>
  BY DEF LoadModels, Ask, AnswerRequest, OpenSearch, Query, EndQuery, Deliver, DataInv
<1>2. CASE UNCHANGED <<quote, news, card>>
  BY <1>1, <1>2 DEF DataOf, Known
<1>3. CASE Deliver(w)
  <2>1. card'[w] = None /\ quote'[w] = NoQuote /\ news'[w] = NoNews
    BY <1>3 DEF Deliver, AuditInv, DomainInv, TypeInv, SignalType
  <2> QED BY <1>1, <2>1, NoQuoteKnown DEF DataOf, Known
<1> QED BY <1>2, <1>3 DEF LoadModels, Ask, AnswerRequest, OpenSearch, Query, EndQuery, job

LEMMA DataPreserved ==
  ASSUME TypeInv, AuditInv, DataInv, [Next]_vars
  PROVE  DataInv'
<1>1. CASE Advance \/ UNCHANGED vars
  <2>1. UNCHANGED <<events, quote, news, prior, card>>
    BY <1>1 DEF Advance, vars, job
  <2> QED BY <2>1 DEF DataInv, RowInv, DataOf, Known
<1>2. CASE Tick
  <2>1. UNCHANGED <<quote, news, prior, card>>
    BY <1>2 DEF Tick, job
  <2>2. ASSUME NEW w \in Windows PROVE events'[w] \in Events \cup {None}
    <3>1. DataOf(w)
      BY DEF DataInv
    <3>2. UNCHANGED events \/ \E e \in Events \cup {None} :
            events' = [v \in Windows |-> IF v \in Due \cap OddsWindows THEN e ELSE events[v]]
      BY <1>2 DEF Tick
    <3> QED BY <3>1, <3>2 DEF DataOf
  <2> QED BY <2>1, <2>2 DEF DataInv, RowInv, DataOf, Known
<1>3. ASSUME NEW w \in Windows, Step(w)
      PROVE  DataInv'
  <2>1. DataOf(w)' /\ RowInv'
    <3>1. CASE Assemble(w)
      BY <3>1, AssembleData
    <3>2. CASE ~Assemble(w)
      <4>1. DataOf(w)' /\ UNCHANGED prior
        BY <1>3, <3>2, OddsData, StartNewsData, AskModelData, OtherData DEF Step
      <4> QED BY <4>1 DEF DataInv, RowInv
    <3> QED BY <3>1, <3>2
  <2>2. ASSUME NEW v \in Windows \ {w} PROVE DataOf(v)'
    BY <1>3, Frame, EventsStay, OthersData DEF AuditInv, DataInv
  <2> QED BY <2>1, <2>2 DEF DataInv
<1> QED BY <1>1, <1>2, <1>3 DEF Next

LEMMA DataInitially == Init => DataInv
BY NoQuoteKnown DEF Init, DataInv, RowInv, DataOf, Known

LEMMA DataInvariance == Spec => []DataInv
<1>1. Inv /\ DataInv /\ [Next]_vars => DataInv'
  BY DataPreserved DEF Inv
<1> QED BY <1>1, DataInitially, Invariance, PTL DEF Spec

\* Whatever the prices, texts, standings and tilts: with a strong favourite the card stays
\* in the favourite's direction, for everybody (ev_optimizer.py:162-164).
THEOREM FavouriteKept == Spec => []StrongFavouriteKept
<1>1. DataInv => StrongFavouriteKept
  BY DEF DataInv, DataOf, Safe, StrongFavouriteKept
<1> QED BY <1>1, DataInvariance, PTL

\* Whatever the table says each time it is read, whichever reads fail and whoever is
\* tilted by how much: who trailed at their own read is never told a safer score than who
\* led at theirs (strategy.py:3-10, per_person.py:146-158).
THEOREM AdviceOrdered == Spec => []RiskOrdered
<1>1. DataInv => RiskOrdered
  BY DEF DataInv, DataOf, Safe, RiskOrdered
<1> QED BY <1>1, DataInvariance, PTL
=============================================================================
