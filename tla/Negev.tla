------------------------------- MODULE Negev --------------------------------
(***************************************************************************)
(* The client of Negev's Firestore in one process: the session its threads *)
(* share, the requests an operation makes one after the other, the edits   *)
(* of the operator's own documents, and the alert about a failure.         *)
(*                                                                         *)
(* What a request brings is not modelled, only whether it came, and in     *)
(* full; Firestore is external.                                            *)
(***************************************************************************)
EXTENDS Integers, Sequences, FiniteSets

CONSTANTS Threads,
          Margin, MaxWait, Life,   \* of the id token: the 60 s, the bucket's
                                   \* longest wait, expires_in
          Fallback,                \* password sign-in is allowed and configured
          Categories, Options,     \* published options of a category, in order
          OptionKey, ChoiceKey,    \* their spelling, and a choice's, per tier
          Choices, SideBets, None,
          Kinds,                   \* the operations that a thread makes
          Deadline, MaxOps

ASSUME SessionAssumption == /\ Margin \in Nat /\ MaxWait \in Nat /\ Life \in Nat
                            /\ MaxWait < Margin /\ MaxWait < Life

VARIABLES clock,
          step, op, pending,      \* per thread: where, what, requests to make
          since, stamp,      \* when its wait began; expiry of its token
          expiry, refresh,   \* _token: expiry of the id; refresh token held
          seeded,            \* NEGEV_REFRESH_TOKEN is set
          allowed, started,  \* NEGEV_ALLOW_WRITES; the match is under way
          futures, answers, prediction, score, prefs,  \* documents at Negev
          alerted, ops

docs == <<started, futures, answers, prediction, score, prefs>>
session == <<expiry, refresh, seeded>>
call == <<since, stamp>>
negevVars == <<clock, step, op, pending, call, session, allowed, docs, alerted,
               ops>>

-----------------------------------------------------------------------------
(***************************************************************************)
(* What each operation asks for, one request after the other.  A list is   *)
(* read page by page; the user's id comes with the first token.  Without   *)
(* statistics, the points of the standings are added up from the bets.     *)
(***************************************************************************)
Generic == <<"documents">>
Standings == <<"users", "stats">>
Aggregation == <<"bets", "allMatches">>
Tournaments == <<"users", "tournament">>
Voters == <<"sideBet", "users", "answerDocs">>
Matches == <<"matches">>
Details == <<"matches", "mine", "friends", "users", "grids">>
BroadBets == <<"broadBets", "users">>
AllSideBets == <<"sideBets">>
UpdateResult == <<"patch">>
Predict == <<"matches", "patch">>
NextMatch == <<"matches">>
MyPreferences == <<"uid", "user">>
ScoringGrids == <<"grids">>
BroadBetCategories == <<"settings", "users">>
MatchBets == <<"matchBets", "users">>
MyBets == <<"uid", "myBets">>
UpdatePreferences == <<"uid", "patch">>
SaveBroadBets == BroadBetCategories \o <<"patch">>
SubmitAnswer == <<"uid", "patch">>
DeleteDocument == <<"patch">>

Requests ==
  [generic |-> Generic, standings |-> Standings, tournaments |-> Tournaments,
   voters |-> Voters, matches |-> Matches, details |-> Details, broadBets |-> BroadBets,
   sideBets |-> AllSideBets, next |-> NextMatch, preferences |-> MyPreferences,
   grids |-> ScoringGrids, categories |-> BroadBetCategories, matchBets |-> MatchBets,
   myBets |-> MyBets, result |-> UpdateResult, predict |-> Predict,
   setPrefs |-> UpdatePreferences, saveFutures |-> SaveBroadBets,
   answer |-> SubmitAnswer, delete |-> DeleteDocument]

Lists == {"users", "stats", "bets", "allMatches", "sideBets", "broadBets", "answerDocs"}

\* In details, and for a tournament, an error is an answer like any other.
Tolerated == {"mine", "friends", "tournament"}

\* These look at NEGEV_ALLOW_WRITES before they do anything else.
GateFirst == {"predict", "result", "delete"}

\* Every published option is compared with the choice, tier by tier.
ResolveOption(category, choice) ==
  LET agree(k) == {i \in DOMAIN Options[category] :
                     OptionKey[k][Options[category][i]] = ChoiceKey[k][choice]}
      tiers == {k \in 1..5 : agree(k) # {}}
  IN IF tiers = {} THEN None
     ELSE LET k == CHOOSE x \in tiers : \A y \in tiers : x <= y
          IN Options[category][CHOOSE i \in agree(k) : \A j \in agree(k) : i <= j]

Chosen(pick) == {c \in Categories : pick[c] # None}
Resolvable(pick) == \A c \in Chosen(pick) : ResolveOption(c, pick[c]) # None

\* The arguments of the edits; a read has none that matters.
Arguments(kind) ==
  CASE kind = "saveFutures" -> [pick : [Categories -> Choices \cup {None}], dry : BOOLEAN]
    [] kind = "answer" -> [id : SideBets \cup {None}, yes : {"Yes", "No"}, dry : BOOLEAN]
    [] kind = "predict" -> [level : BOOLEAN, advances : {None, "home", "nobody"}]
    [] kind = "setPrefs" -> [on : BOOLEAN]
    [] kind = "delete" -> [of : {"bet", "futures"}]
    [] OTHER -> {None}

-----------------------------------------------------------------------------
NegevInit ==
  /\ clock = 0 /\ step = [t \in Threads |-> "idle"] /\ op = [t \in Threads |-> None]
  /\ pending = [t \in Threads |-> <<>>]
  /\ since = [t \in Threads |-> 0] /\ stamp = [t \in Threads |-> 0]
  /\ expiry = 0 /\ refresh = "none" /\ seeded \in BOOLEAN /\ allowed \in BOOLEAN /\ started = FALSE
  /\ futures = [c \in Categories |-> None] /\ answers = [b \in SideBets |-> None]
  /\ prediction = None /\ score = None /\ prefs = None
  /\ alerted = FALSE /\ ops = 0

\* An end that nobody is told about: a result, or an error in its place.
Returned(t) == /\ step' = [step EXCEPT ![t] = "idle"] /\ op' = [op EXCEPT ![t] = None]
               /\ pending' = [pending EXCEPT ![t] = <<>>]

Moved(t, where) == step' = [step EXCEPT ![t] = where] /\ UNCHANGED <<op, pending>>

(***************************************************************************)
(* Time passes; the wait for the bucket ends by its deadline.  The match   *)
(* of the predictions kicks off.                                           *)
(***************************************************************************)
Elapse == /\ clock < Deadline
          /\ \A t \in Threads : step[t] = "waiting" => clock < since[t] + MaxWait
          /\ clock' = clock + 1
          /\ UNCHANGED <<step, op, pending, call, session, allowed, docs, alerted,
                         ops>>

KickOff == /\ ~started /\ started' = TRUE
           /\ UNCHANGED <<clock, step, op, pending, call, session, allowed, futures,
                          answers, prediction, score, prefs, alerted, ops>>

(***************************************************************************)
(* An operation begins, unless its arguments or the switch forbid it.      *)
(***************************************************************************)
Forbidden(kind, arg) == \/ kind \in GateFirst /\ ~allowed
                        \/ kind = "answer" /\ arg.id = None

Begin(t) ==
  /\ step[t] = "idle" /\ ops < MaxOps /\ ops' = ops + 1
  /\ \E kind \in Kinds[t] : \E arg \in Arguments(kind) :
       /\ ~Forbidden(kind, arg)
       /\ op' = [op EXCEPT ![t] = [kind |-> kind, arg |-> arg]]
       /\ pending' = [pending EXCEPT ![t] = Requests[kind]]
       /\ step' = [step EXCEPT ![t] = "token"]
  /\ UNCHANGED <<clock, call, session, allowed, docs, alerted>>

\* What an edit finds out from what it has read, before it goes on.
NothingToSave(arg) == Chosen(arg.pick) = {} \/ ~Resolvable(arg.pick)

Locked(arg) == started \/ (arg.advances # None /\ (~arg.level \/ arg.advances = "nobody"))

Stops(t) ==
  LET kind == op[t].kind
      arg == op[t].arg
  IN \/ /\ kind = "saveFutures" /\ Head(pending[t]) = "users"
        /\ NothingToSave(arg) \/ arg.dry \/ ~allowed
     \/ kind = "answer" /\ Head(pending[t]) = "uid" /\ (arg.dry \/ ~allowed)
     \/ kind = "setPrefs" /\ Head(pending[t]) = "uid" /\ ~allowed
     \/ kind = "predict" /\ Head(pending[t]) = "matches" /\ Locked(arg)

\* What is still to be asked for.
Rest(t, nothing) == IF Head(pending[t]) = "stats" /\ nothing THEN Aggregation
                    ELSE Tail(pending[t])

GoOn(t, nothing) ==
  IF Stops(t) \/ Rest(t, nothing) = <<>> THEN Returned(t)
  ELSE /\ pending' = [pending EXCEPT ![t] = Rest(t, nothing)]
       /\ step' = [step EXCEPT ![t] = "token"] /\ UNCHANGED op

\* An exception ends the operation, but for the statistics: then there are none.
Raised(t) ==
  IF Head(pending[t]) = "stats" THEN GoOn(t, TRUE)
  ELSE /\ step' = [step EXCEPT ![t] = "failed"]
       /\ pending' = [pending EXCEPT ![t] = <<>>] /\ UNCHANGED op

(***************************************************************************)
(* _id_token.  A cached token must have some time to live; else the        *)
(* refresh token, first the one of the environment, is exchanged.  Without *)
(* one the password is.                                                    *)
(***************************************************************************)
\* Slip: any token that has not expired will do.
AliveNow == clock < expiry

Alive == clock < expiry - Margin

Awaits(t, until) == /\ Moved(t, "waiting") /\ since' = [since EXCEPT ![t] = clock]
                    /\ stamp' = [stamp EXCEPT ![t] = until]

Token(t) ==
  /\ step[t] = "token"
  /\ \/ Head(pending[t]) = "uid" /\ expiry > 0 /\ GoOn(t, FALSE) /\ UNCHANGED <<call, refresh>>
     \/ Head(pending[t]) # "uid" /\ Alive /\ Awaits(t, expiry) /\ UNCHANGED refresh
     \/ /\ expiry = 0 \/ (Head(pending[t]) # "uid" /\ ~Alive)
        /\ UNCHANGED call
        /\ IF refresh # "none" THEN Moved(t, "refreshing") /\ UNCHANGED refresh
           ELSE IF seeded THEN Moved(t, "refreshing") /\ refresh' = "environment"
           ELSE Moved(t, "signing") /\ UNCHANGED refresh
  /\ UNCHANGED <<clock, expiry, seeded, allowed, docs, alerted, ops>>

Renewed(t) == /\ expiry' = clock + Life /\ refresh' = "own" /\ UNCHANGED seeded
              /\ IF Head(pending[t]) = "uid" THEN GoOn(t, FALSE) /\ UNCHANGED call
                 ELSE Awaits(t, clock + Life)

\* A refusal raises, unless the password may be tried; an exception always.
Refresh(t) ==
  /\ step[t] = "refreshing"
  /\ \/ Renewed(t)
     \/ /\ Fallback
        /\ refresh' = "none" /\ Moved(t, "signing") /\ UNCHANGED <<expiry, seeded, call>>
     \/ Raised(t) /\ UNCHANGED <<session, call>>
  /\ UNCHANGED <<clock, allowed, docs, alerted, ops>>

SignIn(t) ==
  /\ step[t] = "signing"
  /\ \/ Renewed(t)
     \/ Raised(t) /\ UNCHANGED <<session, call>>
  /\ UNCHANGED <<clock, allowed, docs, alerted, ops>>

Released(t) == since' = [since EXCEPT ![t] = 0] /\ stamp' = [stamp EXCEPT ![t] = 0]

(***************************************************************************)
(* The headers are made before the wait for the bucket begins.             *)
(***************************************************************************)
Send(t) == /\ step[t] = "waiting" /\ Moved(t, "sent") /\ Released(t)
           /\ UNCHANGED <<clock, session, allowed, docs, alerted, ops>>

GiveUp(t) == /\ step[t] = "waiting" /\ clock = since[t] + MaxWait /\ Raised(t) /\ Released(t)
             /\ UNCHANGED <<clock, session, allowed, docs, alerted, ops>>

(***************************************************************************)
(* The answer.  A list that breaks off is returned as far as it was read;  *)
(* the operation does not notice.  Any other error ends it.                *)
(***************************************************************************)
Read(t) ==
  /\ step[t] = "sent" /\ Head(pending[t]) # "patch"
  /\ \/ Head(pending[t]) \in Lists /\ Moved(t, "token")
     \/ GoOn(t, FALSE)
     \/ Head(pending[t]) \in Lists /\ GoOn(t, TRUE)
     \/ Head(pending[t]) \notin Lists \cup Tolerated /\ Returned(t)
     \/ Raised(t)
  /\ UNCHANGED <<clock, call, session, allowed, docs, alerted, ops>>

(***************************************************************************)
(* The edits.  The selections of the futures are one field, and replaced   *)
(* as a whole; the answers to side bets are a field each.                  *)
(***************************************************************************)
Selected(pick) ==
  [c \in Categories |-> IF pick[c] = None THEN None ELSE ResolveOption(c, pick[c])]

Edited(kind, arg) ==
  /\ futures' = CASE kind = "saveFutures" -> Selected(arg.pick)
                  [] kind = "delete" /\ arg.of = "futures" -> [c \in Categories |-> None]
                  [] OTHER -> futures
  /\ answers' = IF kind = "answer" THEN [answers EXCEPT ![arg.id] = arg.yes] ELSE answers
  /\ prediction' = CASE kind = "predict" -> arg
                     [] kind = "delete" /\ arg.of = "bet" -> None
                     [] OTHER -> prediction
  /\ score' = IF kind = "result" THEN "final" ELSE score
  /\ prefs' = IF kind = "setPrefs" THEN arg.on ELSE prefs
  /\ started' = (started \/ kind = "result")

Edit(t) ==
  /\ step[t] = "sent" /\ Head(pending[t]) = "patch"
  /\ \/ Edited(op[t].kind, op[t].arg) /\ Returned(t)
     \/ UNCHANGED docs /\ (Returned(t) \/ Raised(t))
  /\ UNCHANGED <<clock, call, session, allowed, alerted, ops>>

(***************************************************************************)
(* alert_failure_once_per_day, within one day: the date is looked at       *)
(* before the alert is sent, and set after.                                *)
(***************************************************************************)
Report(t) ==
  /\ step[t] = "failed"
  /\ IF alerted THEN Returned(t) ELSE Moved(t, "alerting")
  /\ UNCHANGED <<clock, call, session, allowed, docs, alerted, ops>>

ReportSent(t) ==
  /\ step[t] = "alerting" /\ Returned(t)
  /\ \/ alerted' = TRUE
     \/ UNCHANGED alerted
  /\ UNCHANGED <<clock, call, session, allowed, docs, ops>>

NegevNext ==
  \/ Elapse \/ KickOff
  \/ \E t \in Threads : \/ Begin(t) \/ Token(t) \/ Refresh(t) \/ SignIn(t)
                        \/ Send(t) \/ GiveUp(t) \/ Read(t) \/ Edit(t)
                        \/ Report(t) \/ ReportSent(t)

NegevSpec == NegevInit /\ [][NegevNext]_negevVars
-----------------------------------------------------------------------------
\* No request leaves with a token that has run out, although the token is looked at
\* before the wait for the rate limit and may be another thread's
\* (negev_toto_mcp.py:102, :199; core/obs/__init__.py:115).
SentWithLiveToken ==
  [][\A t \in Threads : step[t] = "waiting" /\ step'[t] = "sent" => clock < stamp[t]]_negevVars
=============================================================================
