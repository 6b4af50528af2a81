# Mondial 2026: verification project

TLA+ models of the World Cup prediction daemon, model-checked with TLC and, where this
file says so, proved for all values of the constants with TLAPS. Every definition of a
model names, in `PROJECT.json` ("map"), the lines of the source it stands for.

1. [The system](#1-the-system)
2. [Modules](#2-modules)
3. [Runs and bounds](#3-runs-and-bounds)
4. [Fairness](#4-fairness)
5. [Proofs](#5-proofs)
6. [What the models found](#6-what-the-models-found)
7. [What is abstracted, what is not modelled](#7-what-is-abstracted-what-is-not-modelled)
8. [Plan](#8-plan)

To check a run: `tlc -config SchedulerPool.cfg MCScheduler`. To check the proofs of a
module: `tlapm SchedulerProofs.tla`.

## 1. The system

One Python daemon, `schedule/runner.py`, ticks once a minute in its main thread. Jobs
run in a thread pool. Cron jobs and the update script are processes of their own. What
they share is one SQLite file (matches, predictions, odds snapshots, standings, runs,
api_calls, side_bet_state), the files of a cache, the source tree, and the process
manager.

| Component | State | Operations | Talks to |
|---|---|---|---|
| Scheduler daemon (`schedule/runner.py`, `scheduler.py`) | time of the last ingest, set of dispatched keys, thread pool | `tick`: ingest, standings, summary, kickoff cards, choice of due windows, the odds of the tick, dispatch, watchdog | calendar, runs ledger, pool |
| Match pipeline (`orchestrator/pipeline.py`, `core/reliability.py`) | none of its own; a row of `runs` | `process_match`: start row, build with retries, deliver, finish row, alert | card building, delivery, runs ledger |
| Runs ledger (`core/obs/runs.py`) | table `runs`, or a memory copy when the file cannot be opened | `start`, `finish`, `was_handled`, `stuck_runs` | all of the above |
| Watchdog (`schedule/watchdog.py`) | none | `check_stuck` at the end of each tick | runs ledger, alerts |
| Tick messages (`schedule/daily_summary.py`, `kickoff_cards.py`) | rows of `runs` keyed by date and by kickoff | `send_if_due`, `fire_due` | matches, runs ledger, delivery |
| Card building (`core/decision/build_card.py`) | what one card has so far; the row in `predictions` | `build_card`: ratings, odds, news, pick, audit trail, each with its fallback | feeds, news agent, optimiser |
| Feeds (`core/data`: oddsapi, api_football, web_search, cache) | daily files, ids, remembered injuries, odds_snapshots, used budgets | `fetch_all_odds`, `fetch_match_odds`, `_get`, `web_search`, `cached_json` | the APIs, the cost ledger |
| News agent (`orchestrator/agents/news_agent.py`) | none | `gather_context`, `analyze`, `read_prior_deltas` | providers, feeds, `predictions` |
| Picks (`core/models`, `core/decision/ev_optimizer.py`, `strategy.py`, `per_person.py`) | none | score matrix, blend, gate, tilt | card building |
| Calendar ingest (`core/data/football_data.py`) | table `matches` | `ingest`, `tag_detonators`, `refresh` | football-data.org |
| Scoring (`core/scoring/engine.py`, `standings_writer.py`, `config/rules.py`) | row of Me in `standings` | `score_match`, `update_standings` each tick | matches, predictions |
| Negev sync (`tools/sync_negev_standings.py`, `sidebet_watch.py`; cron) | `matches`, `standings`, `side_bet_state` | results copy, leaderboard copy, side-bet alerts | Negev, the tick (by the database) |
| Negev client (`integrations/negev_toto_mcp.py`, `negev_alerts.py`) | the token of the process, the file with the date of the last alert | sign-in and refresh, the requests of each operation, edits of the operator's documents | Negev's Firestore, the rate limiter |
| Providers (`core/llm/router.py`, `core/obs/ratelimit.py`, `cost.py`) | token bucket per provider and process, table `api_calls` | `complete_validated`, `acquire`, `record`, `over_budget` | language-model providers |
| Deployment (`infra/update.sh`, systemd) | commit, `.last_good_sha`, venv, unit file, process | update, automatic rollback, `--rollback` | git, pip, systemd, runs ledger (guard) |
| Tournament simulation (`core/models/montecarlo.py`) | none beyond one iteration | groups, thirds, seeding, knockout rounds | operator's commands |
| Delivery, metrics, preflight, tools, backup | see `PROJECT.json` | | |

What is hard here:

- *Crash and restart.* The process may die between the row that claims a window, the
  card, and the closing of the row; systemd starts it again. The same holds of the
  kickoff cards, the summary, the side-bet alerts and the ingest.
- *Interleaving.* Pool threads against the tick, and against each other on the feeds,
  the budgets, the odds snapshots and the token of a client; the tick's standings writer
  against the cron job on the same row; two sources that both write match results; the
  update script against jobs in flight.
- *Partial failure.* Each ledger call may raise, and where it is outside a `try` the
  failure spreads: out of a job, out of a loop over simultaneous kickoffs. Any signal of a
  card may be missing, and the card must say so. A shell script under `set -e` may end
  after any of its steps. A channel may fail after the card is out, a finished answer may lack
  its score, and several guards let pass what they cannot check.
- *Staleness.* The clock of a tick is read once, a budget is read before the call that
  is counted after it, a token before the wait for the rate limit, the guard of the
  update minutes before the restart; the standings are read once per person while another
  process rewrites them; a card takes over the news of an earlier one.
- *Time.* Windows open, are late, are too late; a moved kickoff; a rate limiter whose
  waiters poll.
- *Numbers.* A language model may answer anything where a number belongs; a pick is chosen
  by comparing weighted sums, and then tilted.

For each component the properties that make it right are in section 3; `PROJECT.json`
lists the hazards at their lines, with the properties that cover each.

## 2. Modules

| Module | Code | How state and actions correspond |
|---|---|---|
| `Scheduler` | runner, scheduler, pipeline, runs ledger, watchdog | `main.pc` is the place in `tick`, one action per hook; `dispatched`, `queue`, `worker` are the set, the pool's queue and its threads; `disk` is the `runs` table, `ledger` what `runs()` answers from (the table, or memory after `volatile`). `Crash` loses all but `disk`. |
| `CardPromise` | (abstract) | What a window, a summary or a kickoff card promises: claimed once, at most one message while the claim is open, none before or after. |
| `TickMessages` | daily summary, kickoff cards | the main thread of a tick: `due` is the list `fire_due` walks, `hand` the message being sent, `cut` the hooks that the database ended. Each source of a text may fail; some cost a section, some the message. |
| `Card` | build_card, gather_context, the windows of a tick | one job per window: `pc[w]` is its section of `build_card`, `used`, `failed`, `quote`, `news` what it has so far; `prior` is the row of T-60m in `predictions`, `snaps` the table odds_snapshots. One action per section, and one per request where a job waits for the network. |
| `Feeds` | oddsapi, api_football, web_search, cache | `files` are the daily products on disk, `credits`, `searches`, `requests` what has been spent, `lost` the part whose row the ledger dropped, `blind` the clearances given without reading it; `teamId` and `injuries` (per side), `fixtureId` what api_football remembers. |
| `News` | parser, validation, clamp, discount | operators over an answer: how it parses, what is left of each number. |
| `Picks` | models, optimiser, strategy, penalties, standings context | operators in integers: score matrix, blend, ranking, gate, tilt. |
| `Results` | ingest, tagging, scoring, the Negev results copy | `truth` and `feed` are the match and what football-data says of it; `status`, `goals`, `pens`, `named`, `det` the columns of a row; `doubt` remembers which results an incomplete answer has left open; the scoring rules are operators. |
| `Leaderboard` | Negev leaderboard copy, side-bet watch, the row the tick stores | `members`, `at`, `mine` are `standings`; `pc`, `got`, `todo`, `left`, `bet` the job; `dpc`, `total` the tick between its read and its write. |
| `Negev` | Negev client and its alerts | per thread `step`, `op`, `pending` (the requests still to make), `since`, `stamp`; `expiry`, `refresh` are the token of the process; the documents of the operator that the operations edit. |
| `Calls` | router, external_call, token bucket, cost ledger | one place per thread (`pc`, `next`), the bucket (`tokens`, `stamp`), the ledger's sum of the period (`used`); `grants`, `sent`, `dropped` are history. |
| `Deploy` | update.sh, systemd, a job of the daemon | `script.pc` is the step of the script; `head`, `deps`, `unit` and `daemon` are the four things that can be of different versions; `halted` and `lost` are history: a command ended the script between pull and restart, a restart killed a job. |
| `Bracket` | one iteration of the simulation | groups one match list at a time, then the draw of the first knockout round seed by seed, then the rounds. |

`MC<module>` gives the constants values for TLC, `<module>Proofs` holds the theorems.
`Scheduler` and `TickMessages` both instantiate `CardPromise`, each with its own
refinement mapping (`Phase`), which reads the rows of the ledger as the life of a
message. `Card` extends `Feeds` (which extends `Picks`) and `News`: the jobs of a match run on
one set of feeds. `Scheduler` and `Card` are the two halves of a job, how
often and whether it runs, and what it does: to the first, building a card succeeds or
fails; in the second, a dispatched job does not die. The other modules meet in the
database; each interface is inside one module (both writers of `matches` in `Results`,
both writers of `standings` in `Leaderboard`). `MCLeaderboard` checks `Leaderboard` and
`Negev` in one run: they share nothing but the network, so a behaviour follows either one.

Definitions preceded by `\* Slip:` are single-step errors a programmer could make in
that place. They belong to no specification; each is substituted for the
definition it imitates to see that a property notices.

## 3. Runs and bounds

All bounds are constants named `Max...`, and the sets of failing calls `Faults`.
Deadlock is not checked where the system may stop because a bound is reached (the clock
is at its last instant, the last invocation or operation has been made); it is checked in
the other runs. Every property of a passing run has a listed slip of the code that
violates it.

**SchedulerPool** (`TypeOK`, `LedgerTruthful`, `AtMostOnce`, `NothingOverlooked`,
`KeepsPromise`). Two matches that kick off together, one of them without teams until a
refresh, the other moved by it; two threads; two attempts; one crash; a row, a refresh,
a channel and the closing of a row may fail; the catch-up limit passes before the
kickoff. The smallest instance with two jobs in the pool at once, a job waiting behind
another while the next tick selects, and a job left over from before a restart. A channel
that fails may have let the card out or not (a request to Telegram that times out after the
server took it, a report written before the feed fails).
Threads are symmetric, and no liveness is checked here. `LedgerTruthful` says what of that the
rows can still be trusted for: `delivered` stands for a card that is out, `failed` for none;
`NothingOverlooked` that a tick that reaches its end has
dispatched, or finds on record, every window that was due at its clock; `KeepsPromise` is
the refinement of `CardPromise`. 616,390 states.

**SchedulerLive** (`AccountedFor`, `DispatchedIsRecorded`, `StuckIsReported`). One match,
two windows, two threads; one crash, a restart that may fail to open the ledger, a tick that
fails, and a call to a model that never returns: one hung thread leaves the other to work
off the queue, two stop the pool. `AccountedFor` says that a job never ends without card,
alert or row. See section 4. 250,312 states.

**SchedulerLostJob** (violation of `AccountedFor`). Section 6.

**TickMessages** (`TypeOK`, `MarkedWasSent`, `TickServesAll`, `KeepsPromise`). Two days of
three instants, so that a summary is due, sent, and due again; two matches that kick off
together on the second day, one without teams at first and then moved; a restart; every
call of both hooks, and every source of their texts, may fail. `TickServesAll` is the
property the comments are after: a message that cannot be sent does not cost its sibling.

**Deploy** (`TypeOK`, `NoHalfDeploy`, `OkMeansRunning`, `FailedUpdateRestores`,
`OnlyUnseenJobsKilled`). Three commits (new requirements with a broken daemon; a new unit
and a noisy start), three invocations, so that a rollback, a later update, and
`--rollback` after either occur; a tree somebody has edited, the query of the guard, a fetch, a
pull, pip half way, the sync of unit and crontab (before or after the unit is in place) and a
git reset may fail, and the daemon may respawn at any moment; two jobs and a clock of four
instants, so that a row can become older than the guard's age limit, and a day can end
between the row and the guard. 5,358,736 states.

**DeployRollbackDown** (violation of `RollbackComesUp`). Section 6.

**Results** (`TypeOK`, `ScoreRight`, `PointsAreTrue`, `NothingForgotten`,
`EventuallyRight`). A detonator match of the group stage with two scores on the way, and a
knockout match decided 3-4 on penalties after 1-1; two matches are enough for the group
reset, the two stages, the shootout split and an ingest that knows one row more than
another. The two sources learn in any order, the tick may lose its tagging or scoring; a
finished answer of football-data may come without its score, its shootout, or the word that
there was one, and Negev's without the tally. `PointsAreTrue` compares what a tick computes
with the rules stated a second time over the matches as they were played (`Deserved`); where
code and docstring differ about the group reset it allows both (section 6). 39,121 states.

**ResultsFlipFlop** (violation of `NoFlipFlop`). Section 6.

**Leaderboard** (`TypeOK`, `CopyFaithful`, `AlertedOnce`, `MyRowStays`,
`EventuallyMirrored`, `SentWithLiveToken`). Me and a player who may leave; three
publications of which the first pays nothing; two matches of which the first pays nothing;
one side bet; two faults (a failed row, a failed removal, a failed scan, a failed alert or
note, a kill, a race lost by the tick). `EventuallyMirrored` is what the long comment at
`standings_writer.py:104-121` is about: the daemon must not keep undoing the sync. The
behaviours of `Negev` in the same run have two threads and two operations, one of any kind
and one read, a token that lives three instants and a wait of one: enough for a thread to
wait with a token that another has meanwhile replaced, and for one to sign in again, with and
without a refresh token in the environment; of the two settings of the environment, a process
without leave to write has no refresh token either (they meet in no step). 622,423 states.

**Calls** (`TypeOK`, `EveryWindowBounded`, `OvershootBounded`, `CallsWithinBudget`,
`AuditComplete`, `CompletionsEnd`). Two threads, a provider with a budget of one in front of
one without, five instants with the start of a budget period at the second, buckets of
two and one calls per two instants. One completion per thread suffices for a race on the
budget and on the last token, and a period start between the check and the call. The ledger
may drop a row and fail to be read (`MayBeSkipped`).

**Card** (`TypeOK`, `HonestAudit`, `SpendingBounded`, `SettledAsOptimised`,
`StrongFavouriteKept`, `RiskOrdered`). The windows T-60m, T-15m and T-7m of one match and four
instants of about twenty minutes. T-60m and T-7m fetch odds, T-60m and T-15m search and ask
for lineups, the two later ones reuse T-60m's news. Of the two later ones one has fired
and failed before the kickoff was put off (`Fired`), so that at most two jobs run at once, and
each pair with T-60m occurs: alone, late, or together after an outage, overlapping in the
feeds. Two listings, one with a strong favourite and one without, and none at all; two
settings, one of them with a stage the rules do not know, which makes match_card raise; two
tables of standings, so that the lead may change between two reads of one card, and a tilt
out of range; four texts of a language model, one with NaN, one in prose with rubbish in a
field, one with a number no float holds, one that is no JSON; budgets that start a call or two
away from their limits. One thing goes wrong (`MaxFaults`): a source, a snapshot, a read of
the standings, a ledger that cannot be read or drops a row. `HonestAudit` is the golden rule at
the head of `build_card.py`; `SettledAsOptimised` is why odds_snapshots has windows at all. The
theorems hold for any windows, any `Fired` and any number of faults. 527,859 states.

**BracketDraw** (violation of `EveryoneDrawnOnce`). Section 6. Three groups and two thirds.

## 4. Fairness

*Scheduler* (`FairSpec`): weak fairness of the tick's steps, whose own calls (the calendar,
the odds, the messages) have timeouts; weak fairness of every thread, as far as it is not
hung: `providers.py` sets no timeout on a completion, so a call to a model may never return,
and then nothing is promised of that thread (`"hang"`). `DispatchedIsRecorded` therefore
says that a queued match is not starved while one thread is left; with all of them hung
the queue stands still, and nothing in the code notices. Weak fairness of
`Restart`, since the unit says `Restart=always`; of the clock; and strong fairness of
`SelectDue`, which says that a tick retried every minute does not meet a database
error each single time. The run starts from a ledger file that can be opened
(`OpenedFairSpec`); a later process may fail to open it, and `StuckIsReported` says what
is left then. Safety is checked under `Spec`, without fairness.

*Results*: matches are played and football-data publishes them in the end; the ingest,
tried each half hour, and the tagging after it succeed now and then (strong fairness:
a crash or a failure may disable them again and again); the standings and the end of
the tick are weakly fair. Nothing is assumed of Negev's copy. That football-data's answers
are complete in the end is not assumed but asked for in `EventuallyRight`, match by match.

*Leaderboard*: the cron line comes again (`Fetch`) and a job that is not killed goes on
(`Job`). Failures, kills and lost races are possible but bounded by `MaxFaults`, so in
the end there is a copy without one. Nothing is assumed of the tick: the table is to
mirror Negev whether the tick writes much or never.

*Calls*: weak fairness of every thread's steps, strong fairness of the clock, because
steps that take no time would otherwise let threads run for ever in one instant. The
clock waits for a thread whose deadline has come (`InTime`): a waiter polls every 0.05 s
and notices its deadline within that. That a provider answers or fails within
`Answering` is an assumption about the client libraries; `providers.py` sets no timeout of
its own.

*Card*, *Negev*, *Deploy*, *TickMessages* and *Bracket* have no liveness properties: that a
job ends is `DispatchedIsRecorded` and `StuckIsReported` of `Scheduler`.

## 5. Proofs

Eight modules, listed theorem by theorem in `PROJECT.json`. Each follows the same path: a
type invariant; a strengthening that is inductive; one lemma per action, or group of
actions; the temporal step by PTL. The assumptions on the constants are the named ASSUMEs of
the modules, which TLC evaluates in every run, unless a theorem states more.

**SchedulerProofs.** `AtMostOnce` is not inductive: a queued job says nothing of its row.
The invariant is `TypeOK /\ HasKey /\ DurableLedger /\ OneJobPerWindow /\ LedgerTruthful`. A
due or queued window has no row; no window is at two threads; a thread about to start has no
row, a thread at work has exactly one open row, and the card has gone out only if this
thread sent it, or a channel let it out while failing. From it follow at-most-once
(`DeliveredOnce`), the truth of the rows (`RowsTellTheTruth`: a row marked delivered stands
for a card that is out and a failed one for none; of a row that is ok and not marked nothing
is claimed, since nobody can tell) and `Implements`: each step claims, sends, settles or
stutters. Assumed of these: `"open" \notin Faults`, that is, the ledger file can be opened;
section 6 says what happens without. What is left then is `OneJobPerLife`, which assumes
nothing: the set in memory keeps a window from a second job until the process dies, so a
window goes out at most once per life (`cards[k] <= crashes + 1`), and the one row this life
sees of it is its own. TLC shows that no less is true: with a ledger in memory the second
life sends again. `AccountedFor` follows from it, for a ledger in either place, when opening
a row does not fail (`"start" \notin Faults`). `NothingOverlooked` needs neither: `Covered`
follows the fixtures a tick still holds in hand.

**TickMessagesProofs.** `IInv` is `TypeOK`, `Discipline`, `MarkedWasSent` and
`TickServesAll`; `Discipline` relates what the tick holds in hand to rows and messages, and
says of each message due at this tick's clock that it is served or still in hand. No
assumption on the failing calls. `MessagesKeepPromise` is the refinement.

**DeployProofs.** `Inv` has, besides the types, `TreeInv`: outside the steps between a
change of the tree and its restart the process runs the tree, or a failing pip or sync has
halted a script; `BootInv`: between a restart and its verdict the process is exactly the
tree and the venv that are checked; `GuardInv`: a running job that a guard which could ask
the ledger has missed started after it looked, or is older than the age limit (of a `blind`
guard nothing is said; section 6). The last needs that dates in order are times in order for
every length of a day (`DatesInOrder`), since the guard compares dates. All five invariants
of the run follow, for any commits, requirements, units and faults. `RollbackSucceeds` says
when the rollback does what its document promises (section 6 says that it does not always):
if no commit changes the requirements (`SameReqs`), none logs an ERROR line (`Silent`) and
no sync fails (`Synced`: after one, the next invocation takes a tree no process has run for
the version to return to). Then `CarriedInv` takes what the invocation found, a daemon that
was up, through every other failing command and respawn to the verdict on the old version. A
command that ends the script before the verdict leaves no verdict to be wrong.

**ResultsProofs.** `IInv` is `TypeOK`, `Upkeep`, `ScoreRight`. The lemma `ShootoutTakenOff`
is about the operator that splits the shootout off a full-time score. `ScoresAreRight`
covers the incomplete answers: whatever parts of a finished answer are missing, a score
other than the played one stands only where such an answer was the last word (`doubt`).
`TotalsAreTrue` shows that the engine's points over the rows (`ScoreMatch`, `Totals`) are
those of the rules written down separately over the matches (`Deserved`), for any grids,
picks and odds. `RowsForgetNothing` has one exception, Negev's NULL. The hypothesis
`PairsDiffer`, no two matches with the same teams in the same order, is what finding a row
by two names needs; it holds of a World Cup draw, not of the code. `OnlyLateFeedReopens`
gives the exact extent of the flip-flop of section 6: only an ingest whose feed does not
have the result yet opens a finished row. `RightStays` is the safety half of
`EventuallyRight`: what both sources and the row have right stays so while football-data
does not leave the result open again.

**CallsProofs.** The rate: `Metered` counts the tokens still in the bucket as calls made in
every window ending now; a refill adds no more than the time passed brings, and a call turns
a token into a call. The products are kept inside an arithmetic lemma (`WindowGrows`). The
budget: `Reserved` counts the threads that were cleared and not recorded against the
headroom of `Cardinality(Threads) - 1`, `Accounted` and `OnOneList` tie calls to rows. The
audit: `Divided` splits the chain into to come, tried and skipped at each place of a thread.
Any number of threads and providers, any rates, any interleaving.

**CardProofs.** A card says something only when its job is at `deliver`, so `HonestAudit`
alone is not inductive. `AuditOf(w)` says what the job of window w has established at each
of its places: which signals have been through, that the odds in hand are usable exactly
when they are listed as used, that there are no corrections before the news. `Frame` is the
lemma that the other windows keep it; the one thing they share there is T-60m's row, and
`PriorInv` says that it is written once, before anybody can have taken anything from it, and
then holds an answer or none (a neutral one has low confidence and is not reused).
`ReuseWeakens` is about the operators: a validated correction is validated to itself, and a
discount never makes it stronger or turns it around. `LockInv` follows the lock window's
snapshot from its quote to the row; `SpendInv` counts the calls that are cleared and not
counted yet (`InQuery`, `InRequest`) against the headroom of one per window, with the rows
the ledger dropped (`lost`) and the clearances that could not read it (`blind`) on the other
side. Any windows, budgets, texts, settings and tables; `CardAssumption` asks that T-60m
takes nothing over from itself and that the month allows a day's searches.

The two properties about what is computed, `StrongFavouriteKept` and `RiskOrdered`, are
first shown of every card in `Cards`, that is, of every way through the gate, the blend, the
ranking and the strategy (`CardStrong`, `CardOrdered`). A ranking is written as a CHOOSE of
what no other precedes; `First` shows that a strict order on a finite set has such a member,
since the order is well-founded there, and `LoopsOrder` and `AheadOrder` that the code's
sort keys are strict orders. `StrongPool`: with a strong favourite a score outside the
favourite's direction is worth nothing, so the five candidates, sorted by what they are
worth, all come from within, and so does whatever the strategy or the tilt picks among them.
`PressureSigned` and `ForceSigned`: who is behind takes risk and who leads does not,
whatever the table holds that was read for them (each read is its own, and may fail);
`Exchange` is the argument of `RiskMonotone`, that of two who maximise `value + force *
boldness` over one pool the one with a positive force never picks less boldly than the one
with a negative force. `DataInv` carries both into the state: the odds in hand are quotes
that the source may give, a correction is one the news can have produced, T-60m's row is an
answer or none, and so whatever is assembled is one of `Cards`. Assumed: `NumbersAssumption`
(prices, points and tilts are numbers, no score is likelier than its direction) and
`CandidatesAssumption` (with a strong favourite there are at least as many scores of its
direction worth something as the pool has places; in the code 36 of 81 scores against five,
each with a probability above zero).

**LeaderboardProofs.** `Watched`: a bet still to be looked at is stored as resolved only if
it was read as resolved, and the bet in hand is stored and was not alerted about. That a
store comes before its alert is what at-most-once rests on. `MirrorStays` is the safety half
of `EventuallyMirrored`: after the last publication a later run writes the same rows again
and finds nobody to remove, and the tick sees a row that is worth something (`Settled`).
What TLC adds is that a run without a failure comes about.

**NegevProofs.** `InTime`: who waits for the bucket began no longer ago than its timeout and
holds a token that outlives it. It rests on `SessionAssumption`, that the margin of the
token and its life are longer than the wait: 60 s and an hour against 30 s. Any number of
threads and operations.

Only model-checked: all liveness (`DispatchedIsRecorded`, `StuckIsReported`,
`EventuallyRight`, `EventuallyMirrored`, `CompletionsEnd`), since the prover has no
reasoning about ENABLED; of `EventuallyRight` and `EventuallyMirrored` the half that says
that it stays so is proved. Every invariant and every action property of the runs that pass
is a theorem.

## 6. What the models found

Four runs show a disagreement between the code and what the repository says of it;
their counterexamples are TLC's.

- *SchedulerLostJob.* `RunLedger.start` is called outside every `try` (`pipeline.py:44`),
  after the key was marked dispatched. If it raises, the job leaves no row, card or alert
  and is not tried again in this process; `pipeline.py:9` says "never silent".
- *DeployRollbackDown.* The rollback of a failed update resets the tree and not the
  virtual environment. A version that worked may not come up with the
  requirements of the one that failed; `docs/SCHEDULING.md:220-224` says it does.
- *ResultsFlipFlop.* `ingest()` takes the status of every answer, so a match that Negev
  has closed becomes IN_PLAY again; `sync_negev_standings.py:243` says "no more silent
  flip-flop".
- *BracketDraw.* When a seed swaps its partner to keep a group apart, the draw of the
  first knockout round forgets to ask whether the partner of a later seed is still free
  (`montecarlo.py:123`): one team has two opponents, another none;
  `tests/test_montecarlo.py:76` says "All 32 teams must appear exactly once".

Met while reading, described here and not run:

- Scheduler: a ledger that fell back to memory knows none of the earlier windows and lets
  them be sent again (`runs.py:103` against 60-61); `FAILURE_MODES.md:45` and
  `SCHEDULING.md:292-293` describe late cards and rows otherwise than the code;
  `SCHEDULING.md:16-17` gives three minutes where the catch-up is 120; `check_stuck` alerts at
  every tick while a row is old. A kickoff moved after its window fired does not fire
  again. A crash between `finish("failed")` and its alert tells nobody.
- Tick messages: `RunLedger.start` at `kickoff_cards.py:268` is outside the `try`, so a ledger
  error ends the loop over siblings ("one failure can't block the sibling",
  252-257); they are found at the next tick. A crash after the row loses the message. "Each
  match is listed in EXACTLY ONE summary" (`daily_summary.py:66-68`) is not so for a kickoff
  exactly at the hour, which both days' windows include, nor for one that is no
  longer SCHEDULED when a late summary goes out.
- Card: guardrail L5 in the docstring of the news agent halves corrections when both are at
  the cap, which no code does; `gather_context` reads `match["group"]` where the rows have
  `grp`; the delivered pick is tilted by the configured tilt, while the pick that is
  scored is the one of the gate; a feed that answers with nothing is kept for its whole
  time to live; a failed request for injuries replaces what was known by an empty list;
  the odds of a due window are fetched again at each tick until its row appears.
- Deploy: a command that fails between the pull and the restart (pip, `cp`, `daemon-reload`,
  `crontab`) ends the script with the new tree and the old process. The next invocation
  compares the tree with origin, restarts nothing and says "daemon already running latest"
  (`update.sh:346`), where 184-189 speak of self-healing after "a previous deploy that failed
  mid-sync"; `NoHalfDeploy` therefore excepts `halted`. The guard's query fails open
  (`update.sh:64-70`), so an update without `--force` may kill a job in flight, which
  `docs/SCHEDULING.md:239-240` says is detected; `OnlyUnseenJobsKilled` excepts `blind`.
  The guard's answer is old when the restart comes; the health check looks back past
  the restart and sees the errors of the version before; `.last_good_sha` is overwritten at the
  start of each invocation.
- Results: the group points are cut when `ko_pts > 0`, so not after a first knockout match
  that was called wrong; the docstring (`standings_writer.py:73`) and
  `tests/test_standings_writer.py:96-97` speak of the first one scored. A finished answer
  without its score or tally is stored with status FINISHED
  (`football_data.py:193-197`), so a partial score, or one with the shootout in it, is scored
  until a complete answer comes. Negev's copy blanks a stored shootout when its answer has
  no tally.
- Leaderboard: `is_resolved` is committed before the alert, so a failed alert is lost, while
  `sidebet_watch.py:18-19` promises exactly one and the comment at its call in
  `sync_standings` "EXACTLY once per resolution". A row of Negev's that is all zeros is
  overwritten by the tick ("NEVER clobber", `standings_writer.py:104`). The tick's own
  row, once it is not zero, counts as Negev's and is not written again until the
  next sync, although `runner.py:146-148` expects it refreshed each tick.
- Negev: `toto_save_broad_bets` writes `selections` as a whole, so a save of one category
  drops the others, where its docstring lets one pass only the categories that change;
  a page that fails ends a list as if it were complete, and the standings copy then removes
  whoever was on the next.
- Calls: a full bucket lets nearly twice the rate through in one period, as
  `EveryWindowBounded` says exactly (`ratelimit.py:3-5` speaks of the published limit); a call
  refused by the local bucket is written with its units; `_day_count` of the web search
  answers 0 when the ledger cannot be read, and `_budget_clear` of api_football then clears
  every request, so these caps fail open.

## 7. What is abstracted, what is not modelled

- Time is counted in units (about five minutes in `Scheduler`, twenty in `Card`, a refill of
  a few tokens in `Calls`); it may pass at any step of a process. SQL's comparison of times
  as text is that of the times; fractions of a second are not told apart.
- A statement of SQLite is atomic, and a transaction commits or does not.
- Messages and prompts have no content; the sources they are made of succeed or fail.
- *Scheduler*: `MaxAttempts` attempts, their backoff only as time that may pass. Window
  names and leads are constants. All channels are one: a card is out when any of them let
  it out, and "every channel fails" may leave it out or not. A call that hangs is one that never
  returns; a long one is time that passes. A tick is judged at the clock it read, so a window that
  opens while its hooks block waits for the next tick.
- *TickMessages*: one date and one list of kickoffs; the ledger is the file (the memory
  fallback is in `Scheduler`). The query of due kickoffs has no filter on status,
  neither in the code nor here.
- *Card*, *Picks*: probabilities are thousandths, corrections thousandths of a goal, odds
  tenths; the score matrix has four goals a side and no low-score correction, and the values
  of the Poisson distribution are a table. A window is dispatched once (`Scheduler` shows
  that); a job does not die, since a restart does not build a window again. A text is one
  that parses, one that parses in part, or none; the windows of the run are those that
  take something over from one another. An integer no float can hold (the OverflowError that
  the clamp does not catch) is the constant `Huge`. The odds budget fails open as well
  (`oddsapi.py:212-219`); no property depends on it. Both teams' ids and injuries are asked for,
  an id under `Variants` spellings. Standings are read once per person, each read another table
  or none; a section of advice that raises is left out of the card like one that nobody
  gets. Queries that the search keeps for five minutes are asked again here. The
  friends' picks, the wording and the spans of a card
  are display and left out.
- *Results*: a source may show a state of the match late but not one that never was, and may
  leave out any part of a finished answer, but what it says is not wrong; the feed is not
  corrected after the final whistle. Odds and picks are constants.
- *Leaderboard*: points are the number of the publication or of matches scored; only whether
  they are zero matters. The tick's upsert keeps the side and futures columns, which no
  property looks at. Rows committed by the migration of the row after them are
  modelled as committed at once: until then the writer holds the database's lock. Ranks, the
  announcement of new members (one whose row failed is announced, and announced again) and
  the summary of the job are left out.
- *Negev*: only whether a request came, and whether a list came in full; the tiers that
  resolve an option are constants.
- *Calls*: buckets belong to a process, so a cron job and a restarted daemon have
  buckets of their own; the model is of one process and does not crash. The ledger is the
  file. The word count that a token row adds is zero units.
- *Deploy*: commits are numbered along one branch; what a commit needs to come up is a
  constant relation. Not modelled: a `systemctl restart` that fails and leaves the old process,
  and a write of `.last_good_sha` that fails.
- *Bracket*: goals and shootouts are drawn from a set; what many iterations add up to
  is numerical.

Not modelled, with the reasons in `PROJECT.json`: delivery and rendering (a delivery
succeeds or fails), metrics and logging, preflight, the entry point, backup and bootstrap,
the operator's tools and audits; how strengths are fitted, the backtest, the tallies of the
simulation, and the ranking of articles, which are numerical or text.

## 8. Plan

Done, in this order: Scheduler with CardPromise, Deploy, TickMessages, Results, Calls,
Leaderboard; then Card with Feeds, News and Picks, Negev, Bracket; theorems about all but
Bracket, whose one property does not hold.

What could follow:

1. `Audit`: `post_match_audit` and its retries against the rows that the two writers of
   `Results` leave.
2. `Backup`: nightly copy, rotation, restore against a running daemon.
3. Composition of Scheduler with Calls: jobs whose completions contend for one
   bucket; the promise that a job's row is closed by a deadline.
4. An abstract specification of a leaderboard that is replaced as a whole, to say how far
   the row-by-row copy is from it.
5. The degradation of weights in the blend, and prizes, against a reference over
   bounded inputs.
