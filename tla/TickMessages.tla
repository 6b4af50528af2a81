----------------------------- MODULE TickMessages -----------------------------
(***************************************************************************)
(* The two messages the tick sends by itself, in the main thread: the daily *)
(* summary (schedule/daily_summary.py) and the kickoff cards                *)
(* (schedule/kickoff_cards.py).  Both claim their row in the runs ledger    *)
(* before they send, so a message that failed is not sent again.            *)
(*                                                                         *)
(* The process may die at any step; time may pass at any step (each message *)
(* waits for the network); every call of the ledger may raise.  The ledger  *)
(* is the file: the fallback to memory is in Scheduler.                     *)
(***************************************************************************)
EXTENDS Integers, Sequences, FiniteSets

CONSTANTS
  Matches,    \* match ids
  None,       \* "no message"
  Calendars,  \* the successive versions of the matches table
  Delay,      \* KICKOFF_DELAY_MIN
  CatchUp,    \* KICKOFF_CATCHUP_MIN
  DayLen,     \* length of a local date
  Hour,       \* hour_local: when in the day the summary is due
  MaxTime,    \* bound on the clock
  MaxCrashes, \* bound on the crashes
  Faults      \* which calls may fail, a subset of FaultKinds

Times == 0..MaxTime
Days == {t \div DayLen : t \in Times}
Messages == Matches \cup Days

\* What the text of a message is made of.
SummarySources == {"matches", "results", "standings", "leaderboard", "budget", "rows"}
KickoffSources == {"leaderboard", "picks", "lineups", "rows"}
Sources == SummarySources \cup KickoffSources

FaultKinds ==
  { "read",    \* the due matches, or was_handled, cannot be read
    "start",   \* RunLedger.start raises
    "finish",  \* RunLedger.finish raises
    "send" }   \* every channel refuses the message
  \cup Sources

ASSUME MessageConstants ==
  /\ Matches \cap Days = {} /\ None \notin Messages
  /\ Calendars \in Seq([Matches -> [ko : Nat, known : BOOLEAN]]) /\ Calendars # <<>>
  /\ Delay \in Nat /\ CatchUp \in Nat /\ DayLen \in Nat \ {0} /\ Hour \in Nat
  /\ MaxTime \in Nat /\ MaxCrashes \in Nat
  /\ Faults \subseteq FaultKinds

VARIABLES
  now,
  calendar,  \* version of the matches table
  up, crashes,
  pc,        \* where the tick is
  clock,     \* the tick's own `now`
  due,       \* kickoffs fire_due has not come to yet
  hand,      \* the message being sent
  cut,       \* hooks the database or the ledger cut short in this tick
  rows,      \* status of the row of each message, "none" without a row
  marked,    \* card_delivered of that row
  sent       \* how often the user got the message

worldVars == <<now, up, crashes>>
ledgerVars == <<rows, marked>>
vars == <<worldVars, calendar, pc, clock, due, hand, cut, ledgerVars, sent>>

Hooks == {"summary", "kickoff"}
InHandPcs == {"start", "send", "closeSent", "closeRefused", "closeFailed"}
Pcs == InHandPcs \cup {"asleep", "summary", "kickoffs", "next", "done"}

TypeOK ==
  /\ now \in Times /\ clock \in Times /\ calendar \in 1..Len(Calendars)
  /\ up \in BOOLEAN /\ crashes \in 0..MaxCrashes
  /\ pc \in Pcs /\ due \subseteq Matches /\ cut \subseteq Hooks
  /\ hand \in Messages \cup {None} /\ (hand # None <=> pc \in InHandPcs)
  /\ rows \in [Messages -> {"none", "started", "ok", "failed"}]
  /\ marked \in [Messages -> BOOLEAN]
  /\ sent \in [Messages -> Nat]

Init ==
  /\ now = 0 /\ calendar = 1 /\ up = TRUE /\ crashes = 0
  /\ pc = "asleep" /\ clock = 0 /\ due = {} /\ hand = None /\ cut = {}
  /\ rows = [m \in Messages |-> "none"]
  /\ marked = [m \in Messages |-> FALSE]
  /\ sent = [m \in Messages |-> 0]

-----------------------------------------------------------------------------
\* What is due at time t.

\* Slip: a message that failed, or is still open, is taken up again.
WasSent(m) == rows[m] = "ok"

WasHandled(m) == rows[m] # "none"

SummaryDue(t) == t % DayLen >= Hour /\ ~WasHandled(t \div DayLen)

\* Slip: the last instant of the window is left out.
KickoffWindowShort(m, t) ==
  LET ko == Calendars[calendar][m].ko IN ko + Delay <= t /\ t < ko + CatchUp

\* utc_kickoff BETWEEN now - CATCHUP AND now - DELAY
KickoffWindow(m, t) ==
  LET ko == Calendars[calendar][m].ko IN ko + Delay <= t /\ t <= ko + CatchUp

KickoffsDue(t) == {m \in Matches : /\ Calendars[calendar][m].known
                                   /\ KickoffWindow(m, t) /\ ~WasHandled(m)}

-----------------------------------------------------------------------------
\* The tick.

\* The refresh comes first; the standings update touches none of this.
TickStart ==
  /\ up /\ pc = "asleep" /\ pc' = "summary"
  /\ clock' = now /\ cut' = {}
  /\ calendar' \in calendar..Len(Calendars)
  /\ UNCHANGED <<worldVars, due, hand, ledgerVars, sent>>

\* send_if_due; an exception while reading the ledger ends the hook.
Summary ==
  /\ up /\ pc = "summary"
  /\ \/ /\ SummaryDue(clock)
        /\ pc' = "start" /\ hand' = clock \div DayLen /\ UNCHANGED cut
     \/ /\ ~SummaryDue(clock)
        /\ pc' = "kickoffs" /\ UNCHANGED <<hand, cut>>
     \/ /\ "read" \in Faults
        /\ pc' = "kickoffs" /\ cut' = cut \cup {"summary"} /\ UNCHANGED hand
  /\ UNCHANGED <<worldVars, calendar, clock, due, ledgerVars, sent>>

\* fire_due: the matches due, read once.
Kickoffs ==
  /\ up /\ pc = "kickoffs"
  /\ \/ pc' = "next" /\ due' = KickoffsDue(clock) /\ UNCHANGED cut
     \/ "read" \in Faults /\ pc' = "done" /\ cut' = cut \cup {"kickoff"} /\ UNCHANGED due
  /\ UNCHANGED <<worldVars, calendar, clock, hand, ledgerVars, sent>>

\* In the order of the kickoffs.
Pick(m) ==
  /\ up /\ pc = "next" /\ m \in due
  /\ \A n \in due : Calendars[calendar][m].ko <= Calendars[calendar][n].ko
  /\ pc' = "start" /\ hand' = m /\ due' = due \ {m}
  /\ UNCHANGED <<worldVars, calendar, clock, cut, ledgerVars, sent>>

TickEnd ==
  /\ up
  /\ \/ pc = "next" /\ due = {} /\ pc' = "done"
     \/ pc = "done" /\ pc' = "asleep"
  /\ UNCHANGED <<worldVars, calendar, clock, due, hand, cut, ledgerVars, sent>>

-----------------------------------------------------------------------------
\* One message: send_if_due, or one turn of fire_due's loop.

InLoop == hand \in Matches

Leave == /\ pc' = IF InLoop THEN "next" ELSE "kickoffs"
         /\ hand' = None /\ UNCHANGED <<due, cut>>

\* An exception out of a hook is caught by the tick.  It ends fire_due's loop.
Abort == /\ pc' = IF InLoop THEN "done" ELSE "kickoffs"
         /\ hand' = None /\ due' = {}
         /\ cut' = cut \cup {IF InLoop THEN "kickoff" ELSE "summary"}

\* RunLedger.start is outside the try.
Start ==
  /\ up /\ pc = "start"
  /\ \/ /\ rows' = [rows EXCEPT ![hand] = "started"]
        /\ pc' = "send" /\ UNCHANGED <<due, hand, cut>>
     \/ "start" \in Faults /\ Abort /\ UNCHANGED rows
  /\ UNCHANGED <<worldVars, calendar, clock, marked, sent>>

Delivered == sent' = [sent EXCEPT ![hand] = @ + 1] /\ pc' = "closeSent" /\ UNCHANGED due

\* A source that fails is caught where it is read and its lines are left out of the
\* text.  Not caught there: the budget, which is read from the ledger, and rows of an
\* answer that the rendering cannot read.
Raises(broken) == broken \cap {"budget", "rows"} # {}

Broken == SUBSET (Faults \cap IF InLoop THEN KickoffSources ELSE SummarySources)

Send ==
  /\ up /\ pc = "send"
  /\ \E broken \in Broken :
       \/ ~Raises(broken) /\ Delivered
       \/ ~Raises(broken) /\ "send" \in Faults /\ pc' = "closeRefused" /\ UNCHANGED <<due, sent>>
       \/ Raises(broken) /\ pc' = "closeFailed" /\ UNCHANGED <<due, sent>>
  /\ UNCHANGED <<worldVars, calendar, clock, hand, cut, ledgerVars>>

Record(st, del) ==
  /\ rows' = [rows EXCEPT ![hand] = st]
  /\ marked' = [marked EXCEPT ![hand] = del]
  /\ Leave

\* Slip: the row says ok whatever the channels said.
CloseOk ==
  /\ up /\ pc \in {"closeSent", "closeRefused"}
  /\ Record("ok", TRUE)
  /\ UNCHANGED <<worldVars, calendar, clock, sent>>

\* Slip: a status nobody knows.
CloseDelivered ==
  /\ up /\ pc \in {"closeSent", "closeRefused"}
  /\ Record(IF pc = "closeSent" THEN "delivered" ELSE "failed", pc = "closeSent")
  /\ UNCHANGED <<worldVars, calendar, clock, sent>>

\* finish() is inside the try: if it raises, the except branch closes the row 'failed'.
Close ==
  /\ up /\ pc \in {"closeSent", "closeRefused"}
  /\ \/ Record(IF pc = "closeSent" THEN "ok" ELSE "failed", pc = "closeSent")
     \/ "finish" \in Faults /\ pc' = "closeFailed" /\ UNCHANGED <<ledgerVars, hand, due, cut>>
  /\ UNCHANGED <<worldVars, calendar, clock, sent>>

\* The finish() of the except branch is not protected.
CloseFailed ==
  /\ up /\ pc = "closeFailed"
  /\ \/ Record("failed", FALSE)
     \/ "finish" \in Faults /\ Abort /\ UNCHANGED ledgerVars
  /\ UNCHANGED <<worldVars, calendar, clock, sent>>

-----------------------------------------------------------------------------
\* The process and the clock.

Crash ==
  /\ up /\ crashes < MaxCrashes
  /\ up' = FALSE /\ crashes' = crashes + 1
  /\ pc' = "asleep" /\ due' = {} /\ hand' = None
  /\ UNCHANGED <<now, calendar, clock, cut, ledgerVars, sent>>

Restart == /\ ~up /\ up' = TRUE
           /\ UNCHANGED <<now, crashes, calendar, pc, clock, due, hand, cut, ledgerVars, sent>>

Advance == /\ now < MaxTime /\ now' = now + 1
           /\ UNCHANGED <<up, crashes, calendar, pc, clock, due, hand, cut, ledgerVars, sent>>

Tick == \/ TickStart \/ Summary \/ Kickoffs \/ TickEnd
        \/ \E m \in Matches : Pick(m)
        \/ Start \/ Send \/ Close \/ CloseFailed

Next == Tick \/ Crash \/ Restart \/ Advance

Spec == Init /\ [][Next]_vars

-----------------------------------------------------------------------------
\* Correctness.

\* The row read as the life of the message: claimed, sent at most once while it is
\* open, never sent before or after, across any number of restarts ("never send twice
\* per day, even across restarts", daily_summary.py:14; kickoff_cards.py:19).
Phase == [m \in Messages |-> IF rows[m] = "none" THEN "open"
                             ELSE IF rows[m] = "started" THEN "claimed" ELSE "settled"]
Promise == INSTANCE CardPromise WITH Jobs <- Messages, phase <- Phase
KeepsPromise == Promise!Spec

\* What runs.card_delivered says was delivered was delivered, and a row is 'ok' exactly
\* when it says so.  (A 'failed' row may still have been sent, if finish() raised.)
MarkedWasSent == \A m \in Messages : /\ marked[m] => sent[m] = 1
                                     /\ rows[m] = "ok" <=> marked[m]

\* What the tick has in hand: kickoffs it still holds have no row, a message about to be
\* claimed has none either, one being sent is 'started' and was sent if its pc says so.
InHand ==
  /\ \A m \in due : rows[m] = "none" /\ m # hand
  /\ pc \in {"asleep", "summary", "kickoffs", "done"} \/ hand \in Days => due = {}
  /\ hand \in Days => hand = clock \div DayLen
  /\ pc = "start" => rows[hand] = "none"
  /\ pc \in InHandPcs \ {"start"} => rows[hand] = "started"
  /\ pc \in {"send", "closeRefused"} => sent[hand] = 0
  /\ pc = "closeSent" => sent[hand] = 1

\* Nothing is sent without a row, nothing is sent twice.
SentOnce == \A m \in Messages : sent[m] <= 1 /\ (rows[m] = "none" => sent[m] = 0)

\* A tick that ends leaves nothing behind: if the summary hook was not cut short by the
\* database, the summary of a day past its hour is on record, whatever happened to the
\* kickoff cards, and conversely for every match in its kickoff window; a message that
\* could not be sent does not stand in the way of the next one.
SummaryServed ==
  "summary" \notin cut /\ clock % DayLen >= Hour => rows[clock \div DayLen] # "none"

KickoffServed(m) ==
  LET f == Calendars[calendar][m]
  IN  f.known /\ clock - f.ko \in Delay..CatchUp => rows[m] # "none"

TickServesAll ==
  pc = "done" => SummaryServed /\ ("kickoff" \notin cut => \A m \in Matches : KickoffServed(m))

\* On the way there: served already, or still in hand.
ServedSoFar ==
  /\ pc \in {"asleep", "summary"} \/ hand \in Days \/ SummaryServed
  /\ pc = "next" \/ hand \in Matches =>
       \A m \in Matches : m \in due \/ m = hand \/ KickoffServed(m)

\* The inductive invariant behind the three properties above.
Discipline == InHand /\ SentOnce /\ ServedSoFar
=============================================================================
