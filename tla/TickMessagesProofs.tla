-------------------------- MODULE TickMessagesProofs --------------------------
(***************************************************************************)
(* Theorems about TickMessages, for all constants, all failing calls and    *)
(* any number of crashes.  Safety follows from one inductive invariant,     *)
(* Discipline: the tick claims no message that has a row, and what it holds *)
(* is as far as its pc says.                                                *)
(***************************************************************************)
EXTENDS TickMessages, TLAPS

LEMMA DayIsMessage ==
  ASSUME NEW t \in Times
  PROVE t \div DayLen \in Days /\ t \div DayLen \in Messages
BY DEF Days, Messages

LEMMA NoneIsNoMessage == \A m \in Messages : m # None
BY MessageConstants

\* However the text comes about, the message is sent, refused, or not sent at all.
LEMMA SendEnds ==
  Send => /\ up /\ pc = "send"
          /\ UNCHANGED <<worldVars, calendar, clock, hand, due, cut, ledgerVars>>
          /\ \/ sent' = [sent EXCEPT ![hand] = @ + 1] /\ pc' = "closeSent"
             \/ sent' = sent /\ pc' \in {"closeRefused", "closeFailed"}
BY DEF Send, Delivered

LEMMA TypeInit == Init => TypeOK
BY MessageConstants DEF Init, TypeOK, Pcs, InHandPcs, Times

LEMMA TypeNext == TypeOK /\ [Next]_vars => TypeOK'
<1> SUFFICES ASSUME TypeOK, [Next]_vars PROVE TypeOK'
  OBVIOUS
<1> USE MessageConstants, NoneIsNoMessage DEF TypeOK, worldVars, ledgerVars, Pcs, InHandPcs
<1>1. CASE TickStart
  BY <1>1 DEF TickStart
<1>2. CASE Summary
  BY <1>2, DayIsMessage DEF Summary, Hooks
<1>3. CASE Kickoffs
  BY <1>3 DEF Kickoffs, KickoffsDue, Hooks
<1>4. CASE TickEnd
  BY <1>4 DEF TickEnd
<1>5. ASSUME NEW m \in Matches, Pick(m) PROVE TypeOK'
  BY <1>5 DEF Pick, Messages
<1>6. CASE Start
  BY <1>6 DEF Start, Abort, Hooks, InLoop
<1>7. CASE Send
  <2>1. /\ UNCHANGED <<now, up, crashes, calendar, clock, hand, due, cut, rows, marked>>
        /\ hand # None
        /\ hand \in Messages
    BY <1>7, SendEnds
  <2>2. sent' \in [Messages -> Nat] /\ pc' \in {"closeSent", "closeRefused", "closeFailed"}
    BY <1>7, <2>1, SendEnds
  <2> QED
    BY <2>1, <2>2
<1>8. CASE Close
  BY <1>8 DEF Close, Record, Leave, InLoop
<1>9. CASE CloseFailed
  BY <1>9 DEF CloseFailed, Record, Leave, Abort, InLoop, Hooks
<1>10. CASE Crash
  <2>1. crashes' \in 0..MaxCrashes
    BY <1>10 DEF Crash
  <2> QED
    BY <1>10, <2>1 DEF Crash
<1>11. CASE Restart
  BY <1>11 DEF Restart
<1>12. CASE Advance
  <2>1. now' \in Times
    BY <1>12 DEF Advance, Times
  <2> QED
    BY <1>12, <2>1 DEF Advance
<1>13. CASE UNCHANGED vars
  BY <1>13 DEF vars
<1> QED
  BY <1>1, <1>2, <1>3, <1>4, <1>5, <1>6, <1>7, <1>8, <1>9, <1>10, <1>11, <1>12, <1>13
  DEF Next, Tick

\* The type invariant of the two message hooks, whatever fails.
THEOREM TypeCorrect == Spec => []TypeOK
BY TypeInit, TypeNext, PTL DEF Spec
-----------------------------------------------------------------------------
\* The world moves, the tick stands still.
World == Restart \/ Advance \/ UNCHANGED vars

LEMMA WorldKeeps ==
  World => UNCHANGED <<calendar, pc, clock, due, hand, cut, rows, marked, sent>>
BY DEF World, Restart, Advance, vars, worldVars, ledgerVars

\* The case split every step proof below starts from.
LEMMA Steps ==
  [Next]_vars => \/ TickStart \/ Summary \/ Kickoffs \/ TickEnd
                 \/ \E m \in Matches : Pick(m)
                 \/ Start \/ Send \/ Close \/ CloseFailed \/ Crash \/ World
BY DEF Next, Tick, World

LEMMA InHandNext == TypeOK /\ InHand /\ SentOnce /\ [Next]_vars => InHand'
<1> SUFFICES ASSUME TypeOK, InHand, SentOnce, [Next]_vars PROVE InHand'
  OBVIOUS
<1> USE MessageConstants, NoneIsNoMessage DEF TypeOK, InHand, ledgerVars, InHandPcs, Messages
<1>1. CASE TickStart
  BY <1>1 DEF TickStart
<1>2. CASE Summary
  BY <1>2, DayIsMessage DEF Summary, SummaryDue, WasHandled
<1>3. CASE Kickoffs
  BY <1>3 DEF Kickoffs, KickoffsDue, WasHandled
<1>4. CASE TickEnd
  BY <1>4 DEF TickEnd
<1>5. ASSUME NEW m \in Matches, Pick(m) PROVE InHand'
  BY <1>5 DEF Pick
<1>6. CASE Start
  BY <1>6 DEF Start, Abort, InLoop, SentOnce
<1>7. CASE Send
  BY <1>7 DEF Send, Delivered
<1>8. CASE Close
  BY <1>8 DEF Close, Record, Leave, InLoop
<1>9. CASE CloseFailed
  BY <1>9 DEF CloseFailed, Record, Leave, Abort, InLoop
<1>10. CASE Crash
  BY <1>10 DEF Crash
<1>11. CASE World
  BY <1>11, WorldKeeps
<1> QED
  BY <1>1, <1>2, <1>3, <1>4, <1>5, <1>6, <1>7, <1>8, <1>9, <1>10, <1>11, Steps

LEMMA SentOnceNext == TypeOK /\ InHand /\ SentOnce /\ [Next]_vars => SentOnce'
<1> SUFFICES ASSUME TypeOK, InHand, SentOnce, [Next]_vars PROVE SentOnce'
  OBVIOUS
<1> USE NoneIsNoMessage DEF TypeOK, SentOnce, ledgerVars
<1>1. CASE TickStart \/ Summary \/ Kickoffs \/ TickEnd \/ \E m \in Matches : Pick(m)
  BY <1>1 DEF TickStart, Summary, Kickoffs, TickEnd, Pick
<1>2. CASE Start
  BY <1>2 DEF Start
<1>3. CASE Send
  BY <1>3 DEF Send, Delivered, InHand, InHandPcs
<1>4. CASE Close \/ CloseFailed
  BY <1>4 DEF Close, CloseFailed, Record
<1>5. CASE Crash
  BY <1>5 DEF Crash
<1>6. CASE World
  BY <1>6, WorldKeeps
<1> QED
  BY <1>1, <1>2, <1>3, <1>4, <1>5, <1>6, Steps

LEMMA MarkedNext == TypeOK /\ InHand /\ MarkedWasSent /\ [Next]_vars => MarkedWasSent'
<1> SUFFICES ASSUME TypeOK, InHand, MarkedWasSent, [Next]_vars PROVE MarkedWasSent'
  OBVIOUS
<1> USE NoneIsNoMessage DEF TypeOK, MarkedWasSent, ledgerVars
<1>1. CASE TickStart \/ Summary \/ Kickoffs \/ TickEnd \/ \E m \in Matches : Pick(m)
  BY <1>1 DEF TickStart, Summary, Kickoffs, TickEnd, Pick
<1>2. CASE Start
  BY <1>2 DEF Start, InHand, InHandPcs
<1>3. CASE Send
  BY <1>3 DEF Send, Delivered, InHand, InHandPcs
<1>4. CASE Close
  BY <1>4 DEF Close, Record, InHand, InHandPcs
<1>5. CASE CloseFailed
  BY <1>5 DEF CloseFailed, Record, InHand, InHandPcs
<1>6. CASE Crash
  BY <1>6 DEF Crash
<1>7. CASE World
  BY <1>7, WorldKeeps
<1> QED
  BY <1>1, <1>2, <1>3, <1>4, <1>5, <1>6, <1>7, Steps

-----------------------------------------------------------------------------
\* No message ever loses its row, so what was served stays served.
RowsStay == \A m \in Messages : rows[m] # "none" => rows'[m] # "none"

LEMMA RowsNeverGo == TypeOK /\ [Next]_vars => RowsStay
<1> SUFFICES ASSUME TypeOK, [Next]_vars PROVE RowsStay
  OBVIOUS
<1> USE NoneIsNoMessage DEF TypeOK, RowsStay, ledgerVars
<1>1. CASE TickStart \/ Summary \/ Kickoffs \/ TickEnd \/ \E m \in Matches : Pick(m)
  BY <1>1 DEF TickStart, Summary, Kickoffs, TickEnd, Pick
<1>2. CASE Start \/ Send
  BY <1>2 DEF Start, Send
<1>3. CASE Close \/ CloseFailed
  BY <1>3 DEF Close, CloseFailed, Record
<1>4. CASE Crash \/ World
  BY <1>4, WorldKeeps DEF Crash
<1> QED
  BY <1>1, <1>2, <1>3, <1>4, Steps

LEMMA ServedStays ==
  TypeOK /\ RowsStay /\ UNCHANGED <<calendar, clock>> /\ cut \subseteq cut' =>
    /\ SummaryServed => SummaryServed'
    /\ \A m \in Matches : KickoffServed(m) => KickoffServed(m)'
BY DayIsMessage DEF TypeOK, RowsStay, SummaryServed, KickoffServed, Messages

\* A row of the calendar is a kickoff time.
LEMMA CalendarRow ==
  ASSUME TypeOK, NEW m \in Matches
  PROVE Calendars[calendar][m].ko \in Nat
BY MessageConstants DEF TypeOK

LEMMA ServedNext == TypeOK /\ InHand /\ ServedSoFar /\ [Next]_vars => ServedSoFar'
<1> SUFFICES ASSUME TypeOK, InHand, ServedSoFar, [Next]_vars PROVE ServedSoFar'
  OBVIOUS
<1> USE MessageConstants, NoneIsNoMessage DEF TypeOK, ServedSoFar, InHandPcs, Messages
<1>1. CASE TickStart
  BY <1>1 DEF TickStart
<1>2. CASE Summary
  <2>1. CASE pc' = "start"
    BY <1>2, <2>1, DayIsMessage DEF Summary
  <2>2. CASE pc' = "kickoffs" /\ ~SummaryDue(clock)
    BY <1>2, <2>2, DayIsMessage DEF Summary, SummaryDue, WasHandled, SummaryServed, ledgerVars
  <2>3. CASE pc' = "kickoffs" /\ cut' = cut \cup {"summary"}
    BY <1>2, <2>3 DEF Summary, SummaryServed
  <2> QED
    BY <1>2, <2>1, <2>2, <2>3 DEF Summary
<1>3. CASE Kickoffs
  <2>1. SummaryServed' /\ hand' = None
    BY <1>3, ServedStays, RowsNeverGo DEF Kickoffs
  <2>2. ASSUME pc' = "next", NEW m \in Matches, m \notin due' PROVE KickoffServed(m)'
    BY <1>3, <2>2, CalendarRow
    DEF Kickoffs, KickoffsDue, KickoffWindow, WasHandled, KickoffServed, ledgerVars, Times
  <2> QED
    BY <1>3, <2>1, <2>2
<1>4. CASE TickEnd
  BY <1>4, ServedStays, RowsNeverGo DEF TickEnd
<1>5. ASSUME NEW m \in Matches, Pick(m) PROVE ServedSoFar'
  BY <1>5, ServedStays, RowsNeverGo DEF Pick
<1>6. CASE Start
  BY <1>6, ServedStays, RowsNeverGo DEF Start, Abort, InLoop, SummaryServed
<1>7. CASE Send
  BY <1>7, ServedStays, RowsNeverGo DEF Send, Delivered
<1>8. CASE Close
  BY <1>8, ServedStays, RowsNeverGo DEF Close, Record, Leave, InLoop, InHand, KickoffServed, SummaryServed, ledgerVars
<1>9. CASE CloseFailed
  BY <1>9, ServedStays, RowsNeverGo DEF CloseFailed, Record, Leave, Abort, InLoop, InHand, KickoffServed, SummaryServed, ledgerVars
<1>10. CASE Crash
  BY <1>10 DEF Crash
<1>11. CASE World
  BY <1>11, WorldKeeps DEF SummaryServed, KickoffServed
<1> QED
  BY <1>1, <1>2, <1>3, <1>4, <1>5, <1>6, <1>7, <1>8, <1>9, <1>10, <1>11, Steps

LEMMA ServesAllNext ==
  TypeOK /\ InHand /\ ServedSoFar /\ TickServesAll /\ [Next]_vars => TickServesAll'
<1> SUFFICES ASSUME TypeOK, InHand, ServedSoFar, TickServesAll, [Next]_vars, pc' = "done"
             PROVE /\ SummaryServed'
                   /\ "kickoff" \notin cut' => \A m \in Matches : KickoffServed(m)'
  BY DEF TickServesAll
<1> USE MessageConstants, NoneIsNoMessage DEF TypeOK, ServedSoFar, InHandPcs, Messages
<1>1. CASE TickStart \/ Summary \/ Send \/ Crash \/ \E m \in Matches : Pick(m)
  BY <1>1 DEF TickStart, Summary, Send, Delivered, Crash, Pick
<1>2. CASE Kickoffs
  BY <1>2, ServedStays, RowsNeverGo DEF Kickoffs
<1>3. CASE TickEnd
  BY <1>3, ServedStays, RowsNeverGo DEF TickEnd
<1>4. CASE Start
  BY <1>4, ServedStays, RowsNeverGo DEF Start, Abort, InLoop
<1>5. CASE Close
  BY <1>5 DEF Close, Record, Leave
<1>6. CASE CloseFailed
  BY <1>6, ServedStays, RowsNeverGo DEF CloseFailed, Record, Leave, Abort, InLoop
<1>7. CASE World
  BY <1>7, WorldKeeps DEF TickServesAll, SummaryServed, KickoffServed
<1> QED
  BY <1>1, <1>2, <1>3, <1>4, <1>5, <1>6, <1>7, Steps

-----------------------------------------------------------------------------
\* The inductive invariant: none of its parts is inductive alone.
IInv == TypeOK /\ Discipline /\ MarkedWasSent /\ TickServesAll

LEMMA IInvInit == Init => IInv
<1> SUFFICES ASSUME Init PROVE IInv
  OBVIOUS
<1>1. TypeOK
  BY TypeInit
<1>2. Discipline
  BY MessageConstants, NoneIsNoMessage
  DEF Init, Discipline, InHand, SentOnce, ServedSoFar, InHandPcs, Messages
<1>3. MarkedWasSent /\ TickServesAll
  BY DEF Init, MarkedWasSent, TickServesAll
<1> QED
  BY <1>1, <1>2, <1>3 DEF IInv

LEMMA IInvNext == IInv /\ [Next]_vars => IInv'
BY TypeNext, InHandNext, SentOnceNext, ServedNext, MarkedNext, ServesAllNext
DEF IInv, Discipline

LEMMA IInvAlways == Spec => []IInv
BY IInvInit, IInvNext, PTL DEF Spec

\* At every instant what the tick holds agrees with the ledger and with what was
\* sent, and nobody gets the same message twice, however often the process dies.
THEOREM DisciplineHolds == Spec => []Discipline
BY IInvAlways, PTL DEF IInv

\* A row that says delivered is the row of a message that was delivered.
THEOREM LedgerIsTruthful == Spec => []MarkedWasSent
BY IInvAlways, PTL DEF IInv

\* A tick leaves no summary and no kickoff card behind, unless the database stopped
\* the hook itself: one message's failure never costs another one.
THEOREM NothingLeftBehind == Spec => []TickServesAll
BY IInvAlways, PTL DEF IInv

-----------------------------------------------------------------------------
\* Each message keeps the promise of a card: claimed once, sent only while claimed,
\* settled for good.
THEOREM MessagesKeepPromise == Spec => KeepsPromise
<1> USE DEF Promise!vars
<1>1. Init => Promise!Init
  BY DEF Init, Promise!Init, Phase
<1>2. IInv /\ [Next]_vars => [Promise!Next]_(Promise!vars)
  <2> SUFFICES ASSUME IInv, [Next]_vars PROVE [Promise!Next]_(Promise!vars)
    OBVIOUS
  <2> USE NoneIsNoMessage DEF IInv, TypeOK, Discipline, InHand, InHandPcs, ledgerVars
  <2>1. CASE TickStart \/ Summary \/ Kickoffs \/ TickEnd \/ \E m \in Matches : Pick(m)
    BY <2>1 DEF TickStart, Summary, Kickoffs, TickEnd, Pick, Phase
  <2>2. CASE Crash \/ World
    BY <2>2, WorldKeeps DEF Crash, Phase
  <2>3. CASE Start
    <3>1. hand \in Messages /\ rows[hand] = "none" /\ UNCHANGED sent
      BY <2>3 DEF Start
    <3>2. CASE rows' = rows
      BY <3>1, <3>2 DEF Phase
    <3>3. CASE rows' = [rows EXCEPT ![hand] = "started"]
      <4>1. Phase[hand] = "open" /\ Phase' = [Phase EXCEPT ![hand] = "claimed"]
        BY <3>1, <3>3 DEF Phase
      <4>2. Promise!Claim(hand)
        BY <3>1, <4>1 DEF Promise!Claim
      <4> QED
        BY <3>1, <4>2 DEF Promise!Next
    <3> QED
      BY <2>3, <3>2, <3>3 DEF Start
  <2>4. CASE Send
    <3>1. UNCHANGED Phase
      BY <2>4 DEF Send, Phase
    <3>2. CASE sent' = sent
      BY <3>1, <3>2
    <3>3. CASE Delivered
      <4>1. hand \in Messages /\ rows[hand] = "started" /\ sent[hand] = 0
        BY <2>4 DEF Send
      <4>2. Phase[hand] = "claimed"
        BY <4>1 DEF Phase
      <4>3. sent' = [sent EXCEPT ![hand] = 1]
        BY <3>3, <4>1 DEF Delivered
      <4>4. Promise!Send(hand)
        BY <3>1, <4>1, <4>2, <4>3 DEF Promise!Send
      <4> QED
        BY <4>1, <4>4 DEF Promise!Next
    <3> QED
      BY <2>4, <3>2, <3>3 DEF Send
  <2>5. CASE Close \/ CloseFailed
    <3>1. UNCHANGED sent
      BY <2>5 DEF Close, CloseFailed
    <3>2. CASE rows' = rows
      BY <3>1, <3>2 DEF Phase
    <3>3. ASSUME NEW st \in {"ok", "failed"}, NEW del \in BOOLEAN, Record(st, del)
          PROVE  [Promise!Next]_(Promise!vars)
      <4>1. hand \in Messages /\ rows[hand] = "started"
        BY <2>5 DEF Close, CloseFailed
      <4>2. Phase[hand] = "claimed"
        BY <4>1 DEF Phase
      <4>3. Phase' = [Phase EXCEPT ![hand] = "settled"]
        BY <3>3, <4>1 DEF Phase, Record
      <4>4. Promise!Settle(hand)
        BY <3>1, <4>2, <4>3 DEF Promise!Settle
      <4> QED
        BY <4>1, <4>4 DEF Promise!Next
    <3> QED
      BY <2>5, <3>2, <3>3 DEF Close, CloseFailed
  <2> QED
    BY <2>1, <2>2, <2>3, <2>4, <2>5, Steps
<1> QED
  BY <1>1, <1>2, IInvAlways, PTL DEF Spec, KeepsPromise, Promise!Spec
=============================================================================
