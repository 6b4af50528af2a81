----------------------------- MODULE Leaderboard -----------------------------
(***************************************************************************)
(* The standings table and its two writers, and the watch on side bets.    *)
(*                                                                         *)
(* A cron job copies Negev's leaderboard row by row, removes who has left, *)
(* and then looks for side bets that have been resolved; a lock lets one   *)
(* run at a time, and a time limit may kill it anywhere.  The scheduler's  *)
(* tick, in another process, computes Me's points from the results and     *)
(* stores them as long as there is nothing of Negev's to keep.             *)
(*                                                                         *)
(* Points are not computed here: a row of Negev's is the number of the     *)
(* publication it was taken from, a row of the tick the number of matches  *)
(* it has scored.  Both are worth nothing before a first publication or    *)
(* match that pays.                                                        *)
(***************************************************************************)
EXTENDS Integers, FiniteSets

CONSTANTS Players, Me,
          Bets, NoBet,              \* side bets; none of them
          NegevPays, LocalPays,     \* first publication, match that pays Me
          MaxVersion, MaxScored,    \* bounds on publications and matches
          MaxFaults                 \* bound on failing calls and kills

ASSUME PlayersAssumption == Me \in Players /\ NoBet \notin Bets
ASSUME PaysAssumption == NegevPays \in Nat \ {0} /\ LocalPays \in Nat \ {0}
ASSUME BoundsAssumption == /\ MaxVersion \in Nat /\ MaxScored \in Nat
                           /\ MaxFaults \in Nat

VARIABLES version, roster,     \* Negev's leaderboard: publication, members
          resolved,            \* side bets resolved at Negev
          members, at, mine,   \* standings: whose rows there are, taken when;
                               \* the writer of Me's row
          pc, got, gotRoster,  \* the job: where it is, what it fetched,
          todo, done,          \* rows to write, rows written
          shells, known,       \* answer about the bets; state read with it
          left, bet,           \* bets to look at; the one to alert about
          state, notified,     \* side_bet_state: is_resolved, notified_at
          scored, dpc, total,  \* the tick: matches scored; what it will write
          faults, alerts       \* history: failures, alerts sent per bet

negev == <<version, roster, resolved>>
table == <<members, at, mine>>
fetch == <<got, gotRoster, todo, done>>
scan == <<shells, known, left, bet>>
watch == <<state, notified, alerts>>
daemon == <<scored, dpc, total>>
vars == <<version, roster, resolved, members, at, mine, pc, got, gotRoster,
          todo, done, shells, known, left, bet, state, notified, scored, dpc,
          total, faults, alerts>>

Writers == {"nobody", "negev", "local"}
Seen == {"unseen", "open", "resolved"}

Init == /\ version = 1 /\ roster = Players /\ resolved = {}
        /\ members = {} /\ at = [p \in Players |-> 0] /\ mine = "nobody"
        /\ pc = "idle" /\ got = 0 /\ gotRoster = {} /\ todo = {} /\ done = {}
        /\ shells = {} /\ known = {} /\ left = {} /\ bet = NoBet
        /\ state = [b \in Bets |-> "unseen"] /\ notified = {}
        /\ scored = 0 /\ dpc = "idle" /\ total = 0
        /\ faults = 0 /\ alerts = [b \in Bets |-> 0]

Fault == faults < MaxFaults /\ faults' = faults + 1

(***************************************************************************)
(* The world: Negev publishes points and members; a bet is resolved; a     *)
(* match is over and has been scored here.                                 *)
(***************************************************************************)
Publish == /\ version < MaxVersion
           /\ version' = version + 1
           /\ roster' \in SUBSET Players \ {{}}
           /\ UNCHANGED <<resolved, table, pc, fetch, scan, watch, daemon, faults>>

Resolve(b) == /\ b \notin resolved
              /\ resolved' = resolved \cup {b}
              /\ UNCHANGED <<version, roster, table, pc, fetch, scan, watch,
                             daemon, faults>>

Whistle == /\ scored < MaxScored
           /\ scored' = scored + 1
           /\ UNCHANGED <<negev, table, pc, fetch, scan, watch, dpc, total, faults>>

(***************************************************************************)
(* The job takes the whole leaderboard in one answer.  When the call fails *)
(* the run is over.                                                        *)
(***************************************************************************)
Fetch == /\ pc = "idle"
         /\ got' = version /\ gotRoster' = roster
         /\ todo' = roster /\ done' = {}
         /\ pc' = "writing"
         /\ UNCHANGED <<negev, table, scan, watch, daemon, faults>>

(***************************************************************************)
(* Each row is committed on its own, so readers and the tick see the table *)
(* half copied.  A row that cannot be written is passed over.              *)
(***************************************************************************)
\* Slip: a row that is there already is left as it is.
UpsertIgnores(p) == /\ pc = "writing" /\ p \in todo
                    /\ members' = members \cup {p}
                    /\ at' = IF p \in members THEN at ELSE [at EXCEPT ![p] = got]
                    /\ mine' = IF p = Me /\ p \notin members THEN "negev" ELSE mine
                    /\ todo' = todo \ {p} /\ done' = done \cup {p}
                    /\ UNCHANGED <<negev, pc, got, gotRoster, scan, watch, daemon,
                                   faults>>

Upsert(p) == /\ pc = "writing" /\ p \in todo
             /\ members' = members \cup {p}
             /\ at' = [at EXCEPT ![p] = got]
             /\ mine' = IF p = Me THEN "negev" ELSE mine
             /\ todo' = todo \ {p} /\ done' = done \cup {p}
             /\ UNCHANGED <<negev, pc, got, gotRoster, scan, watch, daemon, faults>>

UpsertFails(p) == /\ pc = "writing" /\ p \in todo
                  /\ Fault
                  /\ todo' = todo \ {p}
                  /\ UNCHANGED <<negev, table, pc, got, gotRoster, done, scan,
                                 watch, daemon>>

(***************************************************************************)
(* Who is in the table and not in the answer is removed, but never Me; and *)
(* nobody, if no row could be written.  When a removal fails those before  *)
(* it are still committed, with whatever the run writes next.              *)
(***************************************************************************)
\* Slip: Me's row is like any other.
StaleAll == members \ gotRoster

Stale == members \ (gotRoster \cup {Me})

Prune == /\ pc = "writing" /\ todo = {}
         /\ \/ done # {} /\ members' = members \ Stale /\ UNCHANGED faults
            \/ done = {} /\ UNCHANGED <<members, faults>>
            \/ done # {} /\ Fault /\ \E gone \in SUBSET Stale : members' = members \ gone
         /\ pc' = "pruned"
         /\ UNCHANGED <<negev, at, mine, fetch, scan, watch, daemon>>

(***************************************************************************)
(* The side bets.  What Negev says of all of them, and what the table says,*)
(* is read once; then each bet is stored, and committed, before the alert  *)
(* about it is sent.                                                       *)
(***************************************************************************)
Scan == /\ pc = "pruned"
        /\ shells' = resolved
        /\ known' = {b \in Bets : state[b] = "resolved"}
        /\ left' = Bets
        /\ pc' = "bets"
        /\ UNCHANGED <<negev, table, fetch, bet, watch, daemon, faults>>

ScanFails == /\ pc = "pruned" /\ Fault
             /\ pc' = "idle"
             /\ UNCHANGED <<negev, table, fetch, scan, watch, daemon>>

\* Slip: new is what has not been noted as sent.
IsNewUntilNoted(b) == b \in shells /\ b \notin notified

IsNew(b) == b \in shells /\ b \notin known

Persist(b) == /\ pc = "bets" /\ b \in left
              /\ state' = [state EXCEPT ![b] =
                             IF b \in shells THEN "resolved" ELSE "open"]
              /\ left' = left \ {b}
              /\ bet' = IF IsNew(b) THEN b ELSE bet
              /\ pc' = IF IsNew(b) THEN "alerting" ELSE pc
              /\ UNCHANGED <<negev, table, fetch, shells, known, notified,
                             alerts, daemon, faults>>

PersistFails(b) == /\ pc = "bets" /\ b \in left
                   /\ Fault
                   /\ left' = left \ {b}
                   /\ UNCHANGED <<negev, table, pc, fetch, shells, known, bet,
                                  watch, daemon>>

(***************************************************************************)
(* The alert goes out and is noted; or goes out and cannot be noted; or    *)
(* does not go out.                                                        *)
(***************************************************************************)
Alert == /\ pc = "alerting"
         /\ \/ /\ alerts' = [alerts EXCEPT ![bet] = @ + 1]
               /\ \/ notified' = notified \cup {bet} /\ UNCHANGED faults
                  \/ Fault /\ UNCHANGED notified
            \/ Fault /\ UNCHANGED <<alerts, notified>>
         /\ bet' = NoBet
         /\ pc' = "bets"
         /\ UNCHANGED <<negev, table, fetch, shells, known, left, state, daemon>>

Finish == /\ pc = "bets" /\ left = {}
          /\ pc' = "idle"
          /\ UNCHANGED <<negev, table, fetch, scan, watch, daemon, faults>>

(***************************************************************************)
(* The time limit of the cron line, a reboot, a failed fetch: the run ends *)
(* where it is.                                                            *)
(***************************************************************************)
Killed == /\ pc # "idle" /\ Fault
          /\ pc' = "idle" /\ bet' = NoBet
          /\ UNCHANGED <<negev, table, fetch, shells, known, left, watch, daemon>>

(***************************************************************************)
(* The tick computes Me's points, reads Me's row, and writes unless it has *)
(* scored nothing or the row is worth something.  The read and the write   *)
(* are statements of their own: seldom, the job writes between them, which *)
(* counts as a fault.                                                      *)
(***************************************************************************)
WorthSomething == /\ Me \in members
                  /\ \/ mine = "negev" /\ at[Me] >= NegevPays
                     \/ mine = "local" /\ at[Me] >= LocalPays

\* Slip: a row of zeros is written before any match has been scored.
MayWriteZero == ~WorthSomething

\* Slip: Negev's points do not stop the tick.
MayWriteAlways == scored # 0

MayWrite == scored # 0 /\ ~WorthSomething

Store(points) == /\ members' = members \cup {Me}
                 /\ at' = [at EXCEPT ![Me] = points]
                 /\ mine' = "local"

LocalUpdate == /\ dpc = "idle" /\ MayWrite
               /\ Store(scored)
               /\ UNCHANGED <<negev, pc, fetch, scan, watch, daemon, faults>>

LocalRead == /\ dpc = "idle" /\ MayWrite
             /\ Fault
             /\ dpc' = "writing" /\ total' = scored
             /\ UNCHANGED <<negev, table, pc, fetch, scan, watch, scored>>

LocalWrite == /\ dpc = "writing"
              /\ Store(total)
              /\ dpc' = "idle"
              /\ UNCHANGED <<negev, pc, fetch, scan, watch, scored, total, faults>>

World == Publish \/ Whistle \/ \E b \in Bets : Resolve(b)
Job == \/ \E p \in Players : Upsert(p)
       \/ Prune \/ Scan \/ Alert \/ Finish
       \/ \E b \in Bets : Persist(b)
Trouble == \/ \E p \in Players : UpsertFails(p)
           \/ ScanFails \/ Killed
           \/ \E b \in Bets : PersistFails(b)
Tick == LocalUpdate \/ LocalRead \/ LocalWrite

Next == World \/ Fetch \/ Job \/ Trouble \/ Tick

Spec == Init /\ [][Next]_vars /\ WF_vars(Fetch) /\ WF_vars(Job)

-----------------------------------------------------------------------------
(***************************************************************************)
(* Properties                                                              *)
(***************************************************************************)

(***************************************************************************)
(* Types; the tick never has a write of nothing scored ahead of it, and    *)
(* the job has a bet in hand exactly while it alerts.                      *)
(***************************************************************************)
TypeOK == /\ version \in Nat /\ roster \subseteq Players /\ resolved \subseteq Bets
          /\ members \subseteq Players /\ at \in [Players -> Nat]
          /\ mine \in Writers
          /\ pc \in {"idle", "writing", "pruned", "bets", "alerting"}
          /\ got \in Nat /\ gotRoster \subseteq Players
          /\ todo \subseteq gotRoster /\ done \subseteq gotRoster
          /\ shells \subseteq Bets /\ known \subseteq Bets /\ left \subseteq Bets
          /\ bet \in Bets \cup {NoBet} /\ (pc = "alerting" <=> bet \in Bets)
          /\ state \in [Bets -> Seen] /\ notified \subseteq Bets
          /\ scored \in Nat /\ dpc \in {"idle", "writing"} /\ total \in Nat
          /\ dpc = "writing" => total # 0
          /\ faults \in Nat /\ alerts \in [Bets -> Nat]

(***************************************************************************)
(* When the copy is over every row it wrote, but Me's, is the row of the   *)
(* answer, whoever else wrote meanwhile (comment in sync_standings: "The   *)
(* DB now strictly mirrors Negev").                                        *)
(***************************************************************************)
CopyFaithful ==
  pc \in {"writing", "pruned"} =>
    \A p \in done : p \in members /\ (p # Me => at[p] = got)

(***************************************************************************)
(* Me's row, once there, is never removed, also when Negev's roster does   *)
(* not know the name.                                                      *)
(***************************************************************************)
MyRowStays == [][(Me \in members) => (Me \in members')]_vars

(***************************************************************************)
(* A resolution is alerted about at most once, whatever fails between the  *)
(* alert and the note that it was sent (sidebet_watch.py:18-19).           *)
(***************************************************************************)
AlertedOnce == \A b \in Bets : alerts[b] <= 1

(***************************************************************************)
(* When Negev has published for the last time the table comes to mirror    *)
(* it and stays so: rows of who left are gone, every row is the last one,  *)
(* and Me's points are Negev's as soon as they are worth anything, however *)
(* often the tick has written its own.                                     *)
(***************************************************************************)
Mirrored == /\ members \ {Me} = roster \ {Me}
            /\ \A p \in roster \ {Me} : at[p] = version
            /\ Me \in roster /\ version >= NegevPays
                 => mine = "negev" /\ at[Me] = version
EventuallyMirrored == <>[]Mirrored
=============================================================================
