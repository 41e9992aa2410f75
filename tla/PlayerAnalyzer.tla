--------------------------- MODULE PlayerAnalyzer ---------------------------
(***************************************************************************)
(* ICC_ODI_Player_Performance_Analyzer.c: the players of Players_data.h    *)
(* are put into three lists per team, by role, sorted by performance       *)
(* index; the menu shows a team, the teams by average strike rate, the     *)
(* first players of a list, or all players of a role.  Both quicksorts are *)
(* one here, step by step.                                                 *)
(*                                                                         *)
(* A player's index and strike rate are integers: the float arithmetic     *)
(* that computes the index is not modelled.  A team's average is the pair  *)
(* of the sum and the number of players; <<0, 1>> before there is one.     *)
(* The calloc for a player may fail; the malloc of the array of a role     *)
(* (line 703), which nothing checks, is assumed to succeed.                *)
(***************************************************************************)
EXTENDS Integers, Sequences, FiniteSets, SequencesExt

CONSTANTS
  Rosters,   \* what the array players may hold, players numbered by `id`
  Teams      \* the names of the teams, integers, in order

VARIABLES
  at,        \* "start", "load", "menu", "sort" or "exit"
  players,   \* the array
  playerIndex,
  list,      \* the three lists of each team
  team,      \* the totals of each team
  heap,      \* players in memory
  rows,      \* the array the quicksort works on
  ranges,    \* the calls of the quicksort to come, the next one last
  asked,     \* what the user asked for
  displayed  \* what the program printed

playerVars == <<at, players, playerIndex, list, team, heap, rows, ranges, asked, displayed>>
tables     == <<players, playerIndex, list, team, heap>>

Roles     == {"Batsman", "Bowler", "All-rounder"}
TeamIds   == DOMAIN Teams
teamCount == Len(Teams)
NewTeam   == [strike |-> 0, batsmen |-> 0, allRounders |-> 0, players |-> 0, average |-> <<0, 1>>]
Nothing   == [what |-> "nothing"]

\* initializeTeam.
Init ==
  /\ at = "start"
  /\ players = <<>>
  /\ playerIndex = 1
  /\ list = [t \in TeamIds |-> [r \in Roles |-> <<>>]]
  /\ team = [t \in TeamIds |-> NewTeam]
  /\ heap = {}
  /\ rows = <<>>
  /\ ranges = <<>>
  /\ asked = Nothing
  /\ displayed = <<>>

(***************************************************************************)
(* Loading.                                                                *)
(***************************************************************************)
\* A turn of the binary search: the range of teams that is left, the team alone
\* when it is found.
Narrowed(range, name) ==
  LET lo  == range[1]
      hi  == range[2]
      mid == lo + (hi - lo) \div 2
  IN  IF lo > hi THEN range
      ELSE IF Teams[mid] = name THEN <<mid, mid>>
      ELSE IF Teams[mid] > name THEN <<lo, mid - 1>>
      ELSE <<mid + 1, hi>>

\* The search is over after as many turns as there are teams; 0 if there is no
\* such team.
findTeamIndex(name) ==
  LET left[i \in 0 .. teamCount] ==
        IF i = 0 THEN <<1, teamCount>> ELSE Narrowed(left[i - 1], name)
  IN  IF left[teamCount][1] <= left[teamCount][2] THEN left[teamCount][1] ELSE 0

\* In front of a smaller head; else behind the head, and behind every next
\* player with a greater index.
insertPlayersSortedByPerformanceIndex(l, p) ==
  IF l = <<>> \/ Head(l).index < p.index THEN <<p>> \o l
  ELSE LET behind == CHOOSE k \in DOMAIN l :
             /\ k = Len(l) \/ l[k + 1].index <= p.index
             /\ \A m \in 2 .. k : l[m].index > p.index
       IN  InsertAt(l, behind + 1, p)

Totals(t, p) ==
  LET bats   == p.role # "Bowler"
      sum    == t.strike + (IF bats THEN p.strike ELSE 0)
      b      == t.batsmen + (IF p.role = "Batsman" THEN 1 ELSE 0)
      a      == t.allRounders + (IF p.role = "All-rounder" THEN 1 ELSE 0)
  IN  [strike |-> sum, batsmen |-> b, allRounders |-> a, players |-> t.players + 1,
       average |-> IF a + b > 0 THEN <<sum, a + b>> ELSE t.average]

start ==
  /\ at = "start"
  /\ at' = "load"
  /\ players' \in Rosters
  /\ UNCHANGED <<playerIndex, list, team, heap, rows, ranges, asked, displayed>>

\* A turn of initializePlayers, with addPlayerToTeam.
addPlayerToTeam ==
  /\ at = "load" /\ playerIndex <= Len(players)
  /\ LET p == players[playerIndex]
         t == findTeamIndex(p.team)
     IN  /\ heap' = heap \cup {p}
         /\ IF t = 0 THEN UNCHANGED <<list, team>>
            ELSE /\ list' = [list EXCEPT ![t][p.role] =
                                insertPlayersSortedByPerformanceIndex(@, p)]
                 /\ team' = [team EXCEPT ![t] = Totals(@, p)]
  /\ playerIndex' = playerIndex + 1
  /\ UNCHANGED <<at, players, rows, ranges, asked, displayed>>

\* calloc fails: the menu starts with the players so far.
loaded ==
  /\ at = "load"
  /\ at' = "menu"
  /\ UNCHANGED <<tables, rows, ranges, asked, displayed>>

(***************************************************************************)
(* The menu.                                                               *)
(***************************************************************************)
Ask(request) ==
  /\ at = "menu" /\ asked = Nothing
  /\ asked' = request
  /\ UNCHANGED <<tables, ranges>>

displayPlayersOfSpecificTeam(t) ==
  /\ Ask([what |-> "team", team |-> t])
  /\ displayed' = list[t]["Batsman"] \o list[t]["Bowler"] \o list[t]["All-rounder"]
  /\ UNCHANGED <<at, rows>>

\* Mutant: one player too many.
FirstTooMany(l, k) == SubSeq(l, 1, IF k + 1 < Len(l) THEN k + 1 ELSE Len(l))

First(l, k) == SubSeq(l, 1, IF k < Len(l) THEN k ELSE Len(l))

displayTopKPlayersOfSpecificTeamByRole(t, r, k) ==
  /\ Ask([what |-> "top", team |-> t, role |-> r, k |-> k])
  /\ displayed' = First(list[t][r], k)
  /\ UNCHANGED <<at, rows>>

Sort(array) ==
  /\ rows' = array
  /\ ranges' = <<<<1, Len(array)>>>>
  /\ at' = "sort"

\* temporaryTeams: a copy of the totals.
displayTeamsByAverageBattingStrikeRate ==
  /\ at = "menu" /\ asked = Nothing
  /\ asked' = [what |-> "teams"]
  /\ Sort([t \in TeamIds |-> [id |-> t, key |-> team[t].average]])
  /\ UNCHANGED <<tables, displayed>>

\* allRolePlayers: the lists of all teams, one behind the other.
RolePlayers(r) ==
  LET taken[t \in 0 .. teamCount] ==
        IF t = 0 THEN <<>> ELSE taken[t - 1] \o list[t][r]
  IN  taken[teamCount]

displayPlayersOfAllTeamsFilterByRoleAndPerformanceIndex(r) ==
  /\ at = "menu" /\ asked = Nothing
  /\ asked' = [what |-> "role", role |-> r]
  /\ IF RolePlayers(r) = <<>> THEN UNCHANGED <<at, rows, ranges>>
     ELSE Sort([k \in DOMAIN RolePlayers(r) |->
                  [id |-> RolePlayers(r)[k].id, key |-> <<RolePlayers(r)[k].index, 1>>]])
  /\ UNCHANGED <<tables, displayed>>

\* Average, or index, of one row is greater than that of another.
Greater(x, y) == x.key[1] * y.key[2] > y.key[1] * x.key[2]

Exchanged(s, i, j) == [s EXCEPT ![i] = s[j], ![j] = s[i]]

\* A turn of the loop of partition: a row greater than the pivot is moved to the
\* end of those that are.
Moved(acc, k, pivot) ==
  IF Greater(acc.rows[k], pivot)
  THEN [rows |-> Exchanged(acc.rows, k, acc.index + 1), index |-> acc.index + 1]
  ELSE acc

\* The rows greater than the last one are moved to the front, then the last one
\* behind them.
partition(s, lo, hi) ==
  LET moved[n \in 0 .. hi - lo] ==
        IF n = 0 THEN [rows |-> s, index |-> lo - 1]
        ELSE Moved(moved[n - 1], lo + n - 1, s[hi])
      last == moved[hi - lo]
  IN  [rows |-> Exchanged(last.rows, last.index + 1, hi), index |-> last.index + 1]

\* One call: the left range is sorted first.
quickSort ==
  /\ at = "sort" /\ ranges # <<>>
  /\ LET lo == Last(ranges)[1]
         hi == Last(ranges)[2]
         p  == partition(rows, lo, hi)
     IN  IF lo >= hi THEN ranges' = Front(ranges) /\ UNCHANGED rows
         ELSE /\ rows' = p.rows
              /\ ranges' = Front(ranges) \o <<<<p.index + 1, hi>>, <<lo, p.index - 1>>>>
  /\ UNCHANGED <<at, tables, asked, displayed>>

displaySorted ==
  /\ at = "sort" /\ ranges = <<>>
  /\ at' = "menu"
  /\ displayed' = rows
  /\ rows' = <<>>
  /\ UNCHANGED <<tables, ranges, asked>>

\* The menu again.
nextChoice ==
  /\ at = "menu" /\ asked # Nothing
  /\ asked' = Nothing
  /\ displayed' = <<>>
  /\ UNCHANGED <<at, tables, rows, ranges>>

Listed == UNION {Range(list[t][r]) : t \in TeamIds, r \in Roles}

\* freeAllPlayers.
exitMenu ==
  /\ at = "menu" /\ asked = Nothing
  /\ at' = "exit"
  /\ heap' = heap \ Listed
  /\ UNCHANGED <<players, playerIndex, list, team, rows, ranges, asked, displayed>>

Next ==
  \/ start \/ addPlayerToTeam \/ loaded
  \/ \E t \in TeamIds : displayPlayersOfSpecificTeam(t)
  \/ \E t \in TeamIds, r \in Roles, k \in 1 .. Len(players) + 1 :
       displayTopKPlayersOfSpecificTeamByRole(t, r, k)
  \/ displayTeamsByAverageBattingStrikeRate
  \/ \E r \in Roles : displayPlayersOfAllTeamsFilterByRoleAndPerformanceIndex(r)
  \/ quickSort \/ displaySorted
  \/ nextChoice \/ exitMenu

Spec == Init /\ [][Next]_playerVars

(***************************************************************************)
(* Properties.                                                             *)
(***************************************************************************)
\* The players loaded into a team: those whose team is in the table.
Loaded(t, S) == {k \in 1 .. playerIndex - 1 : players[k].team = Teams[t] /\ players[k].role \in S}

\* The strike rates of the loaded players in S, added.
Strike(S) ==
  LET sum[k \in 0 .. playerIndex - 1] ==
        IF k = 0 THEN 0 ELSE sum[k - 1] + (IF k \in S THEN players[k].strike ELSE 0)
  IN  sum[playerIndex - 1]

\* Every loaded player of a known team is in the list of its team and role, once,
\* behind no player with a smaller index; a team's average and counts are those
\* of its batsmen and all-rounders; the exit frees all but the players of unknown
\* teams, which are in no list.
ListsRight ==
  /\ \A t \in TeamIds, r \in Roles :
       LET l == list[t][r]
       IN  /\ Range(l) = {players[k] : k \in Loaded(t, {r})}
           /\ Len(l) = Cardinality(Loaded(t, {r}))
           /\ \A j, k \in DOMAIN l : j < k => l[j].index >= l[k].index
  /\ \A t \in TeamIds :
       LET bats == Loaded(t, {"Batsman", "All-rounder"})
       IN  /\ team[t].players = Cardinality(Loaded(t, Roles))
           /\ bats # {} => team[t].average = <<Strike(bats), Cardinality(bats)>>
  /\ at = "exit" =>
       \A p \in heap : \A t \in TeamIds : p.team # Teams[t]

Descending(s) == \A j, k \in DOMAIN s : j < k => ~Greater(s[k], s[j])

Ids(s) == {s[k].id : k \in DOMAIN s}

\* What the menu shows comes from right lists: the teams by average and the
\* players of a role by index, greatest first, each once; of a list the k best,
\* or all if there are fewer.
DisplaysRight ==
  /\ ListsRight
  /\ at = "menu" /\ asked.what = "teams" =>
       /\ Ids(displayed) = TeamIds /\ Len(displayed) = teamCount
       /\ Descending(displayed)
  /\ at = "menu" /\ asked.what = "role" =>
       LET all == UNION {Loaded(t, {asked.role}) : t \in TeamIds}
       IN  /\ Ids(displayed) = {players[k].id : k \in all}
           /\ Len(displayed) = Cardinality(all)
           /\ Descending(displayed)
  /\ at = "menu" /\ asked.what = "top" =>
       LET all == Loaded(asked.team, {asked.role})
       IN  /\ Len(displayed) = IF asked.k < Cardinality(all) THEN asked.k ELSE Cardinality(all)
           /\ Ids(displayed) \subseteq {players[k].id : k \in all}
           /\ \A k \in all, j \in DOMAIN displayed :
                players[k].id \in Ids(displayed) \/ displayed[j].index >= players[k].index
  /\ at = "menu" /\ asked.what = "team" => Len(displayed) = team[asked.team].players
=============================================================================
