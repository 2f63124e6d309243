---------------------------- MODULE LwwRegister -----------------------------
(***************************************************************************)
(* A replicated last-writer-wins register driven by the hybrid clock. Each *)
(* node stamps its writes with tick, sends its register as a snapshot, and *)
(* on receiving one advances its clock with update and merges. Physical    *)
(* clocks run at their own pace. A timestamp is the pair of its wall and   *)
(* counter parts, which the packed u64 orders lexicographically.           *)
(***************************************************************************)
EXTENDS Integers, Replicas

CONSTANTS
    Values, Initial,
    MaxCounter,     \* u16::MAX
    OverflowChecks, \* TRUE in a dev build, where counter() + 1 panics; FALSE in
                    \* the release profile, which ships and wraps around
    MaxWall,        \* bound: physical clocks stop here
    MaxClock        \* bound: no step from a hybrid clock beyond this wall value

ASSUME RegConstants ==
    /\ MaxCounter \in Nat /\ OverflowChecks \in BOOLEAN /\ Initial \in Values
    /\ MaxWall \in Nat /\ MaxClock \in Nat

Timestamp == Nat \X (0..MaxCounter)

Less(s, t) == s[1] < t[1] \/ (s[1] = t[1] /\ s[2] < t[2])
AtMost(s, t) == s = t \/ Less(s, t)

VARIABLES
    wall,   \* wall[n]: the physical clock of n, in seconds
    latest, \* latest[n]: the HybridClock of n
    reg,    \* reg[n]: the LwwRegister of n
    regWire,   \* snapshots of registers, with the writes they reflect
    seenWrites,   \* history: seenWrites[n], the writes the register of n reflects
    deps,   \* history: <<d, w>>, where the node of write w reflected d before it
    wrapped \* history: the nodes where a tick has wrapped around

regVars == <<wall, latest, reg, regWire, seenWrites, deps, wrapped>>

\* A write: its node and its timestamp there.
Write == [node : Replicas, timestamp : Timestamp]

LwwValue == [value : Values, timestamp : Timestamp]

Zero == <<0, 0>>

RegInit ==
    /\ wall = [n \in Replicas |-> 0]
    /\ latest = [n \in Replicas |-> Zero]
    /\ reg = [n \in Replicas |-> [value |-> Initial, timestamp |-> Zero]]
    /\ regWire = {}
    /\ seenWrites = [n \in Replicas |-> {}]
    /\ deps = {}
    /\ wrapped = {}

\* The physical clock of n goes on, or is set back.
PhysicalTick(n) ==
    /\ \E s \in (0..MaxWall) \ {wall[n]} : wall' = [wall EXCEPT ![n] = s]
    /\ UNCHANGED <<latest, reg, regWire, seenWrites, deps, wrapped>>

\* counter() + 1 on u16, in a build without overflow checks.
Wrapping(c) == IF c = MaxCounter THEN 0 ELSE c + 1

\* Mutant: the wall clock is followed backwards.
TickedByWall(n) ==
    LET w == wall[n] IN
    IF w # latest[n][1] THEN <<w, 0>> ELSE <<w, Wrapping(latest[n][2])>>

\* HybridClock::tick, the timestamp it returns.
Ticked(n) ==
    LET w == latest[n][1] IN
    IF wall[n] > w THEN <<wall[n], 0>>
    ELSE <<w, Wrapping(latest[n][2])>>

\* The addition of tick is beyond its width: it panics with overflow checks.
TickOverflows(n) == wall[n] <= latest[n][1] /\ latest[n][2] = MaxCounter

\* The counter of HlcTimestamp::update for the wall value w, before the
\* overflow check.
NextCounter(s, t, w) ==
    CASE w = s[1] /\ w = t[1] -> Larger(s[2], t[2]) + 1
      [] w = s[1] /\ w # t[1] -> s[2] + 1
      [] w # s[1] /\ w = t[1] -> t[2] + 1
      [] OTHER -> 0

\* HlcTimestamp::update
Update(n, t) ==
    LET s == latest[n]
        w == Larger(Larger(wall[n], s[1]), t[1])
        c == NextCounter(s, t, w)
    IN  IF c > MaxCounter THEN <<w + 1, 0>> ELSE <<w, c>>

\* tick, then LwwRegister::set
LocalWrite(n, v) ==
    LET ts == Ticked(n)
        w  == [node |-> n, timestamp |-> ts]
    IN
    /\ latest[n][1] <= MaxClock
    /\ ~(OverflowChecks /\ TickOverflows(n))
    /\ latest' = [latest EXCEPT ![n] = ts]
    /\ reg' = [reg EXCEPT ![n] = IF Less(@.timestamp, ts)
                                 THEN [value |-> v, timestamp |-> ts] ELSE @]
    /\ seenWrites' = [seenWrites EXCEPT ![n] = @ \cup {w}]
    /\ deps' = deps \cup {<<d, w>> : d \in seenWrites[n]}
    /\ wrapped' = IF TickOverflows(n) THEN wrapped \cup {n} ELSE wrapped
    /\ UNCHANGED <<wall, regWire>>

RegSend(n) ==
    /\ regWire' = regWire \cup {[register |-> reg[n], seenWrites |-> seenWrites[n]]}
    /\ UNCHANGED <<wall, latest, reg, seenWrites, deps, wrapped>>

\* merge: the incoming register replaces the local one.
Wins(r, s) == Less(r.timestamp, s.timestamp)

\* HybridClock::update, then LwwRegister::merge
RegReceive(n, m) ==
    /\ m \in regWire
    /\ latest[n][1] <= MaxClock
    /\ latest' = [latest EXCEPT ![n] = Update(n, m.register.timestamp)]
    /\ reg' = [reg EXCEPT ![n] = IF Wins(@, m.register) THEN m.register ELSE @]
    /\ seenWrites' = [seenWrites EXCEPT ![n] = @ \cup m.seenWrites]
    /\ UNCHANGED <<wall, regWire, deps, wrapped>>

RegNext ==
    \/ \E n \in Replicas : PhysicalTick(n) \/ RegSend(n)
    \/ \E n \in Replicas, v \in Values : LocalWrite(n, v)
    \/ \E n \in Replicas : \E m \in regWire : RegReceive(n, m)

RegSpec == RegInit /\ [][RegNext]_regVars

-----------------------------------------------------------------------------
(* Properties. *)

RegTypeOK ==
    /\ wall \in [Replicas -> Nat]
    /\ latest \in [Replicas -> Timestamp]
    /\ reg \in [Replicas -> LwwValue]
    /\ regWire \subseteq [register : LwwValue, seenWrites : SUBSET Write]
    /\ seenWrites \in [Replicas -> SUBSET Write]
    /\ deps \subseteq Write \X Write
    /\ wrapped \subseteq Replicas

\* No clock goes back, whatever the physical clocks do, unless a tick of its
\* own has wrapped around.
ClockAdvances ==
    [][\A n \in Replicas : n \notin wrapped' => AtMost(latest[n], latest'[n])]_regVars

\* A write made with knowledge of another one has the larger timestamp, so
\* that it wins at every node that merges both, through any chain of nodes
\* and with physical clocks that disagree. Excepted are the writes of a node
\* where a tick has wrapped around, and only of that one: what others write
\* after merging from it is still larger than all they have seen.
LaterWriteWins ==
    \A e \in deps : e[2].node \notin wrapped => Less(e[1].timestamp, e[2].timestamp)

\* Two nodes whose registers reflect the same writes hold the same timestamp:
\* no order of merges can lose the latest write, not even behind a clock that
\* has wrapped around.
SameWritesSameTimestamp ==
    \A a, b \in Replicas : seenWrites[a] = seenWrites[b] => reg[a].timestamp = reg[b].timestamp

\* clock.rs:37 "ensuring the returned timestamp is strictly greater than any
\* previously issued": a node stamps each write later than those it made before.
TicksIncrease ==
    \A e \in deps : e[1].node = e[2].node => Less(e[1].timestamp, e[2].timestamp)

=============================================================================
