-------------------------- MODULE RoundClockProofs --------------------------
(***************************************************************************)
(* What module RoundClock checks with a duel of two rounds holds for any   *)
(* number of seats, rounds, requests and sweepers, and any policy.         *)
(***************************************************************************)
EXTENDS RoundClock, WellFoundedInduction, TLAPS

-----------------------------------------------------------------------------
(* The optimistic check *)

\* Between the lock, or its absence, and the write.
Serving(p) == pc[p] \in {"probe", "extend", "commit"}

\* The same round with the same seals, whatever became of its deadline.
SameTurn(r, s) == r.round = s.round /\ r.sealed = s.sealed /\ r.opened = s.opened

\* What a process read is the row, up to its deadline, if no commit came since.
Current == \A p \in Procs : Serving(p) =>
    /\ snap[p].seq <= log /\ (snap[p].seq = log => SameTurn(snap[p], row))
    /\ Unsealed(snap[p]) # {}

\* What a process will commit is what it read, and more seals.
Prepared == \A p \in Procs : pc[p] = "commit" =>
    /\ next[p].round = snap[p].round /\ next[p].seq = snap[p].seq
    /\ next[p].opened = snap[p].opened /\ next[p].deadline = snap[p].deadline
    /\ \A a \in Seats : snap[p].sealed[a] => next[p].sealed[a]

\* A round is over when its last seat has sealed.
SomebodyThinks == Unsealed(row) # {}

Turns == TypeOK /\ Current /\ Prepared /\ SomebodyThinks

-----------------------------------------------------------------------------
(* The lock *)

\* Who serves the match holds its lock, and what it read is the row.
Exclusive == \A p \in Procs : Serving(p) => lease = p /\ snap[p] = row

\* The deadline is never before the end of the window the round opened with, and a
\* sweeper serves a match whose deadline is over.
OnTime ==
    /\ row.deadline >= row.opened + MoveWindow(Seats)
    /\ \A w \in Sweepers : Serving(w) => now >= row.deadline

\* An extension about to be written: every seat it waits for may still think, and it
\* ends within the ceiling.
Earned == \A w \in Procs : pc[w] = "extend" =>
    /\ refused \cap Unsealed(row) = {}
    /\ next[w].deadline >= row.deadline
    /\ next[w].deadline + MoveWindow(Unsealed(row)) <= row.base + Ceiling

Locked == fleet.locking => Exclusive /\ OnTime /\ Earned

-----------------------------------------------------------------------------
(* Windows and rows *)

\* A nonempty set of naturals has a least element.
LEMMA SmallestOf ==
    ASSUME NEW S \in SUBSET Nat, S # {}
    PROVE  \E n \in S : \A m \in S : n <= m
<1>1. PICK n \in S : \A m \in S : ~ (<<m, n>> \in OpToRel(<, Nat))
  BY NatLessThanWellFounded, WFMin
<1>2. ASSUME NEW m \in S PROVE n <= m
  <2>1. m \in Nat /\ n \in Nat
    OBVIOUS
  <2>2. m < n => <<m, n>> \in OpToRel(<, Nat)
    BY <2>1 DEF OpToRel
  <2>3. ~ (m < n)
    BY <1>1, <2>2
  <2> QED BY <2>1, <2>3
<1> QED BY <1>2

\* A nonempty set of windows has a largest one, so that Max chooses it.
LEMMA MaxExists ==
    ASSUME NEW S, S \subseteq 1 .. Ceiling, S # {}
    PROVE  Max(S) \in S
<1> DEFINE T == {n \in Nat : \E x \in S : n = Ceiling - x}
<1>0. Ceiling \in Nat
  BY PolicyAssumption
<1>1. PICK s \in S : TRUE
  OBVIOUS
<1>2. Ceiling - s \in T
  BY <1>0
<1>3. PICK n \in T : \A m \in T : n <= m
  <2>1. T \in SUBSET Nat /\ T # {}
    BY <1>2
  <2> HIDE DEF T
  <2> QED BY <2>1, SmallestOf
<1>4. PICK x \in S : n = Ceiling - x
  BY <1>3
<1>5. ASSUME NEW y \in S PROVE x >= y
  <2>1. Ceiling - y \in T
    BY <1>0
  <2>2. n <= Ceiling - y
    BY <1>3, <2>1
  <2> QED BY <1>0, <1>4, <2>2
<1>6. \E z \in S : \A y \in S : z >= y
  BY <1>5
<1> QED BY <1>6 DEF Max

\* moveWindow of any seats is one of their windows.
LEMMA MoveWindowType ==
    ASSUME NEW S \in SUBSET Seats, S # {}
    PROVE  MoveWindow(S) \in Nat
<1>1. {Window[a] : a \in S} \subseteq 1 .. Ceiling /\ {Window[a] : a \in S} # {}
  BY WindowAssumption
<1> HIDE DEF MoveWindow
<1>2. Max({Window[a] : a \in S}) \in {Window[a] : a \in S}
  BY <1>1, MaxExists
<1>3. Max({Window[a] : a \in S}) \in Nat
  BY <1>1, <1>2, PolicyAssumption
<1> QED BY <1>3 DEF MoveWindow

\* The smaller of an extension and what is left under the ceiling.
LEMMA MinOfTwo ==
    ASSUME NEW m \in Int, NEW n \in Int
    PROVE  Min({m, n}) \in {m, n} /\ Min({m, n}) <= m /\ Min({m, n}) <= n
<1>1. \E x \in {m, n} : \A y \in {m, n} : x =< y
  OBVIOUS
<1> DEFINE z == Min({m, n})
<1>2. z \in {m, n} /\ \A y \in {m, n} : z =< y
  BY <1>1 DEF Min
<1> HIDE DEF z
<1>3. z \in {m, n} /\ z <= m /\ z <= n
  BY <1>2
<1> QED BY <1>3 DEF z

\* What tryExtend grants ends within the policy's ceiling, counted from the time the
\* round was written.
LEMMA GrantBound ==
    ASSUME NEW r \in Rows, NEW t \in Nat, Unsealed(r) # {}, Grant(r, t) > 0
    PROVE  /\ Grant(r, t) \in Nat
           /\ t + Grant(r, t) + MoveWindow(Unsealed(r)) <= r.base + Ceiling
<1> DEFINE window == MoveWindow(Unsealed(r))
           elapsed == t - (r.base - window)
<1>1. Unsealed(r) \in SUBSET Seats /\ Unsealed(r) = {a \in Seats : ~ r.sealed[a]}
  BY DEF Unsealed
<1>2. window \in Nat
  BY <1>1, MoveWindowType
<1>3. elapsed \in Int /\ Extension \in Nat /\ Ceiling \in Nat /\ r.base \in Nat
  BY <1>2, PolicyAssumption DEF Rows
<1>4. Grant(r, t) = Min({Extension, Ceiling - elapsed})
  <2> DEFINE granted == IF elapsed > window THEN (elapsed - window) \div Extension ELSE 0
  <2>1. Grant(r, t) = IF granted >= MaxExtensions \/ elapsed >= Ceiling THEN 0
                      ELSE Min({Extension, Ceiling - elapsed})
    BY <1>1 DEF Grant
  <2> HIDE DEF granted, elapsed
  <2> QED BY <2>1
<1> HIDE DEF elapsed
<1>5. /\ Min({Extension, Ceiling - elapsed}) \in Int
      /\ Min({Extension, Ceiling - elapsed}) <= Ceiling - elapsed
  BY <1>3, MinOfTwo
<1>6. Grant(r, t) \in Nat /\ Grant(r, t) <= Ceiling - elapsed
  BY <1>4, <1>5
<1> HIDE DEF window
<1>7. t + Grant(r, t) + window <= r.base + Ceiling
  BY <1>2, <1>3, <1>6 DEF elapsed
<1> QED BY <1>6, <1>7 DEF window

\* The window of the whole table.
LEMMA SeatsWindow == MoveWindow(Seats) \in Nat
BY SeatsAssumption, MoveWindowType

\* The row of a match that starts.
LEMMA FirstIs ==
    /\ First \in Rows /\ Unsealed(First) = Seats /\ First.seq = 0
    /\ First.opened = 0 /\ First.deadline = MoveWindow(Seats)
<1>1. 1 \in 1 .. Rounds + 1
  BY PolicyAssumption
<1> HIDE DEF MoveWindow
<1> QED BY <1>1, SeatsWindow DEF First, Rows, Unsealed

\* A resolved round opens the next one with a full window and nobody sealed.
LEMMA OpenedIs ==
    ASSUME NEW r \in Rows, now \in Nat, r.round <= Rounds
    PROVE  /\ Opened(r) \in Rows /\ Unsealed(Opened(r)) = Seats
           /\ Opened(r).round = r.round + 1 /\ Opened(r).seq = r.seq + 1
           /\ Opened(r).opened = now /\ Opened(r).deadline = now + MoveWindow(Seats)
<1>1. r.round + 1 \in 1 .. Rounds + 1 /\ r.seq + 1 \in Nat
  BY PolicyAssumption DEF Rows
<1>2. now + MoveWindow(Seats) \in Nat
  BY SeatsWindow
<1> DEFINE d == now + MoveWindow(Seats)
           none == [a \in Seats |-> FALSE]
<1>3. Opened(r) = [r EXCEPT !.round = @ + 1, !.seq = @ + 1, !.sealed = none,
                            !.opened = now, !.deadline = d, !.base = d]
  BY DEF Opened
<1>4. none \in [Seats -> BOOLEAN] /\ \A a \in Seats : none[a] = FALSE
  OBVIOUS
<1>5. d \in Nat
  BY <1>2
<1> HIDE DEF d, none
<1>6. /\ Opened(r) \in Rows /\ Opened(r).sealed = none
      /\ Opened(r).round = r.round + 1 /\ Opened(r).seq = r.seq + 1
      /\ Opened(r).opened = now /\ Opened(r).deadline = d
  BY <1>1, <1>3, <1>4, <1>5 DEF Rows
<1>7. Unsealed(Opened(r)) = Seats
  BY <1>4, <1>6 DEF Unsealed
<1> QED BY <1>6, <1>7 DEF d

\* A commit within a round changes neither seals nor deadline of what it writes.
LEMMA ContinuedIs ==
    ASSUME NEW r \in Rows
    PROVE  /\ Continued(r) \in Rows /\ Unsealed(Continued(r)) = Unsealed(r)
           /\ Continued(r).round = r.round /\ Continued(r).seq = r.seq + 1
           /\ Continued(r).opened = r.opened /\ Continued(r).deadline = r.deadline
           /\ Continued(r).sealed = r.sealed
<1> DEFINE s == Continued(r)
<1>1. s = [r EXCEPT !.seq = r.seq + 1, !.base = r.deadline]
  BY DEF Continued
<1>2. r.seq + 1 \in Nat
  BY DEF Rows
<1> HIDE DEF s
<1>3. /\ s \in Rows /\ s.round = r.round /\ s.seq = r.seq + 1 /\ s.opened = r.opened
      /\ s.deadline = r.deadline /\ s.sealed = r.sealed
  BY <1>1, <1>2 DEF Rows
<1>4. Unsealed(s) = Unsealed(r)
  BY <1>3 DEF Unsealed
<1> QED BY <1>3, <1>4 DEF s

\* ExtendDeadline changes nothing but the deadline.
LEMMA ExtendedIs ==
    ASSUME NEW r \in Rows, NEW d \in Nat
    PROVE  LET s == [r EXCEPT !.deadline = d] IN
           /\ s \in Rows /\ SameTurn(s, r) /\ Unsealed(s) = Unsealed(r)
           /\ s.deadline = d /\ s.base = r.base /\ s.seq = r.seq
BY DEF Rows, SameTurn, Unsealed

\* Sealing changes nothing but the seals.
LEMMA SealedIs ==
    ASSUME NEW r \in Rows, NEW f \in [Seats -> BOOLEAN], \A a \in Seats : r.sealed[a] => f[a]
    PROVE  LET s == [r EXCEPT !.sealed = f] IN
           /\ s \in Rows /\ s.round = r.round /\ s.seq = r.seq
           /\ s.opened = r.opened /\ s.deadline = r.deadline
           /\ \A a \in Seats : r.sealed[a] => s.sealed[a]
BY DEF Rows

\* One card sealed is more seals.
LEMMA OneSealed ==
    ASSUME NEW r \in Rows, NEW a \in Seats
    PROVE  LET f == [r.sealed EXCEPT ![a] = TRUE] IN
           /\ [r EXCEPT !.sealed[a] = TRUE] = [r EXCEPT !.sealed = f]
           /\ f \in [Seats -> BOOLEAN] /\ \A b \in Seats : r.sealed[b] => f[b]
BY DEF Rows

-----------------------------------------------------------------------------
(* Steps of a process *)

\* What a process may be doing.
Steps == {"idle", "listed", "probe", "extend", "commit"}

\* A step of p moves no other process.
LEMMA Moved ==
    ASSUME TypeOK, NEW p \in Procs, NEW step \in Steps, Goto(p, step)
    PROVE  /\ pc' \in [Procs -> Steps]
           /\ pc'[p] = step
           /\ \A q \in Procs \ {p} : pc'[q] = pc[q]
BY DEF TypeOK, Goto, Steps

\* A process that returns leaves the memory of the others alone.
LEMMA Left ==
    ASSUME TypeOK, NEW p \in Procs, Leave(p)
    PROVE  /\ lease' \in Procs \cup {"free"}
           /\ snap' \in [Procs -> Rows] /\ next' \in [Procs -> Rows]
           /\ pc' \in [Procs -> Steps] /\ pc'[p] = "idle"
           /\ \A q \in Procs \ {p} : pc'[q] = pc[q] /\ snap'[q] = snap[q] /\ next'[q] = next[q]
<1>1. Goto(p, "idle") /\ "idle" \in Steps
  BY DEF Leave, Steps
<1>2. /\ pc' \in [Procs -> Steps] /\ pc'[p] = "idle"
      /\ \A q \in Procs \ {p} : pc'[q] = pc[q]
  BY <1>1, Moved
<1>3. /\ snap' \in [Procs -> Rows] /\ next' \in [Procs -> Rows]
      /\ \A q \in Procs \ {p} : snap'[q] = snap[q] /\ next'[q] = next[q]
  BY FirstIs DEF TypeOK, Leave
<1>4. lease' \in Procs \cup {"free"}
  BY DEF TypeOK, Leave
<1> QED BY <1>2, <1>3, <1>4

\* A process that enters has the row as it is, and the lock where there is one.
LEMMA Entered ==
    ASSUME TypeOK, NEW p \in Procs, NEW step \in Steps, Enter(p, step)
    PROVE  /\ lease' \in Procs \cup {"free"}
           /\ fleet.locking => lease = "free" /\ lease' = p
           /\ snap' \in [Procs -> Rows] /\ snap'[p] = row
           /\ pc' \in [Procs -> Steps] /\ pc'[p] = step
           /\ \A q \in Procs \ {p} : pc'[q] = pc[q] /\ snap'[q] = snap[q]
<1>1. /\ pc' \in [Procs -> Steps] /\ pc'[p] = step
      /\ \A q \in Procs \ {p} : pc'[q] = pc[q]
  BY Moved DEF Enter
<1>2. /\ snap' \in [Procs -> Rows] /\ snap'[p] = row
      /\ \A q \in Procs \ {p} : snap'[q] = snap[q]
  BY DEF TypeOK, Enter
<1>3. /\ lease' \in Procs \cup {"free"}
      /\ fleet.locking => lease = "free" /\ lease' = p
  BY DEF TypeOK, Enter
<1> QED BY <1>1, <1>2, <1>3

\* What p will write is not what others will write.
LEMMA Written ==
    ASSUME TypeOK, NEW p \in Procs, NEW r \in Rows, next' = [next EXCEPT ![p] = r]
    PROVE  /\ next' \in [Procs -> Rows] /\ next'[p] = r
           /\ \A q \in Procs \ {p} : next'[q] = next[q]
BY DEF TypeOK

\* Every step is one process's, or the clock's.
LEMMA Whose ==
    ASSUME TypeOK, [Next]_vars
    PROVE  \/ \E p \in Requests : Say(p) \/ (\E a \in Seats : Act(p, a) \/ Refuse(p, a))
           \/ \E w \in Sweepers : Sweep(w)
           \/ \E p \in Procs : Commit(p) \/ CommitRefused(p)
           \/ Tick
           \/ UNCHANGED vars
<1>1. fleet.procs \subseteq Procs
  BY FleetsAssumption DEF TypeOK, Procs
<1> QED BY <1>1 DEF Next

-----------------------------------------------------------------------------
(* The optimistic check is kept *)

\* The invariant survives a step that starts no request and changes at most the
\* deadline of the row.
LEMMA TurnsKept ==
    ASSUME Turns, TypeOK', log' = log, SameTurn(row', row),
           \A q \in Procs : pc'[q] \in {"probe", "extend", "commit"} =>
               Serving(q) /\ snap'[q] = snap[q],
           \A q \in Procs : pc'[q] = "commit" => pc[q] = "commit" /\ next'[q] = next[q]
    PROVE  Turns'
<1>1. Current'
  <2> SUFFICES ASSUME NEW q \in Procs, Serving(q)'
               PROVE  (/\ snap[q].seq <= log /\ (snap[q].seq = log => SameTurn(snap[q], row))
                       /\ Unsealed(snap[q]) # {})'
    BY DEF Current
  <2>1. Serving(q) /\ snap'[q] = snap[q]
    BY DEF Serving
  <2>2. /\ snap[q].seq <= log /\ (snap[q].seq = log => SameTurn(snap[q], row))
        /\ Unsealed(snap[q]) # {}
    BY <2>1 DEF Turns, Current
  <2> QED BY <2>1, <2>2 DEF SameTurn, Unsealed
<1>2. Prepared'
  <2> SUFFICES ASSUME NEW q \in Procs, pc'[q] = "commit"
               PROVE  (/\ next[q].round = snap[q].round /\ next[q].seq = snap[q].seq
                       /\ next[q].opened = snap[q].opened /\ next[q].deadline = snap[q].deadline
                       /\ \A a \in Seats : snap[q].sealed[a] => next[q].sealed[a])'
    BY DEF Prepared
  <2>1. pc[q] = "commit" /\ next'[q] = next[q] /\ snap'[q] = snap[q]
    OBVIOUS
  <2> QED BY <2>1 DEF Turns, Prepared
<1>3. SomebodyThinks'
  BY DEF Turns, SomebodyThinks, SameTurn, Unsealed
<1> QED BY <1>1, <1>2, <1>3 DEF Turns

\* It survives a request, or a sweeper, that reads the row.
LEMMA TurnsEntered ==
    ASSUME Turns, NEW p \in Procs, NEW step \in {"probe", "commit"}, Enter(p, step),
           UNCHANGED <<outside, row, log>>, refused' \subseteq Seats, talk' \in Nat,
           next' \in [Procs -> Rows], \A q \in Procs \ {p} : next'[q] = next[q],
           step = "commit" =>
              /\ next'[p].round = row.round /\ next'[p].seq = row.seq
              /\ next'[p].opened = row.opened /\ next'[p].deadline = row.deadline
              /\ \A a \in Seats : row.sealed[a] => next'[p].sealed[a]
    PROVE  Turns'
<1>1. TypeOK /\ step \in Steps
  BY DEF Turns, Steps
<1>2. /\ lease' \in Procs \cup {"free"}
      /\ snap' \in [Procs -> Rows] /\ snap'[p] = row
      /\ pc' \in [Procs -> Steps] /\ pc'[p] = step
      /\ \A q \in Procs \ {p} : pc'[q] = pc[q] /\ snap'[q] = snap[q]
  BY <1>1, Entered
<1>3. TypeOK'
  BY <1>1, <1>2 DEF TypeOK, Steps, outside
<1>4. Current'
  <2> SUFFICES ASSUME NEW q \in Procs, Serving(q)'
               PROVE  (/\ snap[q].seq <= log /\ (snap[q].seq = log => SameTurn(snap[q], row))
                       /\ Unsealed(snap[q]) # {})'
    BY DEF Current
  <2>1. CASE q = p
    <3>1. Unsealed(row) # {}
      BY DEF Turns, SomebodyThinks
    <3>2. row.seq = log /\ log \in Nat
      BY <1>1 DEF TypeOK
    <3> QED BY <1>2, <2>1, <3>1, <3>2 DEF SameTurn, Unsealed
  <2>2. CASE q # p
    <3>1. Serving(q) /\ snap'[q] = snap[q]
      BY <1>2, <2>2 DEF Serving
    <3>2. /\ snap[q].seq <= log /\ (snap[q].seq = log => SameTurn(snap[q], row))
          /\ Unsealed(snap[q]) # {}
      BY <3>1 DEF Turns, Current
    <3> QED BY <3>1, <3>2 DEF SameTurn, Unsealed
  <2> QED BY <2>1, <2>2
<1>5. Prepared'
  <2> SUFFICES ASSUME NEW q \in Procs, pc'[q] = "commit"
               PROVE  (/\ next[q].round = snap[q].round /\ next[q].seq = snap[q].seq
                       /\ next[q].opened = snap[q].opened /\ next[q].deadline = snap[q].deadline
                       /\ \A a \in Seats : snap[q].sealed[a] => next[q].sealed[a])'
    BY DEF Prepared
  <2>1. CASE q = p
    BY <1>2, <2>1
  <2>2. CASE q # p
    <3>1. pc[q] = "commit" /\ next'[q] = next[q] /\ snap'[q] = snap[q]
      BY <1>2, <2>2
    <3> QED BY <3>1 DEF Turns, Prepared
  <2> QED BY <2>1, <2>2
<1>6. SomebodyThinks'
  BY DEF Turns, SomebodyThinks, Unsealed
<1> QED BY <1>3, <1>4, <1>5, <1>6 DEF Turns

\* It holds when the match starts.
LEMMA TurnsInit == Init => Turns
<1> SUFFICES ASSUME Init PROVE Turns
  OBVIOUS
<1>1. TypeOK
  BY FirstIs DEF Init, TypeOK
<1>2. Current /\ Prepared
  BY DEF Init, Current, Prepared, Serving
<1>3. SomebodyThinks
  BY FirstIs, SeatsAssumption DEF Init, SomebodyThinks
<1> QED BY <1>1, <1>2, <1>3 DEF Turns

\* A card is sealed in the state that was read.
LEMMA TurnsActed ==
    ASSUME Turns, NEW p \in Procs, NEW a \in Seats, Act(p, a)
    PROVE  Turns'
<1> DEFINE r == [row EXCEPT !.sealed[a] = TRUE]
<1>1. TypeOK /\ row \in Rows /\ refused \subseteq Seats /\ talk \in Nat
  BY DEF Turns, TypeOK
<1>2. next' = [next EXCEPT ![p] = r]
  BY DEF Act, WillWrite
<1>3. /\ r \in Rows /\ r.round = row.round /\ r.seq = row.seq
      /\ r.opened = row.opened /\ r.deadline = row.deadline
      /\ \A b \in Seats : row.sealed[b] => r.sealed[b]
  BY <1>1, OneSealed, SealedIs
<1> HIDE DEF r
<1>4. /\ next' \in [Procs -> Rows] /\ next'[p] = r
      /\ \A q \in Procs \ {p} : next'[q] = next[q]
  BY <1>1, <1>2, <1>3, Written
<1>5. /\ Enter(p, "commit") /\ UNCHANGED <<outside, row, log>>
      /\ refused' \subseteq Seats /\ talk' \in Nat
  BY <1>1 DEF Act
<1> QED BY <1>3, <1>4, <1>5, TurnsEntered

\* Table talk goes through the same commit, with the state as read.
LEMMA TurnsSaid ==
    ASSUME Turns, NEW p \in Procs, Say(p)
    PROVE  Turns'
<1>1. TypeOK /\ row \in Rows /\ refused \subseteq Seats /\ talk + 1 \in Nat
  BY DEF Turns, TypeOK
<1>2. next' = [next EXCEPT ![p] = row]
  BY DEF Say, WillWrite
<1>3. /\ next' \in [Procs -> Rows] /\ next'[p] = row
      /\ \A q \in Procs \ {p} : next'[q] = next[q]
  BY <1>1, <1>2, Written
<1>4. /\ Enter(p, "commit") /\ UNCHANGED <<outside, row, log>>
      /\ refused' \subseteq Seats /\ talk' \in Nat
  BY <1>1 DEF Say
<1> QED BY <1>3, <1>4, TurnsEntered

\* A sweeper that gave up waiting seals for everybody, in the state it read.
LEMMA TurnsForced ==
    ASSUME Turns, NEW w \in Procs, Serving(w), ForceTimeouts(w),
           UNCHANGED <<outside, lease, row, log, talk, refused, snap>>
    PROVE  Turns'
<1> DEFINE f == [a \in Seats |-> TRUE]
           r == [snap[w] EXCEPT !.sealed = f]
<1>1. TypeOK /\ snap[w] \in Rows
  BY DEF Turns, TypeOK
<1>2. next' = [next EXCEPT ![w] = r] /\ Goto(w, "commit")
  BY DEF ForceTimeouts, WillWrite
<1>3. f \in [Seats -> BOOLEAN] /\ \A a \in Seats : snap[w].sealed[a] => f[a]
  OBVIOUS
<1>4. /\ r \in Rows /\ r.round = snap[w].round /\ r.seq = snap[w].seq
      /\ r.opened = snap[w].opened /\ r.deadline = snap[w].deadline
      /\ \A b \in Seats : snap[w].sealed[b] => r.sealed[b]
  BY <1>1, <1>3, SealedIs
<1> HIDE DEF f, r
<1>5. /\ next' \in [Procs -> Rows] /\ next'[w] = r
      /\ \A q \in Procs \ {w} : next'[q] = next[q]
  BY <1>1, <1>2, <1>4, Written
<1>6. /\ pc' \in [Procs -> Steps] /\ pc'[w] = "commit"
      /\ \A q \in Procs \ {w} : pc'[q] = pc[q]
  BY <1>1, <1>2, Moved DEF Steps
<1>7. TypeOK'
  BY <1>1, <1>5, <1>6 DEF TypeOK, Steps, outside
<1>8. \A q \in Procs : Serving(q)' => Serving(q)
  BY <1>6 DEF Serving
<1>9. Current'
  BY <1>8 DEF Turns, Current, SameTurn, Unsealed
<1>10. Prepared'
  <2> SUFFICES ASSUME NEW q \in Procs, pc'[q] = "commit"
               PROVE  (/\ next[q].round = snap[q].round /\ next[q].seq = snap[q].seq
                       /\ next[q].opened = snap[q].opened /\ next[q].deadline = snap[q].deadline
                       /\ \A a \in Seats : snap[q].sealed[a] => next[q].sealed[a])'
    BY DEF Prepared
  <2>1. CASE q = w
    BY <1>4, <1>5, <2>1
  <2>2. CASE q # w
    BY <1>5, <1>6, <2>2 DEF Turns, Prepared
  <2> QED BY <2>1, <2>2
<1>11. SomebodyThinks'
  BY DEF Turns, SomebodyThinks, Unsealed
<1> QED BY <1>7, <1>9, <1>10, <1>11 DEF Turns

\* A probe that does not end the turn grants an extension: within the ceiling, and only
\* if no seat that is waited for had its move refused.
LEMMA Probed ==
    ASSUME TypeOK, NEW w \in Procs, Unsealed(snap[w]) # {}, Probe(w), ~ ForceTimeouts(w)
    PROVE  /\ Goto(w, "extend")
           /\ refused \cap Unsealed(snap[w]) = {}
           /\ \E g \in Nat :
                 /\ g > 0
                 /\ now + g + MoveWindow(Unsealed(snap[w])) <= snap[w].base + Ceiling
                 /\ next' = [next EXCEPT ![w] = [snap[w] EXCEPT !.deadline = now + g]]
<1> DEFINE g == Grant(snap[w], now)
<1>1. PICK alive \in SUBSET Seats :
         /\ g > 0 /\ StillThinking(snap[w], alive)
         /\ Goto(w, "extend")
         /\ WillWrite(w, [snap[w] EXCEPT !.deadline = now + g])
  BY DEF Probe
<1>2. snap[w] \in Rows /\ now \in Nat
  BY DEF TypeOK
<1>3. g \in Nat /\ now + g + MoveWindow(Unsealed(snap[w])) <= snap[w].base + Ceiling
  BY <1>1, <1>2, GrantBound
<1>4. refused \cap Unsealed(snap[w]) = {}
  BY <1>1 DEF StillThinking
<1> HIDE DEF g
<1> QED BY <1>1, <1>3, <1>4 DEF WillWrite

\* Either outcome of a probe.
LEMMA TurnsProbed ==
    ASSUME Turns, NEW w \in Procs, Probe(w)
    PROVE  Turns'
<1>1. /\ TypeOK /\ snap[w] \in Rows /\ now \in Nat /\ pc[w] = "probe"
      /\ UNCHANGED <<outside, lease, row, log, talk, refused, snap>>
  BY DEF Turns, TypeOK, Probe
<1>2. Serving(w)
  BY <1>1 DEF Serving
<1>3. ASSUME ~ ForceTimeouts(w) PROVE Turns'
  <2>1. Unsealed(snap[w]) # {}
    BY <1>2 DEF Turns, Current
  <2>2. Goto(w, "extend")
    BY <1>1, <1>3, <2>1, Probed
  <2>3. PICK g \in Nat : next' = [next EXCEPT ![w] = [snap[w] EXCEPT !.deadline = now + g]]
    BY <1>1, <1>3, <2>1, Probed
  <2> DEFINE r == [snap[w] EXCEPT !.deadline = now + g]
  <2>4. r \in Rows
    <3>1. now + g \in Nat
      BY <1>1
    <3> QED BY <1>1, <3>1, ExtendedIs
  <2>5. next' = [next EXCEPT ![w] = r]
    BY <2>3
  <2> HIDE DEF r
  <2>6. /\ next' \in [Procs -> Rows]
        /\ \A q \in Procs \ {w} : next'[q] = next[q]
    BY <1>1, <2>4, <2>5, Written
  <2>7. /\ pc' \in [Procs -> Steps] /\ pc'[w] = "extend"
        /\ \A q \in Procs \ {w} : pc'[q] = pc[q]
    BY <1>1, <2>2, Moved DEF Steps
  <2>8. TypeOK'
    BY <1>1, <2>6, <2>7 DEF TypeOK, Steps, outside
  <2>9. \A q \in Procs : pc'[q] \in {"probe", "extend", "commit"} =>
           Serving(q) /\ snap'[q] = snap[q]
    BY <1>1, <1>2, <2>7 DEF Serving
  <2>10. \A q \in Procs : pc'[q] = "commit" => pc[q] = "commit" /\ next'[q] = next[q]
    BY <2>6, <2>7
  <2>11. log' = log /\ SameTurn(row', row)
    BY <1>1 DEF SameTurn
  <2> QED BY <2>8, <2>9, <2>10, <2>11, TurnsKept
<1> QED BY <1>1, <1>2, <1>3, TurnsForced

\* The optimistic check: a process whose commit is not refused writes the seals of the
\* row as it is now, and its own.
LEMMA Fresh ==
    ASSUME Turns, NEW p \in Procs, pc[p] = "commit", Playing, ~ Conflict(p)
    PROVE  /\ next[p] \in Rows /\ next[p].round = row.round /\ next[p].seq = log
           /\ next[p].round <= Rounds /\ next[p].opened = row.opened
           /\ next[p].deadline = snap[p].deadline
           /\ \A a \in Seats : row.sealed[a] => next[p].sealed[a]
<1>1. next[p] \in Rows
  BY DEF Turns, TypeOK
<1>2. snap[p].seq = log
  BY DEF Conflict
<1>3. SameTurn(snap[p], row)
  BY <1>2 DEF Turns, Current, Serving
<1> QED BY <1>1, <1>2, <1>3 DEF Turns, Prepared, SameTurn, Playing

\* A commit overtakes whoever read the row before: from now on their sequence number is
\* too small.
LEMMA TurnsCommitted ==
    ASSUME Turns, NEW p \in Procs, Commit(p)
    PROVE  Turns'
<1>1. /\ TypeOK /\ now \in Nat /\ log \in Nat /\ pc[p] = "commit" /\ Playing /\ ~ Conflict(p)
      /\ Leave(p) /\ UNCHANGED <<outside, talk>> /\ log' = log + 1
  BY DEF Turns, TypeOK, Commit
<1>2. /\ lease' \in Procs \cup {"free"}
      /\ snap' \in [Procs -> Rows] /\ next' \in [Procs -> Rows]
      /\ pc' \in [Procs -> Steps] /\ pc'[p] = "idle"
      /\ \A q \in Procs \ {p} : pc'[q] = pc[q] /\ snap'[q] = snap[q] /\ next'[q] = next[q]
  BY <1>1, Left
<1>3. /\ next[p] \in Rows /\ next[p].seq = log /\ next[p].round <= Rounds
  BY <1>1, Fresh
<1>4. row' \in Rows /\ row'.seq = log' /\ Unsealed(row') # {} /\ refused' \subseteq Seats
  <2>1. CASE Unsealed(next[p]) = {}
    <3>1. row' = Opened(next[p]) /\ refused' = {}
      BY <2>1 DEF Commit
    <3> QED BY <1>1, <1>3, <3>1, OpenedIs, SeatsAssumption
  <2>2. CASE Unsealed(next[p]) # {}
    <3>1. row' = Continued(next[p]) /\ refused' = refused
      BY <2>2 DEF Commit
    <3>2. refused \subseteq Seats
      BY <1>1 DEF TypeOK
    <3> QED BY <1>1, <1>3, <2>2, <3>1, <3>2, ContinuedIs
  <2> QED BY <2>1, <2>2
<1>5. TypeOK'
  BY <1>1, <1>2, <1>4 DEF TypeOK, Steps, outside
<1>6. Current'
  <2> SUFFICES ASSUME NEW q \in Procs, Serving(q)'
               PROVE  (/\ snap[q].seq <= log /\ (snap[q].seq = log => SameTurn(snap[q], row))
                       /\ Unsealed(snap[q]) # {})'
    BY DEF Current
  <2>1. q # p /\ Serving(q) /\ snap'[q] = snap[q]
    BY <1>2 DEF Serving
  <2>2. snap[q].seq <= log /\ Unsealed(snap[q]) # {}
    BY <2>1 DEF Turns, Current
  <2>3. snap[q].seq \in Nat
    BY <1>1 DEF TypeOK, Rows
  <2>4. snap'[q].seq <= log' /\ snap'[q].seq # log'
    BY <1>1, <2>1, <2>2, <2>3
  <2> QED BY <2>1, <2>2, <2>4 DEF Unsealed
<1>7. Prepared'
  <2> SUFFICES ASSUME NEW q \in Procs, pc'[q] = "commit"
               PROVE  (/\ next[q].round = snap[q].round /\ next[q].seq = snap[q].seq
                       /\ next[q].opened = snap[q].opened /\ next[q].deadline = snap[q].deadline
                       /\ \A a \in Seats : snap[q].sealed[a] => next[q].sealed[a])'
    BY DEF Prepared
  <2>1. q # p /\ pc[q] = "commit" /\ next'[q] = next[q] /\ snap'[q] = snap[q]
    BY <1>2
  <2> QED BY <2>1 DEF Turns, Prepared
<1>8. SomebodyThinks'
  BY <1>4 DEF SomebodyThinks, Unsealed
<1> QED BY <1>5, <1>6, <1>7, <1>8 DEF Turns

\* A process that returns without having committed.
LEMMA TurnsLeft ==
    ASSUME Turns, NEW p \in Procs, Leave(p), UNCHANGED <<outside, log, talk, refused>>,
           row' \in Rows, row'.seq = row.seq, SameTurn(row', row)
    PROVE  Turns'
<1>1. TypeOK
  BY DEF Turns
<1>2. /\ lease' \in Procs \cup {"free"}
      /\ snap' \in [Procs -> Rows] /\ next' \in [Procs -> Rows]
      /\ pc' \in [Procs -> Steps] /\ pc'[p] = "idle"
      /\ \A q \in Procs \ {p} : pc'[q] = pc[q] /\ snap'[q] = snap[q] /\ next'[q] = next[q]
  BY <1>1, Left
<1>3. TypeOK'
  BY <1>1, <1>2 DEF TypeOK, Steps, outside
<1>4. \A q \in Procs : pc'[q] \in {"probe", "extend", "commit"} =>
         Serving(q) /\ snap'[q] = snap[q]
  BY <1>2 DEF Serving
<1>5. \A q \in Procs : pc'[q] = "commit" => pc[q] = "commit" /\ next'[q] = next[q]
  BY <1>2
<1> QED BY <1>3, <1>4, <1>5, TurnsKept

\* A sweeper that lists, or skips, the match.
LEMMA TurnsGone ==
    ASSUME Turns, NEW w \in Procs, NEW step \in {"idle", "listed"}, Goto(w, step),
           UNCHANGED <<outside, lease, row, log, talk, refused, snap, next>>
    PROVE  Turns'
<1>1. TypeOK /\ step \in Steps
  BY DEF Turns, Steps
<1>2. /\ pc' \in [Procs -> Steps] /\ pc'[w] = step
      /\ \A q \in Procs \ {w} : pc'[q] = pc[q]
  BY <1>1, Moved
<1>3. TypeOK'
  BY <1>1, <1>2 DEF TypeOK, Steps, outside
<1>4. \A q \in Procs : pc'[q] \in {"probe", "extend", "commit"} =>
         Serving(q) /\ snap'[q] = snap[q]
  BY <1>2 DEF Serving
<1>5. \A q \in Procs : pc'[q] = "commit" => pc[q] = "commit" /\ next'[q] = next[q]
  BY <1>2
<1> QED BY <1>3, <1>4, <1>5, TurnsKept DEF SameTurn

\* The clock, and refused moves.
LEMMA TurnsOutside ==
    ASSUME Turns, now' \in Nat, refused' \subseteq Seats,
           UNCHANGED <<fleet, lease, row, log, talk, pc, snap, next>>
    PROVE  Turns'
<1>1. TypeOK'
  BY DEF Turns, TypeOK
<1>2. log' = log /\ SameTurn(row', row)
  BY DEF SameTurn
<1> QED BY <1>1, <1>2, TurnsKept DEF Serving

\* Every step of a sweeper.
LEMMA TurnsSwept ==
    ASSUME Turns, NEW w \in Procs, Sweep(w)
    PROVE  Turns'
<1>1. CASE ListExpired(w)
  BY <1>1, TurnsGone DEF ListExpired
<1>2. CASE HandleTimeout(w)
  <2>1. CASE Playing /\ now >= row.deadline
    <3>1. /\ Enter(w, "probe") /\ UNCHANGED <<outside, row, log>>
          /\ refused' \subseteq Seats /\ talk' \in Nat /\ next' \in [Procs -> Rows]
          /\ \A q \in Procs \ {w} : next'[q] = next[q]
      BY <1>2, <2>1 DEF HandleTimeout, Turns, TypeOK
    <3> QED BY <3>1, TurnsEntered
  <2>2. CASE ~ (Playing /\ now >= row.deadline)
    BY <1>2, <2>2, TurnsGone DEF HandleTimeout
  <2> QED BY <2>1, <2>2
<1>3. CASE SkipLocked(w)
  BY <1>3, TurnsGone DEF SkipLocked
<1>4. CASE Probe(w)
  BY <1>4, TurnsProbed
<1>5. CASE Extend(w)
  <2>1. next[w].deadline \in Nat /\ row \in Rows
    BY DEF Turns, TypeOK, Rows
  <2>2. row' \in Rows /\ row'.seq = row.seq /\ SameTurn(row', row)
    BY <1>5, <2>1, ExtendedIs DEF Extend, SameTurn
  <2> QED BY <1>5, <2>2, TurnsLeft DEF Extend
<1>6. CASE ExtendFails(w)
  BY <1>6, TurnsForced DEF ExtendFails, Serving
<1> QED BY <1>1, <1>2, <1>3, <1>4, <1>5, <1>6 DEF Sweep

\* Every step keeps the invariant, with locks or without.
LEMMA TurnsStep ==
    ASSUME Turns, [Next]_vars
    PROVE  Turns'
<1>0. TypeOK /\ row \in Rows /\ refused \subseteq Seats /\ now \in Nat
  BY DEF Turns, TypeOK
<1>1. ASSUME NEW p \in Requests, Say(p) \/ (\E a \in Seats : Act(p, a) \/ Refuse(p, a))
      PROVE  Turns'
  <2>1. p \in Procs
    BY DEF Procs
  <2>2. CASE Say(p)
    BY <2>1, <2>2, TurnsSaid
  <2>3. ASSUME NEW a \in Seats, Act(p, a) PROVE Turns'
    BY <2>1, <2>3, TurnsActed
  <2>4. ASSUME NEW a \in Seats, Refuse(p, a) PROVE Turns'
    BY <1>0, <2>4, TurnsOutside DEF Refuse, outside
  <2> QED BY <1>1, <2>2, <2>3, <2>4
<1>2. ASSUME NEW w \in Sweepers, Sweep(w) PROVE Turns'
  BY <1>2, TurnsSwept DEF Procs
<1>3. ASSUME NEW p \in Procs, Commit(p) \/ CommitRefused(p) PROVE Turns'
  <2>1. CASE Commit(p)
    BY <2>1, TurnsCommitted
  <2>2. CASE CommitRefused(p)
    BY <1>0, <2>2, TurnsLeft DEF CommitRefused, SameTurn
  <2> QED BY <1>3, <2>1, <2>2
<1>4. CASE Tick
  BY <1>0, <1>4, TurnsOutside DEF Tick
<1>5. CASE UNCHANGED vars
  BY <1>0, <1>5, TurnsOutside DEF vars
<1> QED BY <1>0, <1>1, <1>2, <1>3, <1>4, <1>5, Whose

-----------------------------------------------------------------------------
(* The lock is honoured *)

\* Nobody but p is serving the match.
Single(p) == \A q \in Procs \ {p} : ~ Serving(q)

\* Nobody is serving the match while its lock is free.
LEMMA LeaseFree ==
    ASSUME Exclusive, lease = "free", NEW q \in Procs
    PROVE  ~ Serving(q)
BY ActorsAssumption DEF Exclusive, Procs

\* The process that is serving the match is the only one.
LEMMA LeaseHeld ==
    ASSUME Exclusive, NEW p \in Procs, Serving(p)
    PROVE  Single(p)
BY DEF Exclusive, Single

\* With the lock, the invariant survives the end of a request that leaves the round its
\* window.
LEMMA LockedFree ==
    ASSUME TypeOK, fleet.locking, Locked, NEW p \in Procs, Leave(p), Serving(p),
           UNCHANGED outside, row' \in Rows, row'.deadline >= row'.opened + MoveWindow(Seats)
    PROVE  Locked'
<1>1. Single(p)
  BY LeaseHeld DEF Locked
<1>2. /\ pc' \in [Procs -> Steps] /\ pc'[p] = "idle"
      /\ \A q \in Procs \ {p} : pc'[q] = pc[q]
  BY Left
<1>3. \A q \in Procs : pc'[q] \notin {"probe", "extend", "commit"}
  BY <1>1, <1>2 DEF Single, Serving
<1>4. Exclusive' /\ Earned'
  BY <1>3 DEF Exclusive, Earned, Serving
<1>5. OnTime'
  BY <1>3 DEF OnTime, Serving, MoveWindow, Procs
<1> QED BY <1>4, <1>5 DEF Locked

\* It survives the start of a request, and a sweeper that found the deadline over.
LEMMA LockedEntered ==
    ASSUME TypeOK, fleet.locking, Locked, NEW p \in Procs, NEW step \in {"probe", "commit"},
           Enter(p, step), UNCHANGED <<outside, row>>,
           p \in Sweepers => now >= row.deadline
    PROVE  Locked'
<1>1. step \in Steps
  BY DEF Steps
<1>2. /\ lease = "free" /\ lease' = p /\ snap'[p] = row
      /\ pc'[p] = step /\ \A q \in Procs \ {p} : pc'[q] = pc[q]
  BY <1>1, Entered
<1>3. \A q \in Procs : ~ Serving(q)
  BY <1>2, LeaseFree DEF Locked
<1>4. \A q \in Procs : Serving(q)' => q = p
  BY <1>2, <1>3 DEF Serving
<1>5. Exclusive'
  BY <1>2, <1>4 DEF Exclusive
<1>6. OnTime'
  BY <1>4 DEF OnTime, Locked, MoveWindow, Procs, outside
<1>7. Earned'
  <2>1. \A q \in Procs : pc'[q] # "extend"
    BY <1>2, <1>3 DEF Serving
  <2> QED BY <2>1 DEF Earned
<1> QED BY <1>5, <1>6, <1>7 DEF Locked

\* It survives a step that starts nothing and leaves the row alone.
LEMMA LockedKept ==
    ASSUME TypeOK, Locked, fleet' = fleet, row' = row, now' \in Nat, now' >= now,
           \A q \in Procs : Serving(q)' =>
              Serving(q) /\ snap'[q] = snap[q] /\ lease' = lease,
           \A q \in Procs : pc'[q] = "extend" =>
              pc[q] = "extend" /\ next'[q] = next[q] /\ refused' = refused
    PROVE  Locked'
<1> SUFFICES ASSUME fleet.locking PROVE (Exclusive /\ OnTime /\ Earned)'
  BY DEF Locked
<1>1. Exclusive /\ OnTime /\ Earned
  BY DEF Locked
<1>2. Exclusive'
  BY <1>1 DEF Exclusive
<1>3. OnTime'
  <2>1. row.deadline \in Nat /\ now \in Nat
    BY DEF TypeOK, Rows
  <2>2. (row.deadline >= row.opened + MoveWindow(Seats))'
    BY <1>1 DEF OnTime, MoveWindow
  <2>3. ASSUME NEW w \in Sweepers, Serving(w)' PROVE now' >= row'.deadline
    <3>1. now >= row.deadline
      BY <1>1, <2>3 DEF OnTime, Procs
    <3> QED BY <2>1, <3>1
  <2> QED BY <2>2, <2>3 DEF OnTime
<1>4. Earned'
  BY <1>1 DEF Earned, Unsealed, MoveWindow
<1> QED BY <1>2, <1>3, <1>4

\* It survives a sweeper that will play for the seats that have not sealed.
LEMMA LockedForced ==
    ASSUME TypeOK, Locked, NEW w \in Procs, Serving(w), ForceTimeouts(w),
           UNCHANGED <<outside, lease, row, log, talk, refused, snap>>
    PROVE  Locked'
<1>1. Goto(w, "commit") /\ "commit" \in Steps
  BY DEF ForceTimeouts, Steps
<1>2. pc'[w] = "commit" /\ \A q \in Procs \ {w} : pc'[q] = pc[q]
  BY <1>1, Moved
<1>3. \A q \in Procs \ {w} : next'[q] = next[q]
  BY DEF TypeOK, ForceTimeouts, WillWrite
<1>4. now' \in Nat /\ now' >= now
  BY DEF TypeOK, outside
<1> QED BY <1>2, <1>3, <1>4, LockedKept DEF Serving, outside

\* It survives a probe: the extension it grants is earned, because what it read is the
\* row and stays so until it is written.
LEMMA LockedProbed ==
    ASSUME Turns, Locked, NEW w \in Sweepers, Probe(w)
    PROVE  Locked'
<1>0. w \in Procs
  BY DEF Procs
<1>1. /\ TypeOK /\ snap[w] \in Rows /\ now \in Nat /\ pc[w] = "probe"
      /\ UNCHANGED <<outside, lease, row, log, talk, refused, snap>>
  BY <1>0 DEF Turns, TypeOK, Probe
<1>2. Serving(w)
  BY <1>1 DEF Serving
<1>3. ASSUME ~ ForceTimeouts(w), fleet.locking PROVE Locked'
  <2>1. Exclusive /\ OnTime /\ snap[w] = row /\ Single(w) /\ now >= row.deadline
    BY <1>0, <1>2, <1>3, LeaseHeld DEF Locked, Exclusive, OnTime
  <2>2. Unsealed(snap[w]) # {}
    BY <1>0, <1>2 DEF Turns, Current
  <2>3. Goto(w, "extend") /\ refused \cap Unsealed(row) = {}
    BY <1>0, <1>1, <1>3, <2>1, <2>2, Probed
  <2>4. PICK g \in Nat :
          /\ g > 0
          /\ now + g + MoveWindow(Unsealed(row)) <= row.base + Ceiling
          /\ next' = [next EXCEPT ![w] = [snap[w] EXCEPT !.deadline = now + g]]
    BY <1>0, <1>1, <1>3, <2>1, <2>2, Probed
  <2>5. /\ pc'[w] = "extend" /\ \A q \in Procs \ {w} : pc'[q] = pc[q]
    BY <1>0, <1>1, <2>3, Moved DEF Steps
  <2>6. next'[w].deadline = now + g
    <3> DEFINE r == [snap[w] EXCEPT !.deadline = now + g]
    <3>0. now + g \in Nat
      BY <1>1
    <3>1. r \in Rows /\ r.deadline = now + g
      BY <1>1, <3>0, ExtendedIs
    <3>2. next' = [next EXCEPT ![w] = r]
      BY <2>4
    <3> HIDE DEF r
    <3>3. next'[w] = r
      BY <1>0, <1>1, <3>1, <3>2, Written
    <3> QED BY <3>1, <3>3
  <2>7. \A q \in Procs : Serving(q)' => q = w
    BY <2>1, <2>5 DEF Single, Serving
  <2>8. Exclusive'
    BY <1>0, <1>1, <1>2, <2>1, <2>7 DEF Exclusive
  <2>9. OnTime'
    BY <1>1, <2>1, <2>7 DEF OnTime, MoveWindow, Procs, outside
  <2>10. Earned'
    <3> SUFFICES ASSUME NEW q \in Procs, pc'[q] = "extend"
                 PROVE  (/\ refused \cap Unsealed(row) = {}
                         /\ next[q].deadline >= row.deadline
                         /\ next[q].deadline + MoveWindow(Unsealed(row)) <= row.base + Ceiling)'
      BY DEF Earned
    <3>1. q = w
      BY <2>7 DEF Serving
    <3>2. row.deadline \in Nat /\ now + g >= row.deadline
      <4>1. row.deadline \in Nat
        BY <1>1 DEF TypeOK, Rows
      <4> QED BY <1>1, <2>1, <4>1
    <3>3. /\ refused' = refused /\ Unsealed(row)' = Unsealed(row)
          /\ MoveWindow(Unsealed(row))' = MoveWindow(Unsealed(row)) /\ row' = row
      BY <1>1 DEF Unsealed, MoveWindow
    <3> HIDE DEF MoveWindow, Unsealed
    <3> QED BY <2>3, <2>4, <2>6, <3>1, <3>2, <3>3
  <2> QED BY <2>8, <2>9, <2>10 DEF Locked
<1>4. CASE ~ fleet.locking
  BY <1>1, <1>4 DEF Locked, outside
<1> QED BY <1>0, <1>1, <1>2, <1>3, <1>4, LockedForced

\* An extension never pulls the deadline forward.
LEMMA LockedExtended ==
    ASSUME Turns, Locked, fleet.locking, NEW w \in Procs, Extend(w)
    PROVE  Locked'
<1>1. /\ TypeOK /\ pc[w] = "extend" /\ Leave(w) /\ UNCHANGED outside
      /\ row \in Rows /\ next[w].deadline \in Nat
      /\ row' = IF Playing THEN [row EXCEPT !.deadline = next[w].deadline] ELSE row
  BY DEF Turns, TypeOK, Rows, Extend
<1>2. /\ row.deadline >= row.opened + MoveWindow(Seats)
      /\ next[w].deadline >= row.deadline
  BY <1>1 DEF Locked, OnTime, Earned
<1>3. row' \in Rows /\ row'.opened = row.opened /\ row'.deadline \in {row.deadline, next[w].deadline}
  BY <1>1, ExtendedIs DEF SameTurn
<1>4. row'.deadline >= row'.opened + MoveWindow(Seats)
  <2>1. row.deadline \in Nat /\ row.opened \in Nat
    BY <1>1 DEF Rows
  <2> QED BY <1>1, <1>2, <1>3, <2>1, SeatsWindow
<1> QED BY <1>1, <1>3, <1>4, LockedFree DEF Serving

\* A commit opens a round with its full window, or leaves the deadline as it was.
LEMMA LockedCommitted ==
    ASSUME Turns, Locked, fleet.locking, NEW p \in Procs, Commit(p)
    PROVE  Locked'
<1>1. /\ TypeOK /\ now \in Nat /\ pc[p] = "commit" /\ Playing /\ ~ Conflict(p)
      /\ Leave(p) /\ UNCHANGED outside
  BY DEF Turns, TypeOK, Commit
<1>2. /\ next[p] \in Rows /\ next[p].round <= Rounds /\ next[p].opened = row.opened
      /\ next[p].deadline = snap[p].deadline
  BY <1>1, Fresh
<1>3. /\ row.deadline >= row.opened + MoveWindow(Seats)
      /\ snap[p] = row
  BY <1>1 DEF Locked, OnTime, Exclusive, Serving
<1>4. row' \in Rows /\ row'.deadline >= row'.opened + MoveWindow(Seats)
  <2>1. CASE Unsealed(next[p]) = {}
    <3>1. row' = Opened(next[p])
      BY <2>1 DEF Commit
    <3>2. row' \in Rows /\ row'.opened = now /\ row'.deadline = now + MoveWindow(Seats)
      BY <1>1, <1>2, <3>1, OpenedIs
    <3> QED BY <1>1, <3>2, SeatsWindow
  <2>2. CASE Unsealed(next[p]) # {}
    <3>1. row' = Continued(next[p])
      BY <2>2 DEF Commit
    <3> QED BY <1>2, <1>3, <3>1, ContinuedIs
  <2> QED BY <2>1, <2>2
<1> QED BY <1>1, <1>4, LockedFree DEF Serving

\* Every step of a sweeper keeps it.
LEMMA LockedSwept ==
    ASSUME Turns, Locked, fleet.locking, NEW w \in Sweepers, Sweep(w)
    PROVE  Locked'
<1>0. w \in Procs /\ TypeOK /\ now \in Nat
  BY DEF Procs, Turns, TypeOK
<1>1. ASSUME NEW step \in {"idle", "listed"}, Goto(w, step),
             UNCHANGED <<outside, lease, row, log, talk, refused, snap, next>>
      PROVE  Locked'
  <2>1. pc'[w] = step /\ \A q \in Procs \ {w} : pc'[q] = pc[q]
    BY <1>0, <1>1, Moved DEF Steps
  <2>2. now' \in Nat /\ now' >= now
    BY <1>0, <1>1 DEF outside
  <2> QED BY <1>0, <1>1, <2>1, <2>2, LockedKept DEF Serving, outside
<1>2. CASE ListExpired(w)
  BY <1>1, <1>2 DEF ListExpired
<1>3. CASE HandleTimeout(w)
  <2>1. CASE Playing /\ now >= row.deadline
    BY <1>0, <1>3, <2>1, LockedEntered DEF HandleTimeout
  <2>2. CASE ~ (Playing /\ now >= row.deadline)
    BY <1>1, <1>3, <2>2 DEF HandleTimeout
  <2> QED BY <2>1, <2>2
<1>4. CASE SkipLocked(w)
  BY <1>1, <1>4 DEF SkipLocked
<1>5. CASE Probe(w)
  BY <1>5, LockedProbed
<1>6. CASE Extend(w)
  BY <1>0, <1>6, LockedExtended
<1>7. CASE ExtendFails(w)
  BY <1>0, <1>7, LockedForced DEF ExtendFails, Serving
<1> QED BY <1>2, <1>3, <1>4, <1>5, <1>6, <1>7 DEF Sweep

\* Every step keeps the invariant of the lock.
LEMMA LockedStep ==
    ASSUME Turns, Locked, [Next]_vars
    PROVE  Locked'
<1>0. TypeOK /\ row \in Rows /\ now \in Nat
  BY DEF Turns, TypeOK
<1>1. CASE ~ fleet.locking
  <2>1. fleet' = fleet
    BY DEF Next, Tick, Sweep, ListExpired, HandleTimeout, SkipLocked, Probe, Extend,
           ExtendFails, Commit, CommitRefused, Say, Act, Refuse, outside, vars
  <2> QED BY <1>1, <2>1 DEF Locked
<1>2. ASSUME fleet.locking, NEW p \in Requests,
             Say(p) \/ (\E a \in Seats : Act(p, a) \/ Refuse(p, a))
      PROVE  Locked'
  <2>1. p \in Procs /\ p \notin Sweepers
    BY ActorsAssumption DEF Procs
  <2>2. CASE Say(p)
    BY <1>0, <1>2, <2>1, <2>2, LockedEntered DEF Say
  <2>3. ASSUME NEW a \in Seats, Act(p, a) PROVE Locked'
    BY <1>0, <1>2, <2>1, <2>3, LockedEntered DEF Act
  <2>4. ASSUME NEW a \in Seats, Refuse(p, a) PROVE Locked'
    <3>1. lease = "free" /\ UNCHANGED <<outside, lease, row, pc, snap, next>>
      BY <1>2, <2>4 DEF Refuse
    <3>2. \A q \in Procs : ~ Serving(q)
      BY <1>2, <3>1, LeaseFree DEF Locked
    <3>3. now' \in Nat /\ now' >= now /\ fleet' = fleet
      BY <1>0, <3>1 DEF outside
    <3> QED BY <1>0, <3>1, <3>2, <3>3, LockedKept DEF Serving
  <2> QED BY <1>2, <2>2, <2>3, <2>4
<1>3. ASSUME fleet.locking, NEW w \in Sweepers, Sweep(w) PROVE Locked'
  BY <1>3, LockedSwept
<1>4. ASSUME fleet.locking, NEW p \in Procs, Commit(p) \/ CommitRefused(p) PROVE Locked'
  <2>1. CASE Commit(p)
    BY <1>4, <2>1, LockedCommitted
  <2>2. CASE CommitRefused(p)
    <3>1. row.deadline >= row.opened + MoveWindow(Seats)
      BY <1>4 DEF Locked, OnTime
    <3>2. /\ Leave(p) /\ UNCHANGED outside /\ row' = row /\ pc[p] = "commit"
      BY <2>2 DEF CommitRefused
    <3> QED BY <1>0, <1>4, <3>1, <3>2, LockedFree DEF Serving
  <2> QED BY <1>4, <2>1, <2>2
<1>5. CASE Tick
  <2>1. /\ now' \in Nat /\ now' >= now
        /\ UNCHANGED <<fleet, lease, row, log, talk, refused, pc, snap, next>>
    BY <1>0, <1>5 DEF Tick
  <2> QED BY <1>0, <2>1, LockedKept DEF Serving
<1>6. CASE UNCHANGED vars
  <2>1. /\ now' \in Nat /\ now' >= now
        /\ UNCHANGED <<fleet, lease, row, log, talk, refused, pc, snap, next>>
    BY <1>0, <1>6 DEF vars
  <2> QED BY <1>0, <2>1, LockedKept DEF Serving
<1> QED BY <1>0, <1>1, <1>2, <1>3, <1>4, <1>5, <1>6, Whose

\* It holds when the match starts.
LEMMA LockedInit == Init => Locked
<1> SUFFICES ASSUME Init PROVE Locked
  OBVIOUS
<1>1. \A p \in Procs : ~ Serving(p) /\ pc[p] # "extend"
  BY DEF Init, Serving
<1>2. row.deadline >= row.opened + MoveWindow(Seats)
  BY FirstIs, SeatsWindow DEF Init
<1> QED BY <1>1, <1>2 DEF Locked, Exclusive, OnTime, Earned, Procs

\* Both hold in every reachable state.
LEMMA TurnsAndLock == Spec => [](Turns /\ Locked)
<1>1. Init => Turns /\ Locked
  BY TurnsInit, LockedInit
<1>2. Turns /\ Locked /\ [Next]_vars => (Turns /\ Locked)'
  <2> SUFFICES ASSUME Turns, Locked, [Next]_vars PROVE Turns' /\ Locked'
    OBVIOUS
  <2> QED BY TurnsStep, LockedStep
<1> QED BY <1>1, <1>2, PTL DEF Spec

-----------------------------------------------------------------------------
(* What follows *)

\* Only commit and ExtendDeadline write the row.
LEMMA RowsWriters ==
    ASSUME Turns, [Next]_vars, row' # row
    PROVE  \/ \E p \in Procs : Commit(p)
           \/ \E w \in Sweepers : Extend(w)
<1>1. fleet.procs \subseteq Procs
  BY FleetsAssumption DEF Turns, TypeOK, Procs
<1> QED BY <1>1 DEF Next, Tick, Sweep, ListExpired, HandleTimeout, SkipLocked, Probe,
           ExtendFails, CommitRefused, Say, Act, Refuse, outside, vars

\* A commit resolves the round it read, or keeps its deadline and its seals.
LEMMA CommitTurns ==
    ASSUME Turns, NEW p \in Procs, Commit(p)
    PROVE  \/ row'.round = row.round + 1
           \/ /\ row'.round = row.round /\ row'.deadline = snap[p].deadline
              /\ \A a \in Seats : row.sealed[a] => row'.sealed[a]
<1>1. now \in Nat /\ pc[p] = "commit" /\ Playing /\ ~ Conflict(p)
  BY DEF Turns, TypeOK, Commit
<1>2. /\ next[p] \in Rows /\ next[p].round <= Rounds /\ next[p].round = row.round
      /\ next[p].deadline = snap[p].deadline
      /\ \A a \in Seats : row.sealed[a] => next[p].sealed[a]
  BY <1>1, Fresh
<1>3. CASE Unsealed(next[p]) = {}
  BY <1>1, <1>2, <1>3, OpenedIs DEF Commit
<1>4. CASE Unsealed(next[p]) # {}
  BY <1>2, <1>4, ContinuedIs DEF Commit
<1> QED BY <1>3, <1>4

\* An extension stays in the round whose seals it found.
LEMMA ExtendTurns ==
    ASSUME Turns, NEW w \in Procs, Extend(w)
    PROVE  /\ SameTurn(row', row) /\ row'.base = row.base
           /\ row'.deadline \in {row.deadline, next[w].deadline}
<1>1. row \in Rows /\ next[w].deadline \in Nat
  BY DEF Turns, TypeOK, Rows
<1> QED BY <1>1, ExtendedIs DEF Extend, SameTurn

\* The types of the match, and that the row's next sequence number is the length of the
\* event log, for any table and fleet.
THEOREM RoundTypes == Spec => []TypeOK
<1>1. Turns => TypeOK
  BY DEF Turns
<1> QED BY <1>1, TurnsAndLock, PTL

\* A card that was sealed is not taken back, with or without the lock: commits of processes
\* that read an older state are refused, and an extension writes no seal.
THEOREM RoundSealsStick == Spec => SealsStick
<1>1. Turns /\ [Next]_vars =>
        [\/ row'.round = row.round /\ \A a \in Seats : row.sealed[a] => row'.sealed[a]
         \/ row'.round = row.round + 1]_vars
  <2> SUFFICES ASSUME Turns, [Next]_vars, row' # row
               PROVE  \/ row'.round = row.round /\ \A a \in Seats : row.sealed[a] => row'.sealed[a]
                      \/ row'.round = row.round + 1
    OBVIOUS
  <2>1. ASSUME NEW p \in Procs, Commit(p)
        PROVE  \/ row'.round = row.round /\ \A a \in Seats : row.sealed[a] => row'.sealed[a]
               \/ row'.round = row.round + 1
    BY <2>1, CommitTurns
  <2>2. ASSUME NEW w \in Sweepers, Extend(w)
        PROVE  row'.round = row.round /\ \A a \in Seats : row.sealed[a] => row'.sealed[a]
    BY <2>2, ExtendTurns DEF Procs, SameTurn
  <2> QED BY <2>1, <2>2, RowsWriters
<1> QED BY <1>1, TurnsAndLock, PTL DEF Spec, SealsStick

\* With the lock, no sweeper plays for a seat before the window the round opened with is
\* over, however the match moved between listing it and handling it.
THEOREM RoundWindowIsHonoured == Spec => WindowIsHonoured
<1>1. Turns /\ Locked /\ [Next]_vars =>
        [fleet.locking /\ row'.round # row.round /\ (\E w \in Sweepers : pc[w] # pc'[w])
           => now >= row.opened + MoveWindow(Seats)]_vars
  <2> SUFFICES ASSUME Turns, Locked, [Next]_vars, fleet.locking, row'.round # row.round,
                      NEW w \in Sweepers, pc[w] # pc'[w]
               PROVE  now >= row.opened + MoveWindow(Seats)
    OBVIOUS
  <2>1. w \in Procs
    BY DEF Procs
  <2>2. PICK p \in Procs : Commit(p)
    <3>1. ASSUME NEW q \in Sweepers, Extend(q) PROVE FALSE
      BY <3>1, ExtendTurns DEF Procs, SameTurn
    <3> QED BY <3>1, RowsWriters
  <2>3. p = w /\ pc[w] = "commit"
    <3>1. TypeOK /\ Leave(p) /\ pc[p] = "commit"
      BY <2>2 DEF Turns, Commit
    <3>2. \A q \in Procs \ {p} : pc'[q] = pc[q]
      BY <3>1, Left
    <3> QED BY <2>1, <3>1, <3>2
  <2>4. now >= row.deadline /\ row.deadline >= row.opened + MoveWindow(Seats)
    BY <2>3 DEF Locked, OnTime, Serving
  <2>5. now \in Nat /\ row.deadline \in Nat /\ row.opened \in Nat
    BY DEF Turns, TypeOK, Rows
  <2> QED BY <2>4, <2>5, SeatsWindow
<1> QED BY <1>1, TurnsAndLock, PTL DEF Spec, WindowIsHonoured

\* With the lock, an extension is written only when no seat that holds the round up had a
\* move refused, and it ends within the policy's ceiling.
THEOREM RoundExtensionsEarned == Spec => ExtensionsEarned
<1>1. Turns /\ Locked /\ [Next]_vars =>
        [fleet.locking /\ row'.round = row.round /\ row'.deadline > row.deadline
           => /\ refused \cap Unsealed(row) = {}
              /\ row'.deadline + MoveWindow(Unsealed(row)) <= row'.base + Ceiling]_vars
  <2> SUFFICES ASSUME Turns, Locked, [Next]_vars, fleet.locking, row'.round = row.round,
                      row'.deadline > row.deadline
               PROVE  /\ refused \cap Unsealed(row) = {}
                      /\ row'.deadline + MoveWindow(Unsealed(row)) <= row'.base + Ceiling
    OBVIOUS
  <2>1. row.round \in Nat /\ row.deadline \in Nat /\ row' # row
    BY PolicyAssumption DEF Turns, TypeOK, Rows
  <2>2. ASSUME NEW p \in Procs, Commit(p) PROVE FALSE
    <3>1. row'.deadline = snap[p].deadline
      BY <2>1, <2>2, CommitTurns
    <3>2. snap[p] = row
      BY <2>2 DEF Locked, Exclusive, Serving, Commit
    <3> QED BY <2>1, <3>1, <3>2
  <2>3. PICK w \in Sweepers : Extend(w)
    BY <2>1, <2>2, RowsWriters
  <2>4. row'.base = row.base /\ row'.deadline = next[w].deadline
    BY <2>1, <2>3, ExtendTurns DEF Procs
  <2>5. /\ refused \cap Unsealed(row) = {}
        /\ next[w].deadline + MoveWindow(Unsealed(row)) <= row.base + Ceiling
    BY <2>3 DEF Locked, Earned, Extend, Procs
  <2> QED BY <2>4, <2>5
<1> QED BY <1>1, TurnsAndLock, PTL DEF Spec, ExtensionsEarned

=============================================================================
