---------------------------- MODULE LedgerProofs ----------------------------
(***************************************************************************)
(* The ledger as it runs implements the atomic ledger, for any number of   *)
(* posters, wallets and calls; so the invariants of the tables hold of it. *)
(*                                                                         *)
(* The argument: a poster that has passed the overdraft check still holds  *)
(* every row it read, and nobody changes a row another one holds, so what  *)
(* it read is still what is there when it commits.                         *)
(***************************************************************************)
EXTENDS Ledger, Functions, FiniteSetTheorems, WellFoundedInduction, TLAPS

-----------------------------------------------------------------------------
(* Sums.  SumFunction of the community modules, which adds coins up over      *)
(* wallets and over the entries of a wallet, is a fold: a function defined by *)
(* recursion over the subsets of a domain.  What holds of it is proved on a   *)
(* minimal subset on which it would fail: strict inclusion is well founded on *)
(* the subsets of a finite set.                                               *)

\* The element the fold takes out of s next.
Elem(s) == CHOOSE x \in s : TRUE

\* g is a table of the sums of f over every subset of S.
Table(f, S, g) ==
    g = [s \in SUBSET S |-> IF s = {} THEN 0 ELSE f[Elem(s)] + g[s \ {Elem(s)}]]

SumOn(f, S) == (CHOOSE g : Table(f, S, g))[S]

\* The library's sum is the entry of the table for the whole domain.
LEMMA SumFunctionIsSumOn ==
    ASSUME NEW f
    PROVE  SumFunction(f) = SumOn(f, DOMAIN f)
BY DEF SumFunction, SumFunctionOnSet, FoldFunctionOnSet, MapThenFoldSet,
       SumOn, Table, Elem

\* A nonempty collection of subsets of a finite set has a minimal member.
LEMMA MinimalSubset ==
    ASSUME NEW S, IsFiniteSet(S), NEW T \in SUBSET SUBSET S, T # {}
    PROVE  \E x \in T : \A y \in SUBSET x : y \in T => y = x
<1>1. IsWellFoundedOn(StrictSubsetOrdering(S), FiniteSubsetsOf(S))
  BY FS_StrictSubsetOrderingWellFounded
<1>2. T \subseteq FiniteSubsetsOf(S)
  BY FS_Subset DEF FiniteSubsetsOf
<1>3. \E x \in T : \A y \in T : <<y, x>> \notin StrictSubsetOrdering(S)
  BY <1>1, <1>2, WFMin
<1>4. \A x, y \in T : y \subseteq x /\ y # x => <<y, x>> \in StrictSubsetOrdering(S)
  BY DEF StrictSubsetOrdering
<1> QED BY <1>3, <1>4

\* The element the fold chooses belongs to the set.
LEMMA ElemIn == \A s : s # {} => Elem(s) \in s
BY DEF Elem

\* Two tables agree on the subsets they share.
LEMMA TablesAgree ==
    ASSUME NEW f, NEW S, IsFiniteSet(S), NEW y, NEW z, y \subseteq S,
           NEW g, NEW h, Table(f, y, g), Table(f, z, h),
           NEW s, s \subseteq y, s \subseteq z
    PROVE  g[s] = h[s]
<1> DEFINE Bad == {t \in SUBSET S : t \subseteq y /\ t \subseteq z /\ g[t] # h[t]}
<1> SUFFICES ASSUME Bad # {} PROVE FALSE
  OBVIOUS
<1>1. PICK x \in Bad : \A t \in SUBSET x : t \in Bad => t = x
  <2>1. Bad \in SUBSET SUBSET S
    OBVIOUS
  <2> HIDE DEF Bad
  <2> QED BY <2>1, MinimalSubset
<1>2. x # {}
  BY DEF Table
<1>3. /\ g[x] = f[Elem(x)] + g[x \ {Elem(x)}]
      /\ h[x] = f[Elem(x)] + h[x \ {Elem(x)}]
  BY <1>2 DEF Table
<1>4. g[x \ {Elem(x)}] = h[x \ {Elem(x)}]
  BY <1>1, <1>2, ElemIn
<1> QED BY <1>3, <1>4

\* A table of sums exists for every finite set.
LEMMA TableExists ==
    ASSUME NEW f, NEW S, IsFiniteSet(S)
    PROVE  \E g : Table(f, S, g)
<1> DEFINE Bad == {t \in SUBSET S : ~ \E g : Table(f, t, g)}
<1> SUFFICES ASSUME Bad # {} PROVE FALSE
  OBVIOUS
<1>1. PICK x \in Bad : \A t \in SUBSET x : t \in Bad => t = x
  <2>1. Bad \in SUBSET SUBSET S
    OBVIOUS
  <2> HIDE DEF Bad
  <2> QED BY <2>1, MinimalSubset
<1> DEFINE G(t) == CHOOSE g : Table(f, t, g)
           gx == [s \in SUBSET x |->
                    IF s = {} THEN 0
                    ELSE f[Elem(s)] + G(s \ {Elem(s)})[s \ {Elem(s)}]]
<1>2. \A t \in SUBSET x : t # x => Table(f, t, G(t))
  BY <1>1
<1>3. ASSUME NEW s \in SUBSET x, s # {}
      PROVE  gx[s \ {Elem(s)}] = G(s \ {Elem(s)})[s \ {Elem(s)}]
  <2> DEFINE r == s \ {Elem(s)}
  <2>1. r \in SUBSET x /\ r # x
    BY <1>3, ElemIn
  <2>2. CASE r = {}
    <3>1. Table(f, r, G(r))
      BY <1>2, <2>1
    <3> HIDE DEF G
    <3>2. G(r)[r] = 0
      BY <3>1, <2>2 DEF Table
    <3>3. gx[r] = 0
      BY <2>1, <2>2
    <3> QED BY <3>2, <3>3
  <2>3. CASE r # {}
    <3> DEFINE q == r \ {Elem(r)}
    <3>1. q \in SUBSET x /\ q # x /\ q \subseteq r
      BY <2>1
    <3>2. Table(f, r, G(r)) /\ Table(f, q, G(q))
      BY <1>2, <2>1, <3>1
    <3> HIDE DEF G
    <3>3. G(r)[r] = f[Elem(r)] + G(r)[q]
      BY <3>2, <2>3 DEF Table
    <3>4. G(r)[q] = G(q)[q]
      BY <3>1, <3>2, TablesAgree, x \subseteq S, r \subseteq S
    <3>5. gx[r] = f[Elem(r)] + G(q)[q]
      BY <2>1, <2>3
    <3> QED BY <3>3, <3>4, <3>5
  <2> QED BY <2>2, <2>3
<1>4. Table(f, x, gx)
  <2> HIDE DEF G
  <2> QED BY <1>3 DEF Table
<1> QED BY <1>1, <1>4

\* The sum over no element is zero.
LEMMA SumOnEmpty == \A f : SumOn(f, {}) = 0
<1> SUFFICES ASSUME NEW f PROVE SumOn(f, {}) = 0
  OBVIOUS
<1>1. \E g : Table(f, {}, g)
  BY TableExists, FS_EmptySet
<1>2. \A g : Table(f, {}, g) => g[{}] = 0
  BY DEF Table
<1> QED BY <1>1, <1>2 DEF SumOn

\* A sum over a nonempty set is the value at the chosen element plus the sum of the rest.
LEMMA SumOnStep ==
    ASSUME NEW f, NEW S, IsFiniteSet(S), S # {}
    PROVE  SumOn(f, S) = f[Elem(S)] + SumOn(f, S \ {Elem(S)})
<1> DEFINE R == S \ {Elem(S)}
           g == CHOOSE t : Table(f, S, t)
           h == CHOOSE t : Table(f, R, t)
<1>1. IsFiniteSet(R) /\ R \subseteq S
  BY FS_Subset
<1>2. Table(f, S, g) /\ Table(f, R, h)
  BY <1>1, TableExists
<1>3. g[R] = h[R]
  <2> HIDE DEF g, h
  <2> QED BY <1>1, <1>2, TablesAgree
<1>4. g[S] = f[Elem(S)] + g[R]
  <2> HIDE DEF g, h
  <2> QED BY <1>2 DEF Table
<1> QED BY <1>3, <1>4 DEF SumOn

\* The sum of integers is an integer, and the sum of sums is the sum: both by
\* the same minimal subset, so they are stated together.
LEMMA SumOnLinear ==
    ASSUME NEW S, IsFiniteSet(S), NEW f \in [S -> Int], NEW g \in [S -> Int],
           NEW T, T \subseteq S
    PROVE  LET h == [x \in S |-> f[x] + g[x]]
           IN  /\ SumOn(f, T) \in Int
               /\ SumOn(g, T) \in Int
               /\ SumOn(h, T) = SumOn(f, T) + SumOn(g, T)
<1> DEFINE h == [x \in S |-> f[x] + g[x]]
           Good(t) == /\ SumOn(f, t) \in Int
                      /\ SumOn(g, t) \in Int
                      /\ SumOn(h, t) = SumOn(f, t) + SumOn(g, t)
           Bad == {t \in SUBSET S : ~ Good(t)}
<1> SUFFICES ASSUME Bad # {} PROVE FALSE
  OBVIOUS
<1>1. PICK x \in Bad : \A t \in SUBSET x : t \in Bad => t = x
  <2>1. Bad \in SUBSET SUBSET S
    OBVIOUS
  <2> HIDE DEF Bad
  <2> QED BY <2>1, MinimalSubset
<1>2. x # {}
  BY SumOnEmpty
<1> DEFINE e == Elem(x)
           r == x \ {e}
<1>3. e \in x /\ e \in S /\ r \in SUBSET S /\ r \in SUBSET x /\ r # x
  BY <1>2, ElemIn
<1>4. Good(r)
  BY <1>1, <1>3
<1>5. IsFiniteSet(x)
  BY FS_Subset
<1>6. /\ SumOn(f, x) = f[e] + SumOn(f, r)
      /\ SumOn(g, x) = g[e] + SumOn(g, r)
      /\ SumOn(h, x) = h[e] + SumOn(h, r)
  BY <1>2, <1>5, SumOnStep
<1>7. f[e] \in Int /\ g[e] \in Int /\ h[e] = f[e] + g[e]
  BY <1>3
<1>8. Good(x)
  <2> HIDE DEF h, e, r
  <2> QED BY <1>4, <1>6, <1>7
<1> QED BY <1>1, <1>8

\* Taking any element out takes its value off the sum: the order in which the
\* fold chooses the elements does not matter.
LEMMA SumOnRemove ==
    ASSUME NEW S, IsFiniteSet(S), NEW f \in [S -> Int],
           NEW T, T \subseteq S, NEW a \in T
    PROVE  SumOn(f, T) = f[a] + SumOn(f, T \ {a})
<1> DEFINE Good(t) == \A b \in t : SumOn(f, t) = f[b] + SumOn(f, t \ {b})
           Bad == {t \in SUBSET S : ~ Good(t)}
<1> SUFFICES ASSUME Bad # {} PROVE FALSE
  OBVIOUS
<1>1. PICK x \in Bad : \A t \in SUBSET x : t \in Bad => t = x
  <2>1. Bad \in SUBSET SUBSET S
    OBVIOUS
  <2> HIDE DEF Bad
  <2> QED BY <2>1, MinimalSubset
<1>2. PICK b \in x : SumOn(f, x) # f[b] + SumOn(f, x \ {b})
  OBVIOUS
<1> DEFINE e == Elem(x)
           r == (x \ {e}) \ {b}
<1>3. e \in x /\ x \subseteq S
  BY <1>2, ElemIn
<1>4. IsFiniteSet(x)
  BY <1>3, FS_Subset
<1>5. SumOn(f, x) = f[e] + SumOn(f, x \ {e})
  BY <1>2, <1>4, SumOnStep
<1>6. e # b
  BY <1>2, <1>5
<1>7. Good(x \ {e}) /\ Good(x \ {b})
  BY <1>1, <1>2, <1>3
<1>8. SumOn(f, x \ {e}) = f[b] + SumOn(f, r)
  BY <1>2, <1>6, <1>7
<1>9. SumOn(f, x \ {b}) = f[e] + SumOn(f, r)
  <2>1. (x \ {b}) \ {e} = r
    OBVIOUS
  <2> QED BY <2>1, <1>3, <1>6, <1>7
<1>10. SumOn(f, r) \in Int
  BY <1>3, SumOnLinear, r \subseteq S
<1>11. f[e] \in Int /\ f[b] \in Int
  BY <1>2, <1>3
<1> HIDE DEF e, r
<1> QED BY <1>2, <1>5, <1>8, <1>9, <1>10, <1>11

\* A sum looks only at the values on its subset.
LEMMA SumOnAgree ==
    ASSUME NEW S, IsFiniteSet(S), NEW f, NEW g, \A x \in S : f[x] = g[x]
    PROVE  SumOn(f, S) = SumOn(g, S)
<1> DEFINE Bad == {t \in SUBSET S : SumOn(f, t) # SumOn(g, t)}
<1> SUFFICES ASSUME Bad # {} PROVE FALSE
  OBVIOUS
<1>1. PICK x \in Bad : \A t \in SUBSET x : t \in Bad => t = x
  <2>1. Bad \in SUBSET SUBSET S
    OBVIOUS
  <2> HIDE DEF Bad
  <2> QED BY <2>1, MinimalSubset
<1>2. x # {} /\ x \subseteq S
  BY SumOnEmpty
<1>3. Elem(x) \in x
  BY <1>2, ElemIn
<1>4. IsFiniteSet(x)
  BY <1>2, FS_Subset
<1>5. /\ SumOn(f, x) = f[Elem(x)] + SumOn(f, x \ {Elem(x)})
      /\ SumOn(g, x) = g[Elem(x)] + SumOn(g, x \ {Elem(x)})
  BY <1>2, <1>4, SumOnStep
<1>6. SumOn(f, x \ {Elem(x)}) = SumOn(g, x \ {Elem(x)})
  BY <1>1, <1>3
<1> QED BY <1>1, <1>2, <1>3, <1>5, <1>6

\* A sum of integers over a finite set is an integer.
THEOREM SumType ==
    ASSUME NEW S, IsFiniteSet(S), NEW f \in [S -> Int]
    PROVE  SumFunction(f) \in Int
BY SumFunctionIsSumOn, SumOnLinear, S \subseteq S

\* Adding two functions pointwise adds their sums.
THEOREM SumAdd ==
    ASSUME NEW S, IsFiniteSet(S), NEW f \in [S -> Int], NEW g \in [S -> Int]
    PROVE  SumFunction([x \in S |-> f[x] + g[x]]) = SumFunction(f) + SumFunction(g)
<1> DEFINE h == [x \in S |-> f[x] + g[x]]
<1>1. /\ SumFunction(f) = SumOn(f, S)
      /\ SumFunction(g) = SumOn(g, S)
      /\ SumFunction(h) = SumOn(h, S)
  <2>1. DOMAIN f = S /\ DOMAIN g = S /\ DOMAIN h = S
    OBVIOUS
  <2> HIDE DEF h
  <2> QED BY <2>1, SumFunctionIsSumOn
<1>2. SumOn(h, S) = SumOn(f, S) + SumOn(g, S)
  BY SumOnLinear, S \subseteq S
<1> QED BY <1>1, <1>2

\* A sum of zeroes is zero.
THEOREM SumZero ==
    ASSUME NEW S, IsFiniteSet(S)
    PROVE  SumFunction([x \in S |-> 0]) = 0
<1> DEFINE z == [x \in S |-> 0]
<1>1. SumFunction(z) \in Int
  BY SumType
<1>2. SumFunction([x \in S |-> z[x] + z[x]]) = SumFunction(z) + SumFunction(z)
  <2>1. z \in [S -> Int]
    OBVIOUS
  <2> HIDE DEF z
  <2> QED BY <2>1, SumAdd
<1>3. [x \in S |-> z[x] + z[x]] = z
  OBVIOUS
<1>4. SumFunction(z) = SumFunction(z) + SumFunction(z)
  <2> HIDE DEF z
  <2> QED BY <1>2, <1>3, Zenon
<1>5. \A i \in Int : i = i + i => i = 0
  OBVIOUS
<1>6. SumFunction(z) = 0
  <2> HIDE DEF z
  <2> DEFINE s == SumFunction(z)
  <2>1. s \in Int /\ s = s + s
    BY <1>1, <1>4
  <2> HIDE DEF s
  <2>2. s = 0
    BY <2>1, <1>5
  <2> QED BY <2>2 DEF s
<1> QED BY <1>6

\* Extending the domain by one element adds its value.
THEOREM SumExtend ==
    ASSUME NEW S, IsFiniteSet(S), NEW a, a \notin S,
           NEW f \in [S \cup {a} -> Int]
    PROVE  SumFunction(f) = f[a] + SumFunction([x \in S |-> f[x]])
<1> DEFINE T == S \cup {a}
           g == [x \in S |-> f[x]]
<1>1. IsFiniteSet(T)
  BY FS_AddElement
<1>2. SumOn(f, T) = f[a] + SumOn(f, T \ {a})
  BY <1>1, SumOnRemove, a \in T, T \subseteq T
<1>3. T \ {a} = S
  OBVIOUS
<1>4. SumOn(f, S) = SumOn(g, S)
  <2>1. \A x \in S : f[x] = g[x]
    OBVIOUS
  <2> HIDE DEF g
  <2> QED BY <2>1, SumOnAgree
<1>5. SumFunction(f) = SumOn(f, T) /\ SumFunction(g) = SumOn(g, S)
  <2>1. DOMAIN f = T /\ DOMAIN g = S
    OBVIOUS
  <2> HIDE DEF T, g
  <2> QED BY <2>1, SumFunctionIsSumOn
<1> QED BY <1>2, <1>3, <1>4, <1>5

-----------------------------------------------------------------------------
(* The tables *)

\* Kept by whatever writes to the tables, as long as it writes whole transactions that
\* are new, balanced and affordable.
TablesInv ==
    /\ TablesTypeOK
    /\ NoOverdraft
    /\ OneTxnPerKey
    /\ BalancesMatchEntries
    /\ Conservation

\* An empty journal and zero balances form a proper ledger.
LEMMA EmptyTablesInv == EmptyTables => TablesInv
<1> SUFFICES ASSUME EmptyTables PROVE TablesInv
  OBVIOUS
<1> USE DEF EmptyTables
<1>1. TablesTypeOK
  BY FS_EmptySet DEF TablesTypeOK
<1>2. NoOverdraft /\ OneTxnPerKey
  BY DEF NoOverdraft, OneTxnPerKey, Protected
<1>3. BalancesMatchEntries
  <2> SUFFICES ASSUME NEW w \in Wallets
               PROVE  balance[w] = SumFunction([t \in journal |-> t.delta[w]])
    BY DEF BalancesMatchEntries
  <2>1. [t \in journal |-> t.delta[w]] = [t \in {} |-> 0]
    OBVIOUS
  <2>2. SumFunction([t \in {} |-> 0]) = 0
    BY SumZero, FS_EmptySet
  <2> QED BY <2>1, <2>2
<1>4. Conservation
  BY SumZero, WalletsAssumption DEF Conservation
<1> QED BY <1>1, <1>2, <1>3, <1>4 DEF TablesInv

\* Writing a new, balanced and affordable call keeps the tables a proper ledger.
LEMMA WriteKeepsTablesInv ==
    ASSUME TablesInv, NEW c \in Calls,
           ~ Posted(c.key), Balanced(c), Affordable(c), WriteEntries(c)
    PROVE  TablesInv'
<1>1. /\ c.delta \in [Wallets -> Int]
      /\ c.touched \subseteq Wallets
      /\ \A w \in Wallets \ c.touched : c.delta[w] = 0
  BY CallsAssumption
<1>2. /\ journal' = journal \cup {c}
      /\ balance' = [w \in Wallets |-> balance[w] + c.delta[w]]
      /\ c \notin journal
  BY DEF WriteEntries, Posted
<1>3. TablesTypeOK /\ balance \in [Wallets -> Int] /\ IsFiniteSet(journal)
  BY DEF TablesInv, TablesTypeOK
<1>4. TablesTypeOK'
  BY <1>1, <1>2, <1>3, FS_AddElement DEF TablesTypeOK
<1>5. NoOverdraft'
  <2> SUFFICES ASSUME NEW w \in Protected PROVE balance'[w] >= 0
    BY DEF NoOverdraft, Protected
  <2>1. w \in Wallets /\ balance'[w] = balance[w] + c.delta[w]
    BY <1>2 DEF Protected
  <2>2. CASE w \in c.touched
    BY <2>1, <2>2 DEF Affordable
  <2>3. CASE w \notin c.touched
    BY <2>1, <2>3, <1>1, <1>3 DEF TablesInv, NoOverdraft
  <2> QED BY <2>2, <2>3
<1>6. OneTxnPerKey'
  BY <1>2 DEF TablesInv, OneTxnPerKey, Posted
<1>7. BalancesMatchEntries'
  <2> SUFFICES ASSUME NEW w \in Wallets
               PROVE  balance'[w] = SumFunction([t \in journal' |-> t.delta[w]])
    BY DEF BalancesMatchEntries
  <2> DEFINE f == [t \in journal' |-> t.delta[w]]
             g == [t \in journal |-> t.delta[w]]
  <2>1. f \in [journal \cup {c} -> Int]
    BY <1>2, <1>1, <1>3, CallsAssumption DEF TablesTypeOK
  <2>2. SumFunction(f) = f[c] + SumFunction([x \in journal |-> f[x]])
    <3>1. IsFiniteSet(journal) /\ c \notin journal
      BY <1>2, <1>3
    <3> HIDE DEF f, g
    <3>2. ASSUME NEW h \in [journal \cup {c} -> Int]
          PROVE  SumFunction(h) = h[c] + SumFunction([x \in journal |-> h[x]])
      BY <3>1, SumExtend
    <3> QED BY <2>1, <3>2
  <2>3. f[c] = c.delta[w] /\ [x \in journal |-> f[x]] = g
    BY <1>2
  <2>4. balance[w] = SumFunction(g)
    BY DEF TablesInv, BalancesMatchEntries
  <2>5. balance'[w] = balance[w] + c.delta[w]
    BY <1>2
  <2>6. balance[w] \in Int /\ c.delta[w] \in Int
    BY <1>1, <1>3
  <2> HIDE DEF f, g
  <2>7. balance'[w] = SumFunction(f)
    BY <2>2, <2>3, <2>4, <2>5, <2>6
  <2> QED BY <2>7 DEF f
<1>8. Conservation'
  <2>1. SumFunction(balance') = SumFunction(balance) + SumFunction(c.delta)
    <3>1. balance \in [Wallets -> Int] /\ c.delta \in [Wallets -> Int]
      BY <1>1, <1>3
    <3>2. SumFunction([w \in Wallets |-> balance[w] + c.delta[w]])
            = SumFunction(balance) + SumFunction(c.delta)
      BY <3>1, SumAdd, WalletsAssumption
    <3> QED BY <3>2, <1>2, Zenon
  <2>2. SumFunction(balance) = 0
    BY DEF TablesInv, Conservation
  <2>3. SumFunction(c.delta) = 0
    BY DEF Balanced
  <2>4. SumFunction(balance') = 0
    BY <2>1, <2>2, <2>3
  <2> QED BY <2>4 DEF Conservation
<1> QED BY <1>4, <1>5, <1>6, <1>7, <1>8 DEF TablesInv

\* Steps that leave the tables alone leave them a proper ledger.
LEMMA TablesInvUnchanged == TablesInv /\ UNCHANGED <<journal, balance>> => TablesInv'
BY DEF TablesInv, TablesTypeOK, NoOverdraft, OneTxnPerKey,
       BalancesMatchEntries, Conservation, Protected

-----------------------------------------------------------------------------
(* The protocol *)

\* Validated by Post before the database is touched.
CallsValidated ==
    \A p \in Posters : pc[p] # "idle" => call[p].touched # {} /\ Balanced(call[p])

\* Row locks exclude, and are held on the wallets of the call only; the check
\* is reached with all of them.
LocksExclude ==
    \A p, q \in Posters : p # q => held[p] \cap held[q] = {}

LocksHeld ==
    \A p \in Posters :
        /\ pc[p] \in {"idle", "precheck"} => held[p] = {}
        /\ pc[p] = "lock" => held[p] \subseteq call[p].touched
        /\ pc[p] \in {"check", "insert", "commit"} => held[p] = call[p].touched

\* What a poster read under a lock is still the balance.
ReadsFresh ==
    \A p \in Posters : \A w \in held[p] : seen[p][w] = balance[w]

\* Past the check, every protected wallet can pay.
CheckHolds ==
    \A p \in Posters : pc[p] \in {"insert", "commit"} => Overdrawn(p) = {}

\* The key of a transaction about to commit is new, and nobody else's.
KeyReserved ==
    \A p \in Posters :
        pc[p] = "commit" =>
            /\ ~ Posted(call[p].key)
            /\ \A q \in Posters : pc[q] = "commit" /\ call[q].key = call[p].key => q = p

IInv ==
    /\ TypeOK
    /\ CallsValidated
    /\ LocksExclude
    /\ LocksHeld
    /\ ReadsFresh
    /\ CheckHolds
    /\ KeyReserved
    /\ ReplayMeansPosted
    /\ AscendingLocks

-----------------------------------------------------------------------------
(* Every action preserves the inductive invariant. *)

\* The empty ledger, with every poster idle, satisfies the invariant.
LEMMA InitIInv == Init => IInv
<1> SUFFICES ASSUME Init PROVE IInv
  OBVIOUS
<1> USE DEF Init, EmptyTables
<1>1. TypeOK
  BY FS_EmptySet DEF TypeOK, TablesTypeOK, Steps, Replies
<1>2. CallsValidated /\ LocksExclude /\ LocksHeld /\ ReadsFresh
  BY DEF CallsValidated, LocksExclude, LocksHeld, ReadsFresh
<1>3. CheckHolds /\ KeyReserved /\ ReplayMeansPosted /\ AscendingLocks
  BY DEF CheckHolds, KeyReserved, ReplayMeansPosted, AscendingLocks
<1> QED BY <1>1, <1>2, <1>3 DEF IInv

\* A transaction that rolls back disturbs nobody.
LEMMA RollbackIInv ==
    ASSUME IInv, NEW p \in Posters, NEW answer \in Replies, Rollback(p, answer),
           answer = "replay" => Posted(call[p].key)
    PROVE  IInv'
<1> USE DEF Rollback, End, IInv
<1>1. TypeOK'
  BY DEF TypeOK, TablesTypeOK, Steps
<1>2. /\ held' \in [Posters -> SUBSET Wallets]
      /\ \A q \in Posters : /\ pc'[q] = IF q = p THEN "idle" ELSE pc[q]
                            /\ held'[q] = IF q = p THEN {} ELSE held[q]
                            /\ q # p => seen'[q] = seen[q] /\ reply'[q] = reply[q]
      /\ reply'[p] = answer
      /\ UNCHANGED <<journal, balance, call>>
  BY DEF TypeOK
<1>3. CallsValidated'
  BY <1>2 DEF CallsValidated, Balanced
<1>4. LocksExclude'
  BY <1>2 DEF LocksExclude
<1>5. LocksHeld'
  BY <1>2 DEF LocksHeld
<1>6. ReadsFresh'
  BY <1>2 DEF ReadsFresh
<1>7. CheckHolds'
  BY <1>2 DEF CheckHolds, Overdrawn, Protected
<1>8. KeyReserved'
  BY <1>2 DEF KeyReserved, Posted
<1>9. ReplayMeansPosted'
  BY <1>2 DEF ReplayMeansPosted, Posted
<1>10. AscendingLocks'
  BY <1>2 DEF AscendingLocks, ToLock
<1> QED BY <1>1, <1>3, <1>4, <1>5, <1>6, <1>7, <1>8, <1>9, <1>10

\* Service.Post only begins work on a call, or refuses it.
LEMMA PostIInv ==
    ASSUME IInv, NEW p \in Posters, NEW c \in Calls, Post(p, c)
    PROVE  IInv'
<1> USE DEF Post, IInv
<1>1. TypeOK'
  BY DEF TypeOK, TablesTypeOK, Steps, Replies
<1>2. /\ UNCHANGED <<journal, balance, held, seen>>
      /\ pc[p] = "idle" /\ held[p] = {}
      /\ call'[p] = c
      /\ pc'[p] \in {"idle", "precheck"} /\ reply'[p] # "replay"
      /\ pc'[p] = "precheck" => c.touched # {} /\ Balanced(c)
      /\ \A q \in Posters : q # p => /\ pc'[q] = pc[q] /\ call'[q] = call[q]
                                     /\ reply'[q] = reply[q]
  BY DEF TypeOK, LocksHeld
<1> HIDE DEF Post
<1>3. CallsValidated'
  BY <1>2 DEF CallsValidated, Balanced
<1>4. LocksExclude'
  BY <1>2 DEF LocksExclude
<1>5. LocksHeld'
  BY <1>2 DEF LocksHeld
<1>6. ReadsFresh'
  BY <1>2 DEF ReadsFresh
<1>7. CheckHolds'
  BY <1>2 DEF CheckHolds, Overdrawn, Protected
<1>8. KeyReserved'
  BY <1>2 DEF KeyReserved, Posted
<1>9. ReplayMeansPosted'
  BY <1>2 DEF ReplayMeansPosted, Posted
<1>10. AscendingLocks'
  BY <1>2 DEF AscendingLocks, ToLock
<1> QED BY <1>1, <1>3, <1>4, <1>5, <1>6, <1>7, <1>8, <1>9, <1>10

\* A transaction that begins holds no row, so every row is still ahead of it.
LEMMA BeginIInv ==
    ASSUME IInv, NEW p \in Posters, Begin(p)
    PROVE  IInv'
<1> USE DEF Begin, IInv
<1>1. TypeOK'
  BY DEF TypeOK, TablesTypeOK, Steps
<1>2. /\ UNCHANGED <<journal, balance, call, held, seen, reply>>
      /\ pc[p] = "precheck" /\ held[p] = {} /\ pc'[p] = "lock"
      /\ \A q \in Posters : q # p => pc'[q] = pc[q]
  BY DEF TypeOK, LocksHeld
<1> HIDE DEF Begin
<1>3. CallsValidated' /\ LocksExclude' /\ LocksHeld' /\ ReadsFresh'
  BY <1>2 DEF CallsValidated, Balanced, LocksExclude, LocksHeld, ReadsFresh
<1>4. CheckHolds'
  BY <1>2 DEF CheckHolds, Overdrawn, Protected
<1>5. KeyReserved' /\ ReplayMeansPosted'
  BY <1>2 DEF KeyReserved, ReplayMeansPosted, Posted
<1>6. AscendingLocks'
  BY <1>2 DEF AscendingLocks, ToLock
<1> QED BY <1>1, <1>3, <1>4, <1>5, <1>6

\* The row is free, so the lock excludes; it is the lowest one left, so the
\* rows still to lock are above it; and it is read in the same step.
LEMMA LockRowIInv ==
    ASSUME IInv, NEW p \in Posters, NEW w \in Wallets, LockRow(p, w)
    PROVE  IInv'
<1> USE DEF LockRow, IInv
<1>1. TypeOK'
  BY DEF TypeOK, TablesTypeOK, Steps
<1>2. /\ UNCHANGED <<journal, balance, call, reply>>
      /\ pc[p] = "lock" /\ pc'[p] = IF ToLock(p) = {w} THEN "check" ELSE "lock"
      /\ held'[p] = held[p] \cup {w}
      /\ seen'[p][w] = balance[w] /\ \A v \in Wallets \ {w} : seen'[p][v] = seen[p][v]
      /\ held[p] \subseteq call[p].touched
      /\ \A q \in Posters : q # p => /\ pc'[q] = pc[q] /\ held'[q] = held[q]
                                     /\ seen'[q] = seen[q]
  BY DEF TypeOK, LocksHeld
<1>3. NextRow(p, w) /\ RowFree(w)
  OBVIOUS
<1>4. held[p] \subseteq Wallets /\ call[p].touched \subseteq Wallets
  BY CallsAssumption DEF TypeOK
<1> HIDE DEF LockRow
<1>5. CallsValidated'
  BY <1>2 DEF CallsValidated, Balanced
<1>6. LocksExclude'
  BY <1>2, <1>3 DEF LocksExclude, RowFree
<1>7. LocksHeld'
  <2>1. w \in call[p].touched /\ (ToLock(p) = {w} => held'[p] = call[p].touched)
    BY <1>2, <1>3 DEF NextRow, ToLock
  <2>2. pc'[p] \in {"lock", "check"} /\ (pc'[p] = "check" => ToLock(p) = {w})
    BY <1>2
  <2>3. \A q \in Posters \ {p} : pc'[q] = pc[q] /\ held'[q] = held[q] /\ call'[q] = call[q]
    BY <1>2
  <2>4. held'[p] \subseteq call'[p].touched
    BY <1>2, <2>1
  <2>5. SUFFICES ASSUME NEW q \in Posters
                 PROVE  (/\ pc[q] \in {"idle", "precheck"} => held[q] = {}
                         /\ pc[q] = "lock" => held[q] \subseteq call[q].touched
                         /\ pc[q] \in {"check", "insert", "commit"}
                              => held[q] = call[q].touched)'
    BY DEF LocksHeld
  <2>6. CASE q = p
    BY <2>1, <2>2, <2>4, <2>6, <1>2
  <2>7. CASE q # p
    BY <2>3, <2>7 DEF LocksHeld
  <2> QED BY <2>6, <2>7
<1>8. ReadsFresh'
  BY <1>2, <1>4 DEF ReadsFresh
<1>9. CheckHolds'
  BY <1>2 DEF CheckHolds, Overdrawn, Protected
<1>10. KeyReserved' /\ ReplayMeansPosted'
  BY <1>2 DEF KeyReserved, ReplayMeansPosted, Posted
<1>11. AscendingLocks'
  <2> SUFFICES ASSUME NEW q \in Posters, pc'[q] = "lock",
                      NEW u \in held'[q], NEW v \in ToLock(q)'
               PROVE  u < v
    BY DEF AscendingLocks
  <2>1. CASE q # p
    BY <2>1, <1>2 DEF AscendingLocks, ToLock
  <2>2. CASE q = p
    <3>1. v \in ToLock(p) /\ v # w /\ v \in Nat /\ w \in Nat
      BY <2>2, <1>2, <1>4, WalletsAssumption DEF ToLock
    <3>2. w < v
      BY <3>1, <1>3 DEF NextRow
    <3> QED BY <2>2, <3>1, <3>2, <1>2 DEF AscendingLocks
  <2> QED BY <2>1, <2>2
<1> QED BY <1>1, <1>5, <1>6, <1>7, <1>8, <1>9, <1>10, <1>11

\* A transaction that passes the check holds every row it touches and can pay.
LEMMA PassCheckIInv ==
    ASSUME IInv, NEW p \in Posters, PassCheck(p)
    PROVE  IInv'
<1> USE DEF PassCheck, IInv
<1>1. TypeOK'
  BY DEF TypeOK, TablesTypeOK, Steps
<1>2. /\ UNCHANGED <<journal, balance, call, held, seen, reply>>
      /\ pc[p] = "check" /\ pc'[p] = "insert" /\ Overdrawn(p) = {}
      /\ \A q \in Posters : q # p => pc'[q] = pc[q]
  BY DEF TypeOK
<1> HIDE DEF PassCheck
<1>3. CallsValidated' /\ LocksExclude' /\ LocksHeld' /\ ReadsFresh'
  BY <1>2 DEF CallsValidated, Balanced, LocksExclude, LocksHeld, ReadsFresh
<1>4. CheckHolds'
  BY <1>2 DEF CheckHolds, Overdrawn, Protected
<1>5. KeyReserved' /\ ReplayMeansPosted'
  BY <1>2 DEF KeyReserved, ReplayMeansPosted, Posted
<1>6. AscendingLocks'
  BY <1>2 DEF AscendingLocks, ToLock
<1> QED BY <1>1, <1>3, <1>4, <1>5, <1>6

\* A key is inserted when it is neither posted nor in flight, so it stays fresh.
LEMMA InsertKeyIInv ==
    ASSUME IInv, NEW p \in Posters, InsertKey(p)
    PROVE  IInv'
<1> USE DEF InsertKey, IInv
<1>1. TypeOK'
  BY DEF TypeOK, TablesTypeOK, Steps
<1>2. /\ UNCHANGED <<journal, balance, call, held, seen, reply>>
      /\ pc[p] = "insert" /\ pc'[p] = "commit"
      /\ ~ Posted(call[p].key) /\ ~ KeyInFlight(call[p].key)
      /\ \A q \in Posters : q # p => pc'[q] = pc[q]
  BY DEF TypeOK
<1> HIDE DEF InsertKey
<1>3. CallsValidated' /\ LocksExclude' /\ LocksHeld' /\ ReadsFresh'
  BY <1>2 DEF CallsValidated, Balanced, LocksExclude, LocksHeld, ReadsFresh
<1>4. CheckHolds'
  BY <1>2 DEF CheckHolds, Overdrawn, Protected
<1>5. KeyReserved'
  BY <1>2 DEF KeyReserved, KeyInFlight, Posted
<1>6. ReplayMeansPosted' /\ AscendingLocks'
  BY <1>2 DEF ReplayMeansPosted, Posted, AscendingLocks, ToLock
<1> QED BY <1>1, <1>3, <1>4, <1>5, <1>6

\* The commit changes balances of rows p holds only, so what the others read
\* stays fresh; and it posts a key nobody else is about to post.
LEMMA CommitIInv ==
    ASSUME IInv, NEW p \in Posters, Commit(p)
    PROVE  IInv'
<1> USE DEF Commit, IInv
<1>1. /\ journal' = journal \cup {call[p]}
      /\ balance' = [w \in Wallets |-> balance[w] + call[p].delta[w]]
      /\ UNCHANGED call
      /\ pc[p] = "commit" /\ held[p] = call[p].touched
      /\ pc'[p] = "idle" /\ held'[p] = {} /\ reply'[p] \in {"applied", "error"}
      /\ \A q \in Posters : q # p => /\ pc'[q] = pc[q] /\ held'[q] = held[q]
                                     /\ seen'[q] = seen[q] /\ reply'[q] = reply[q]
  BY DEF TypeOK, LocksHeld, End, WriteEntries
<1>2. /\ call[p] \in Calls
      /\ call[p].delta \in [Wallets -> Int]
      /\ \A w \in Wallets \ held[p] : call[p].delta[w] = 0
  BY <1>1, CallsAssumption DEF TypeOK
<1>3. TypeOK'
  <2>1. TablesTypeOK'
    <3>1. journal \subseteq Calls /\ IsFiniteSet(journal) /\ balance \in [Wallets -> Int]
      BY DEF TypeOK, TablesTypeOK
    <3> HIDE DEF Commit, IInv
    <3> QED BY <3>1, <1>1, <1>2, FS_AddElement DEF TablesTypeOK
  <2> QED BY <2>1 DEF TypeOK, End, Steps, Replies
<1> HIDE DEF Commit
<1>4. CallsValidated' /\ LocksExclude' /\ LocksHeld'
  BY <1>1 DEF CallsValidated, Balanced, LocksExclude, LocksHeld
<1>5. \A q \in Posters : \A w \in held'[q] : balance'[w] = balance[w]
  BY <1>1, <1>2 DEF LocksExclude, TypeOK, TablesTypeOK
<1>6. ReadsFresh'
  BY <1>1, <1>5 DEF ReadsFresh
<1>7. CheckHolds'
  BY <1>1 DEF CheckHolds, Overdrawn, Protected
<1>8. KeyReserved'
  BY <1>1 DEF KeyReserved, Posted
<1>9. ReplayMeansPosted' /\ AscendingLocks'
  BY <1>1 DEF ReplayMeansPosted, Posted, AscendingLocks, ToLock
<1> QED BY <1>3, <1>4, <1>6, <1>7, <1>8, <1>9

\* A step that changes nothing keeps the invariant.
LEMMA StutterIInv == IInv /\ UNCHANGED vars => IInv'
BY DEF IInv, vars, TypeOK, TablesTypeOK, CallsValidated, Balanced, LocksExclude,
       LocksHeld, ReadsFresh, CheckHolds, Overdrawn, Protected, KeyReserved,
       ReplayMeansPosted, Posted, AscendingLocks, ToLock

\* The invariant is inductive: every action of every poster keeps it.
LEMMA NextIInv == IInv /\ [Next]_vars => IInv'
<1> SUFFICES ASSUME IInv, Next PROVE IInv'
  BY StutterIInv
<1>1. PICK p \in Posters :
          (\E c \in Calls : Post(p, c)) \/ Progress(p) \/ Fail(p)
  BY DEF Next
<1>2. CASE \E c \in Calls : Post(p, c)
  BY <1>2, PostIInv
<1>3. CASE PrecheckReplay(p) \/ InsertReplay(p)
  BY <1>3, RollbackIInv DEF PrecheckReplay, InsertReplay, Replies
<1>4. CASE Begin(p)
  BY <1>4, BeginIInv
<1>5. CASE \E w \in Wallets : LockRow(p, w)
  BY <1>5, LockRowIInv
<1>6. CASE RefuseOverdraft(p)
  BY <1>6, RollbackIInv DEF RefuseOverdraft, OverdraftError, Replies
<1>7. CASE PassCheck(p)
  BY <1>7, PassCheckIInv
<1>8. CASE InsertKey(p)
  BY <1>8, InsertKeyIInv
<1>9. CASE Commit(p)
  BY <1>9, CommitIInv
<1>10. CASE Fail(p)
  BY <1>10, RollbackIInv DEF Fail, Replies
<1> QED BY <1>1, <1>2, <1>3, <1>4, <1>5, <1>6, <1>7, <1>8, <1>9, <1>10 DEF Progress

\* The locks, the reads and the reservations of keys are consistent in every
\* state; in particular the state is well typed.
THEOREM LedgerInvariant == Spec => []IInv
BY InitIInv, NextIInv, PTL DEF Spec

\* The variables have their types.
THEOREM LedgerTypes == Spec => []TypeOK
<1>1. IInv => TypeOK
  BY DEF IInv
<1> QED BY <1>1, LedgerInvariant, PTL

\* Whoever is answered "already applied" finds the key posted.
THEOREM ReplayIsTruthful == Spec => []ReplayMeansPosted
<1>1. IInv => ReplayMeansPosted
  BY DEF IInv
<1> QED BY <1>1, LedgerInvariant, PTL

\* Rows are locked in ascending order, so no cycle of waiting posters exists.
THEOREM LocksAscend == Spec => []AscendingLocks
<1>1. IInv => AscendingLocks
  BY DEF IInv
<1> QED BY <1>1, LedgerInvariant, PTL

-----------------------------------------------------------------------------
(* Refinement *)

\* The commit is the step in which the transaction happens; no other step
\* changes the tables.
LEMMA OnlyCommitsWrite ==
    ASSUME [Next]_vars
    PROVE  UNCHANGED <<journal, balance>> \/ \E p \in Posters : Commit(p)
BY DEF Next, Progress, vars, Post, PrecheckReplay, Begin, LockRow, RefuseOverdraft,
       PassCheck, InsertReplay, InsertKey, Fail, Rollback

\* A commit writes a whole transaction that is new, balanced and affordable.
LEMMA CommitIsProper ==
    ASSUME IInv, NEW p \in Posters, Commit(p)
    PROVE  /\ call[p] \in Calls /\ call[p].touched # {}
           /\ ~ Posted(call[p].key) /\ Balanced(call[p]) /\ Affordable(call[p])
           /\ WriteEntries(call[p])
<1>1. /\ pc[p] = "commit" /\ call[p] \in Calls
      /\ WriteEntries(call[p])
      /\ ~ Posted(call[p].key)
      /\ call[p].touched # {} /\ Balanced(call[p])
      /\ held[p] = call[p].touched /\ Overdrawn(p) = {}
  BY DEF Commit, IInv, TypeOK, KeyReserved, CallsValidated, LocksHeld, CheckHolds
<1>2. Affordable(call[p])
  <2> SUFFICES ASSUME NEW w \in Protected \cap call[p].touched
               PROVE  balance[w] + call[p].delta[w] >= 0
    BY DEF Affordable
  <2>1. w \in Wallets /\ seen[p][w] = balance[w]
    BY <1>1 DEF IInv, ReadsFresh, Protected
  <2>2. ~ (balance[w] + call[p].delta[w] < 0)
    BY <1>1, <2>1 DEF Overdrawn
  <2>3. balance[w] \in Int /\ call[p].delta[w] \in Int
    BY <1>1, <2>1, CallsAssumption DEF IInv, TypeOK, TablesTypeOK
  <2> QED BY <2>2, <2>3
<1> QED BY <1>1, <1>2

\* The sum is the same operator in AtomicLedger and here.
LEMMA SameSum == \A f : Atomic!SumFunction(f) = SumFunction(f)
BY DEF SumFunction, SumFunctionOnSet, FoldFunctionOnSet, MapThenFoldSet,
       Atomic!SumFunction, Atomic!SumFunctionOnSet, Atomic!FoldFunctionOnSet,
       Atomic!MapThenFoldSet

\* A commit is a step of the abstract ledger; every other step is a stutter of it.
LEMMA StepImplements ==
    ASSUME IInv, [Next]_vars
    PROVE  [Atomic!Next]_<<journal, balance>>
<1> SUFFICES ASSUME NEW p \in Posters, Commit(p) PROVE Atomic!Next
  BY OnlyCommitsWrite
<1>1. Atomic!Apply(call[p])
  BY CommitIsProper, SameSum
  DEF Atomic!Apply, Atomic!Posted, Posted, Atomic!Balanced, Balanced, Atomic!Affordable,
      Affordable, Atomic!Protected, Protected, Atomic!WriteEntries, WriteEntries
<1>2. call[p] \in Calls
  BY CommitIsProper
<1> QED BY <1>1, <1>2 DEF Atomic!Next

\* However the posters' statements interleave, fail and commit, the tables
\* change as if transactions happened one at a time.
THEOREM LedgerImplementsAtomicLedger == Spec => ImplementsAtomicLedger
<1>1. Init => Atomic!Init
  BY DEF Init, EmptyTables, Atomic!Init, Atomic!EmptyTables
<1>2. IInv /\ [Next]_vars => [Atomic!Next]_<<journal, balance>>
  BY StepImplements
<1> QED BY <1>1, <1>2, LedgerInvariant, PTL DEF Spec, Atomic!Spec, ImplementsAtomicLedger

-----------------------------------------------------------------------------
(* What the tables promise, of the ledger as it runs *)

\* What the tables promise together (TablesInv) survives every step.
LEMMA StepKeepsTablesInv == IInv /\ TablesInv /\ [Next]_vars => TablesInv'
<1> SUFFICES ASSUME IInv, TablesInv, [Next]_vars PROVE TablesInv'
  OBVIOUS
<1>1. CASE UNCHANGED <<journal, balance>>
  BY <1>1, TablesInvUnchanged
<1>2. CASE \E p \in Posters : Commit(p)
  <2>1. PICK p \in Posters : Commit(p)
    BY <1>2
  <2> QED BY <2>1, CommitIsProper, WriteKeepsTablesInv
<1> QED BY <1>1, <1>2, OnlyCommitsWrite

\* The committed tables are at all times those of a ledger: typed, never overdrawn, one
\* transaction per key, balances that match their entries, coins conserved.
THEOREM LedgerTablesInvariant == Spec => []TablesInv
<1>1. Init => TablesInv
  BY EmptyTablesInv DEF Init
<1> QED BY <1>1, StepKeepsTablesInv, LedgerInvariant, PTL DEF Spec

\* No agent, owner or escrow wallet is ever overdrawn.
THEOREM LedgerNeverOverdraws == Spec => []NoOverdraft
<1>1. TablesInv => NoOverdraft
  BY DEF TablesInv
<1> QED BY <1>1, LedgerTablesInvariant, PTL

\* Nothing is posted twice under one idempotency key.
THEOREM LedgerPostsKeysOnce == Spec => []OneTxnPerKey
<1>1. TablesInv => OneTxnPerKey
  BY DEF TablesInv
<1> QED BY <1>1, LedgerTablesInvariant, PTL

\* Every balance is the sum of its entries.
THEOREM LedgerBalancesMatch == Spec => []BalancesMatchEntries
<1>1. TablesInv => BalancesMatchEntries
  BY DEF TablesInv
<1> QED BY <1>1, LedgerTablesInvariant, PTL

\* Coins are neither made nor lost.
THEOREM LedgerConservesCoins == Spec => []Conservation
<1>1. TablesInv => Conservation
  BY DEF TablesInv
<1> QED BY <1>1, LedgerTablesInvariant, PTL

\* A reconciliation finds nothing, whenever it runs.
THEOREM LedgerReconciles == Spec => []Reconciled
<1>1. NoOverdraft /\ BalancesMatchEntries /\ Conservation => Reconciled
  BY DEF Reconciled
<1> QED BY <1>1, LedgerNeverOverdraws, LedgerBalancesMatch, LedgerConservesCoins, PTL
=============================================================================
