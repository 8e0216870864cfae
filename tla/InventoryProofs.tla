--------------------------- MODULE InventoryProofs ---------------------------
(***************************************************************************)
(* For any capacity and any number of reservations, orders and concurrent  *)
(* calls: a reservation is turned into tickets at most once, the counters  *)
(* say what the rows say, and sales on time never exceed the capacity.     *)
(* The counters are sums over sets of rows, so the facts about finite sums *)
(* come first, by induction over the subsets of a finite set.              *)
(***************************************************************************)
EXTENDS Inventory, FiniteSetTheorems, TLAPS

-----------------------------------------------------------------------------
(* Sums over finite sets *)

\* Every non-empty set of natural numbers has a least member.
LEMMA LeastNumber ==
    ASSUME NEW T, T \subseteq Nat, T # {}
    PROVE  \E x \in T : \A y \in T : x <= y
<1> DEFINE R == {ss \in Nat \X Nat : ss[1] < ss[2]}
<1>1. IsWellFoundedOn(R, Nat)
  BY NatLessThanWellFounded DEF OpToRel
<1>2. \A x, y \in Nat : <<y, x>> \in R <=> y < x
  OBVIOUS
<1> HIDE DEF R
<1>3. PICK x \in T : \A y \in T : ~ (<<y, x>> \in R)
  BY <1>1, WFMin
<1>4. ASSUME NEW y \in T PROVE x <= y
  <2>1. x \in Nat /\ y \in Nat /\ ~ (y < x)
    BY <1>2, <1>3
  <2> QED
    BY <2>1
<1> QED
  BY <1>3, <1>4

\* The element SumFunctionOnSet takes first.
Picked(s) == CHOOSE x \in s : TRUE

\* The sum over s, when g holds the sums over smaller sets.
SumEntry(f, g, s) == IF s = {} THEN 0 ELSE f[Picked(s)] + g[s \ {Picked(s)}]

\* The recursive function in the definition of SumFunctionOnSet.
SumTable(f, S) == CHOOSE g : g = [s \in SUBSET S |-> SumEntry(f, g, s)]

\* A sum is an entry of that function.
LEMMA SumIsTableEntry == ASSUME NEW f, NEW S PROVE SumFunctionOnSet(f, S) = SumTable(f, S)[S]
BY Zenon DEF SumFunctionOnSet, FoldFunctionOnSet, MapThenFoldSet, SumTable, SumEntry, Picked

\* The subsets of S with at most n elements.
SmallSubsets(S, n) == {s \in SUBSET S : Cardinality(s) <= n}

\* A table of the sums over them.
IsPartialTable(f, S, n, g) == g = [s \in SmallSubsets(S, n) |-> SumEntry(f, g, s)]

\* A non-empty set contains the element that is taken first.
LEMMA PickedIsMember == ASSUME NEW s, s # {} PROVE Picked(s) \in s
BY DEF Picked

\* The sums over the subsets of bounded size can be tabulated: from the sums
\* over the subsets of one size follow those over the next.
LEMMA PartialTablesExist ==
    ASSUME NEW f, NEW S, IsFiniteSet(S), NEW n \in Nat
    PROVE  \E g : IsPartialTable(f, S, n, g)
<1> DEFINE T == {m \in Nat : ~ \E g : IsPartialTable(f, S, m, g)}
<1> SUFFICES ASSUME T # {} PROVE FALSE
  OBVIOUS
<1>1. PICK m \in T : \A y \in T : m <= y
  BY LeastNumber
<1>2. \A s \in SUBSET S : IsFiniteSet(s) /\ Cardinality(s) \in Nat
  BY FS_Subset, FS_CardinalityType
<1>3. \A s \in SUBSET S : s # {} =>
           s \ {Picked(s)} \in SUBSET S /\ Cardinality(s \ {Picked(s)}) = Cardinality(s) - 1
  BY <1>2, PickedIsMember, FS_RemoveElement
<1>4. CASE m = 0
  <2> DEFINE g == [s \in SmallSubsets(S, 0) |-> 0]
  <2>1. \A s \in SmallSubsets(S, 0) : s = {}
    BY <1>2, FS_EmptySet DEF SmallSubsets
  <2>2. IsPartialTable(f, S, 0, g)
    BY <2>1 DEF IsPartialTable, SumEntry
  <2> QED
    BY <1>1, <1>4, <2>2
<1>5. CASE m # 0
  <2>1. m - 1 \in Nat /\ m - 1 \notin T
    BY <1>1, <1>5
  <2>2. PICK h : IsPartialTable(f, S, m - 1, h)
    BY <2>1
  <2> DEFINE g == [s \in SmallSubsets(S, m) |-> SumEntry(f, h, s)]
  <2>3. \A s \in SmallSubsets(S, m - 1) : s \in SmallSubsets(S, m) /\ g[s] = h[s]
    BY <1>1, <1>2, <2>2, <2>1 DEF IsPartialTable, SmallSubsets
  <2>4. \A s \in SmallSubsets(S, m) : s # {} => s \ {Picked(s)} \in SmallSubsets(S, m - 1)
    BY <1>1, <1>3, <1>2, <2>1 DEF SmallSubsets
  <2>5. \A s \in SmallSubsets(S, m) : SumEntry(f, g, s) = SumEntry(f, h, s)
    BY <2>3, <2>4 DEF SumEntry
  <2>6. IsPartialTable(f, S, m, g)
    BY <2>5 DEF IsPartialTable
  <2> QED
    BY <1>1, <2>6
<1> QED
  BY <1>4, <1>5

\* So the recursive function exists, and obeys its equation.
LEMMA SumTableEntry ==
    ASSUME NEW f, NEW S, IsFiniteSet(S), NEW s \in SUBSET S
    PROVE  SumTable(f, S)[s] = SumEntry(f, SumTable(f, S), s)
<1>1. Cardinality(S) \in Nat /\ SmallSubsets(S, Cardinality(S)) = SUBSET S
  BY FS_Subset, FS_CardinalityType DEF SmallSubsets
<1>2. \E g : g = [t \in SUBSET S |-> SumEntry(f, g, t)]
  <2>1. PICK g : IsPartialTable(f, S, Cardinality(S), g)
    BY <1>1, PartialTablesExist
  <2>2. g = [t \in SUBSET S |-> SumEntry(f, g, t)]
    BY <1>1, <2>1 DEF IsPartialTable
  <2> QED
    BY <2>2
<1> DEFINE g == SumTable(f, S)
<1>3. g = [t \in SUBSET S |-> SumEntry(f, g, t)]
  BY <1>2, Zenon DEF SumTable
<1> HIDE DEF g
<1>4. g[s] = SumEntry(f, g, s)
  BY <1>3
<1> QED
  BY <1>4 DEF g

\* Induction over the subsets of a finite set, with the property given as the
\* set of the subsets that have it.
LEMMA SetInduction ==
    ASSUME NEW S, IsFiniteSet(S), NEW P,
           {} \in P,
           \A s \in SUBSET S : s # {} /\ (\A x \in s : s \ {x} \in P) => s \in P
    PROVE  SUBSET S \subseteq P
<1> DEFINE T == {Cardinality(s) : s \in (SUBSET S) \ P}
<1> SUFFICES ASSUME T # {} PROVE FALSE
  OBVIOUS
<1>1. \A s \in SUBSET S : IsFiniteSet(s) /\ Cardinality(s) \in Nat
  BY FS_Subset, FS_CardinalityType
<1>2. PICK m \in T : \A y \in T : m <= y
  <2>1. T \subseteq Nat
    BY <1>1
  <2> HIDE DEF T
  <2> QED
    BY <2>1, LeastNumber
<1>3. PICK s \in (SUBSET S) \ P : m = Cardinality(s)
  BY <1>2
<1>4. ASSUME NEW x \in s PROVE s \ {x} \in P
  <2>1. Cardinality(s \ {x}) = Cardinality(s) - 1 /\ s \ {x} \in SUBSET S
    BY <1>1, FS_RemoveElement
  <2> QED
    BY <1>1, <1>2, <1>3, <2>1
<1> QED
  BY <1>3, <1>4

\* The empty sum.
LEMMA SumEmpty == ASSUME NEW f PROVE SumFunctionOnSet(f, {}) = 0
<1>1. SumTable(f, {})[{}] = SumEntry(f, SumTable(f, {}), {})
  BY SumTableEntry, FS_EmptySet
<1> QED
  BY <1>1, SumIsTableEntry DEF SumEntry

\* A sum is the summand taken first plus the sum of the others.
LEMMA SumChosen ==
    ASSUME NEW f, NEW S, IsFiniteSet(S), S # {}
    PROVE  SumFunctionOnSet(f, S) = f[Picked(S)] + SumFunctionOnSet(f, S \ {Picked(S)})
<1> DEFINE R == S \ {Picked(S)}
           P == {s \in SUBSET R : SumTable(f, S)[s] = SumTable(f, R)[s]}
<1>1. IsFiniteSet(R) /\ R \in SUBSET S
  BY FS_Subset
<1>2. \A s \in SUBSET S : SumTable(f, S)[s] = SumEntry(f, SumTable(f, S), s)
  BY SumTableEntry
<1>3. \A s \in SUBSET R : SumTable(f, R)[s] = SumEntry(f, SumTable(f, R), s)
  BY <1>1, SumTableEntry
<1>4. {} \in P
  BY <1>2, <1>3 DEF SumEntry
<1>5. ASSUME NEW s \in SUBSET R, s # {}, \A x \in s : s \ {x} \in P PROVE s \in P
  <2>1. SumTable(f, S)[s \ {Picked(s)}] = SumTable(f, R)[s \ {Picked(s)}]
    BY <1>5, PickedIsMember
  <2> QED
    BY <1>1, <1>2, <1>3, <1>5, <2>1 DEF SumEntry
<1>6. R \in P
  <2> HIDE DEF P, R
  <2> QED
    BY <1>1, <1>4, <1>5, SetInduction
<1>7. SumFunctionOnSet(f, S) = f[Picked(S)] + SumTable(f, S)[R]
  BY <1>2, SumIsTableEntry DEF SumEntry
<1> QED
  BY <1>6, <1>7, SumIsTableEntry

\* A sum of natural numbers is one.
LEMMA SumType ==
    ASSUME NEW S, IsFiniteSet(S), NEW f, \A x \in S : f[x] \in Nat
    PROVE  SumFunctionOnSet(f, S) \in Nat
<1> DEFINE P == {s \in SUBSET S : SumFunctionOnSet(f, s) \in Nat}
<1>1. {} \in P
  BY SumEmpty
<1>2. ASSUME NEW s \in SUBSET S, s # {}, \A x \in s : s \ {x} \in P PROVE s \in P
  <2>1. IsFiniteSet(s) /\ Picked(s) \in s
    BY FS_Subset, PickedIsMember, <1>2
  <2>2. SumFunctionOnSet(f, s) = f[Picked(s)] + SumFunctionOnSet(f, s \ {Picked(s)})
    BY <1>2, <2>1, SumChosen
  <2> QED
    BY <1>2, <2>1, <2>2
<1>3. S \in P
  <2> HIDE DEF P
  <2> QED
    BY <1>1, <1>2, SetInduction
<1> QED
  BY <1>3

\* Any summand may be taken first.
LEMMA SumRemove ==
    ASSUME NEW S, IsFiniteSet(S), NEW f, \A x \in S : f[x] \in Nat, NEW z \in S
    PROVE  SumFunctionOnSet(f, S) = f[z] + SumFunctionOnSet(f, S \ {z})
<1> DEFINE P == {s \in SUBSET S : \A x \in s : SumFunctionOnSet(f, s) = f[x] + SumFunctionOnSet(f, s \ {x})}
<1>1. {} \in P
  OBVIOUS
<1>2. ASSUME NEW s \in SUBSET S, s # {}, \A x \in s : s \ {x} \in P PROVE s \in P
  <2> DEFINE c == Picked(s)
  <2>1. IsFiniteSet(s) /\ c \in s
    BY FS_Subset, PickedIsMember, <1>2
  <2>2. SumFunctionOnSet(f, s) = f[c] + SumFunctionOnSet(f, s \ {c})
    BY <1>2, <2>1, SumChosen
  <2>3. ASSUME NEW x \in s PROVE SumFunctionOnSet(f, s) = f[x] + SumFunctionOnSet(f, s \ {x})
    <3>1. CASE x = c
      BY <3>1, <2>2
    <3>2. CASE x # c
      <4>1. SumFunctionOnSet(f, s \ {c}) = f[x] + SumFunctionOnSet(f, (s \ {c}) \ {x})
        BY <1>2, <2>1, <3>2
      <4>2. SumFunctionOnSet(f, s \ {x}) = f[c] + SumFunctionOnSet(f, (s \ {x}) \ {c})
        BY <1>2, <2>1, <2>3, <3>2
      <4>3. (s \ {c}) \ {x} = (s \ {x}) \ {c}
        OBVIOUS
      <4>4. SumFunctionOnSet(f, (s \ {x}) \ {c}) \in Nat /\ f[x] \in Nat /\ f[c] \in Nat
        <5>1. IsFiniteSet((s \ {x}) \ {c})
          BY <2>1, FS_Subset
        <5> QED
          BY <5>1, <2>1, SumType
      <4> QED
        BY <2>2, <4>1, <4>2, <4>3, <4>4
    <3> QED
      BY <3>1, <3>2
  <2> QED
    BY <2>3
<1>3. S \in P
  <2> HIDE DEF P
  <2> QED
    BY <1>1, <1>2, SetInduction
<1> QED
  BY <1>3

\* A sum over fewer summands is no larger.
LEMMA SumMonotone ==
    ASSUME NEW T, IsFiniteSet(T), NEW f, \A x \in T : f[x] \in Nat, NEW S \in SUBSET T
    PROVE  SumFunctionOnSet(f, S) <= SumFunctionOnSet(f, T)
<1> DEFINE P == {s \in SUBSET T : SumFunctionOnSet(f, S \cap s) <= SumFunctionOnSet(f, s)}
<1>1. {} \in P
  BY SumEmpty
<1>2. ASSUME NEW s \in SUBSET T, s # {}, \A x \in s : s \ {x} \in P PROVE s \in P
  <2>1. PICK x \in s : TRUE
    BY <1>2
  <2>2. /\ IsFiniteSet(s) /\ IsFiniteSet(S \cap s)
        /\ IsFiniteSet(s \ {x}) /\ IsFiniteSet(S \cap (s \ {x}))
    BY FS_Subset
  <2>3. SumFunctionOnSet(f, s) = f[x] + SumFunctionOnSet(f, s \ {x})
    BY <2>2, SumRemove
  <2>4. SumFunctionOnSet(f, S \cap (s \ {x})) <= SumFunctionOnSet(f, s \ {x})
    BY <1>2
  <2>5. /\ f[x] \in Nat
        /\ SumFunctionOnSet(f, s \ {x}) \in Nat /\ SumFunctionOnSet(f, S \cap (s \ {x})) \in Nat
    BY <2>2, SumType
  <2>6. SumFunctionOnSet(f, S \cap s) \in {SumFunctionOnSet(f, S \cap (s \ {x})), f[x] + SumFunctionOnSet(f, S \cap (s \ {x}))}
    <3>1. CASE x \in S
      <4>1. SumFunctionOnSet(f, S \cap s) = f[x] + SumFunctionOnSet(f, (S \cap s) \ {x})
        BY <2>2, <3>1, SumRemove
      <4>2. (S \cap s) \ {x} = S \cap (s \ {x})
        OBVIOUS
      <4> QED
        BY <4>1, <4>2
    <3>2. CASE x \notin S
      <4>1. S \cap s = S \cap (s \ {x})
        BY <3>2
      <4> QED
        BY <4>1
    <3> QED
      BY <3>1, <3>2
  <2>7. \A p, q, r \in Nat : q <= r => q <= p + r /\ p + q <= p + r
    OBVIOUS
  <2>8. SumFunctionOnSet(f, S \cap s) <= SumFunctionOnSet(f, s)
    BY <2>3, <2>4, <2>5, <2>6, <2>7
  <2> QED
    BY <2>8
<1>3. T \in P
  <2> HIDE DEF P
  <2> QED
    BY <1>1, <1>2, SetInduction
<1>4. S \cap T = S
  OBVIOUS
<1> QED
  BY <1>3, <1>4

\* A sum depends only on its summands.
LEMMA SumAgree ==
    ASSUME NEW S, IsFiniteSet(S), NEW f, NEW g, \A x \in S : f[x] = g[x]
    PROVE  SumFunctionOnSet(f, S) = SumFunctionOnSet(g, S)
<1> DEFINE P == {s \in SUBSET S : SumFunctionOnSet(f, s) = SumFunctionOnSet(g, s)}
<1>1. {} \in P
  BY SumEmpty
<1>2. ASSUME NEW s \in SUBSET S, s # {}, \A x \in s : s \ {x} \in P PROVE s \in P
  <2>1. IsFiniteSet(s) /\ Picked(s) \in s
    BY FS_Subset, PickedIsMember, <1>2
  <2>2. SumFunctionOnSet(f, s) = f[Picked(s)] + SumFunctionOnSet(f, s \ {Picked(s)})
    BY <1>2, <2>1, SumChosen
  <2>3. SumFunctionOnSet(g, s) = g[Picked(s)] + SumFunctionOnSet(g, s \ {Picked(s)})
    BY <1>2, <2>1, SumChosen
  <2> QED
    BY <1>2, <2>1, <2>2, <2>3
<1>3. S \in P
  <2> HIDE DEF P
  <2> QED
    BY <1>1, <1>2, SetInduction
<1> QED
  BY <1>3

-----------------------------------------------------------------------------
(* Reservations and the orders that name them *)

\* The types of everything but counters and clocks.
RowTypes ==
    /\ hold \in [Reservations -> {"ABSENT", "HELD", "CONSUMED", "EXPIRED"}]
    /\ quantity \in [Reservations -> Nat]
    /\ order \in [Orders -> OrderStatuses]
    /\ reservationId \in [Orders -> Reservations \cup {None}]
    /\ tickets \in [Orders -> Nat]
    /\ target \in [Releases -> Reservations \cup {None}]
    /\ issuing \in [Issuers -> Orders \cup {None}]
    /\ rpc \in [Releases -> {"idle", "lock", "done"}]
    /\ ipc \in [Issuers -> {"idle", "allocate", "done", "failed"}]

\* What a release and an issuer have established before they lock the bucket.
CallsKnow ==
    /\ \A p \in Releases : rpc[p] = "lock" => target[p] # None
    /\ \A i \in Issuers : ipc[i] = "allocate" => issuing[i] # None

\* An order with tickets exists and names a reservation.
SoldOrdersExist ==
    \A o \in Orders : tickets[o] > 0 => /\ order[o] # "ABSENT"
                                        /\ reservationId[o] # None

IndInv == RowTypes /\ CallsKnow /\ SoldOrdersExist /\ IssuedOnce

\* IndInv holds initially: nothing is sold.
LEMMA InitEstablishesIndInv == Init => IndInv
BY DEF Init, IndInv, RowTypes, CallsKnow, SoldOrdersExist, IssuedOnce, Sold, OrderStatuses

\* A step that sells nothing, keeps the orders' reservations and puts no sold
\* reservation back keeps the sales as they are.
LEMMA SalesAreKept ==
    ASSUME IndInv, RowTypes',
           UNCHANGED tickets,
           \A o \in Orders : tickets[o] > 0 =>
               /\ reservationId'[o] = reservationId[o]
               /\ order'[o] # "ABSENT"
               /\ quantity'[reservationId[o]] = quantity[reservationId[o]]
               /\ hold'[reservationId[o]] \in {"CONSUMED", "EXPIRED"}
    PROVE  SoldOrdersExist' /\ IssuedOnce'
BY DEF IndInv, RowTypes, SoldOrdersExist, IssuedOnce, Sold

\* What an issuer finds under the lock: its order has no tickets, and no other
\* order turned the reservation into tickets.
LEMMA IssuingIsFirst ==
    ASSUME IndInv, NEW i \in Issuers, issueWithReferences(i)
    PROVE  /\ issuing[i] \in Orders
           /\ reservationId[issuing[i]] \in Reservations
           /\ hold[reservationId[issuing[i]]] = "HELD"
           /\ \A x \in Sold : reservationId[x] # reservationId[issuing[i]]
           /\ tickets[issuing[i]] = 0
<1> DEFINE o == issuing[i]
           r == reservationId[o]
<1>1. o \in Orders /\ r \in Reservations /\ hold[r] = "HELD"
  BY InventoryAssumption DEF issueWithReferences, Consumable, IndInv, RowTypes, CallsKnow
<1>2. \A x \in Sold : reservationId[x] # r
  BY <1>1 DEF IndInv, IssuedOnce
<1>3. tickets[o] = 0
  BY <1>1, <1>2 DEF IndInv, RowTypes, Sold
<1> QED
  BY <1>1, <1>2, <1>3

\* Every action preserves IndInv.
LEMMA StepPreservesIndInv == IndInv /\ [Next]_vars => IndInv'
<1> SUFFICES ASSUME IndInv, [Next]_vars PROVE IndInv'
  OBVIOUS
<1> USE InventoryAssumption
    DEF IndInv, countVars, holdVars, orderVars, sweepVars, releaseVars, issueVars
<1>1. ASSUME NEW r \in Reservations, NEW q \in Quantities, NEW ttl \in HoldTtls,
             ReserveInventory(r, q, ttl)
      PROVE  IndInv'
  <2>1. RowTypes' /\ CallsKnow'
    BY <1>1 DEF ReserveInventory, RowTypes, CallsKnow
  <2>2. SoldOrdersExist' /\ IssuedOnce'
    BY <1>1, <2>1, SalesAreKept DEF ReserveInventory, RowTypes, SoldOrdersExist,
        IssuedOnce, Sold
  <2> QED
    BY <2>1, <2>2
<1>2. ASSUME NEW w \in Sweeps, SweepExpiredReservations(w) PROVE IndInv'
  <2>1. RowTypes' /\ CallsKnow'
    BY <1>2 DEF SweepExpiredReservations, RowTypes, CallsKnow
  <2>2. SoldOrdersExist' /\ IssuedOnce'
    BY <1>2, <2>1, SalesAreKept DEF SweepExpiredReservations, RowTypes, SoldOrdersExist,
        IssuedOnce, Sold
  <2> QED
    BY <2>1, <2>2
<1>3. ASSUME NEW p \in Releases, NEW r \in Reservations, FindExpired(p, r) PROVE IndInv'
  BY <1>3 DEF FindExpired, RowTypes, CallsKnow, SoldOrdersExist, IssuedOnce, Sold
<1>4. ASSUME NEW p \in Releases, ReleaseExpiredReservation(p) PROVE IndInv'
  <2>1. RowTypes' /\ CallsKnow'
    BY <1>4 DEF ReleaseExpiredReservation, EndRelease, RowTypes, CallsKnow
  <2>2. SoldOrdersExist' /\ IssuedOnce'
    BY <1>4, <2>1, SalesAreKept DEF ReleaseExpiredReservation, RowTypes, SoldOrdersExist,
        IssuedOnce, Sold
  <2> QED
    BY <2>1, <2>2
<1>5. ASSUME NEW i \in Issuers, NEW o \in Orders, getReservationQuantity(i, o)
      PROVE  IndInv'
  <2>1. /\ UNCHANGED <<hold, quantity, order, reservationId, tickets, target, rpc>>
        /\ \/ \E out \in {"done", "failed"} : EndIssue(i, out)
           \/ /\ ipc' = [ipc EXCEPT ![i] = "allocate"]
              /\ issuing' = [issuing EXCEPT ![i] = o]
    BY <1>5 DEF getReservationQuantity
  <2>2. RowTypes' /\ CallsKnow'
    BY <2>1 DEF EndIssue, RowTypes, CallsKnow
  <2> QED
    BY <2>1, <2>2 DEF SoldOrdersExist, IssuedOnce, Sold
<1>6. ASSUME NEW i \in Issuers, issueWithReferences(i) PROVE IndInv'
  <2> DEFINE o == issuing[i]
             r == reservationId[o]
  <2>1. o \in Orders /\ r \in Reservations /\ hold[r] = "HELD"
    BY <1>6, IssuingIsFirst
  <2>2. \A x \in Sold : reservationId[x] # r
    BY <1>6, IssuingIsFirst
  <2>3. tickets[o] = 0
    BY <1>6, IssuingIsFirst
  <2>4. /\ tickets' = [tickets EXCEPT ![o] = quantity[r]]
        /\ hold' = [hold EXCEPT ![r] = "CONSUMED"]
        /\ order' = [order EXCEPT ![o] = "FULFILLED"]
        /\ UNCHANGED <<quantity, reservationId, target, rpc>>
        /\ EndIssue(i, "done") \/ TryAgain(i)
    <3>1. tickets[o] + quantity[r] = quantity[r]
      BY <2>1, <2>3 DEF RowTypes
    <3> QED
      BY <1>6, <3>1 DEF issueWithReferences
  <2>5. RowTypes'
    <3>1. /\ ipc' \in [Issuers -> {"idle", "allocate", "done", "failed"}]
          /\ issuing' \in [Issuers -> Orders \cup {None}]
      BY <2>4 DEF EndIssue, TryAgain, RowTypes
    <3> QED
      BY <2>1, <2>4, <3>1 DEF RowTypes, OrderStatuses
  <2>6. CallsKnow'
    <3>1. \A j \in Issuers : ipc'[j] = "allocate" => /\ ipc[j] = "allocate"
                                                    /\ issuing'[j] = issuing[j]
      BY <2>4 DEF EndIssue, TryAgain, RowTypes
    <3> QED
      BY <2>4, <3>1 DEF CallsKnow
  <2>7. SoldOrdersExist'
    BY <2>1, <2>4 DEF RowTypes, SoldOrdersExist
  <2>8. IssuedOnce'
    BY <2>1, <2>2, <2>4 DEF RowTypes, SoldOrdersExist, IssuedOnce, Sold
  <2> QED
    BY <2>5, <2>6, <2>7, <2>8
<1>7. ASSUME NEW o \in Orders, NEW r \in Reservations, PlaceOrder(o, r) PROVE IndInv'
  <2>1. RowTypes' /\ CallsKnow'
    BY <1>7 DEF PlaceOrder, RowTypes, CallsKnow, OrderStatuses
  <2>2. SoldOrdersExist' /\ IssuedOnce'
    BY <1>7, <2>1, SalesAreKept DEF PlaceOrder, RowTypes, SoldOrdersExist, IssuedOnce, Sold
  <2> QED
    BY <2>1, <2>2
<1>8. ASSUME NEW o \in Orders, SettleOrder(o) PROVE IndInv'
  <2>1. RowTypes' /\ CallsKnow'
    BY <1>8 DEF SettleOrder, RowTypes, CallsKnow, OrderStatuses
  <2>2. SoldOrdersExist' /\ IssuedOnce'
    BY <1>8, <2>1, SalesAreKept DEF SettleOrder, RowTypes, SoldOrdersExist, IssuedOnce, Sold
  <2> QED
    BY <2>1, <2>2
<1>9. ASSUME \/ \E w \in Sweeps : claimExpiredHeldReservations(w) \/ AbortSweep(w)
             \/ \E p \in Releases : AbortRelease(p)
             \/ \E at \in Times : ReconcileInventoryDrift(at)
             \/ \E i \in Issuers : FailAttempt(i) \/ AbandonIssue(i)
             \/ Tick
             \/ UNCHANGED vars
      PROVE  IndInv'
  <2>1. /\ UNCHANGED <<hold, quantity, order, reservationId, tickets>>
        /\ \/ UNCHANGED <<rpc, target>>
           \/ \E p \in Releases : EndRelease(p)
        /\ \/ UNCHANGED <<ipc, issuing>>
           \/ \E i \in Issuers : EndIssue(i, "failed")
    BY <1>9 DEF claimExpiredHeldReservations, AbortSweep, AbortRelease,
        ReconcileInventoryDrift, FailAttempt, TryAgain, AbandonIssue, Tick, vars
  <2>2. RowTypes' /\ CallsKnow'
    BY <2>1 DEF EndRelease, EndIssue, RowTypes, CallsKnow
  <2> QED
    BY <2>1, <2>2 DEF SoldOrdersExist, IssuedOnce, Sold
<1> QED
  BY <1>1, <1>2, <1>3, <1>4, <1>5, <1>6, <1>7, <1>8, <1>9 DEF Next

\* No reservation is ever turned into tickets twice, for any number of orders
\* that name it, of concurrent or repeated issuing calls and of sweeps and
\* releases that race with them.
THEOREM ReservationsAreIssuedOnce == Spec => []IssuedOnce
<1>1. IndInv => IssuedOnce
  BY DEF IndInv
<1> QED
  BY InitEstablishesIndInv, StepPreservesIndInv, <1>1, PTL DEF Spec
-----------------------------------------------------------------------------
(* The counters *)

\* The NOW() of a transaction that is still running is not in the future.
ClocksLag ==
    /\ \A w \in Sweeps : sweepNow[w] <= now
    /\ \A p \in Releases : releaseNow[p] <= now

CountInv == TypeOK /\ ClocksLag /\ CacheCoversHolds /\ SoldCountAgrees /\ OnTimeSalesFit

\* Sums of quantities and of tickets are natural numbers, and grow with the set.
LEMMA TotalsAreNumbers ==
    ASSUME TypeOK
    PROVE  /\ \A S \in SUBSET Reservations : IsFiniteSet(S) /\ Total(S) \in Nat
           /\ \A T \in SUBSET Reservations : \A S \in SUBSET T : Total(S) <= Total(T)
           /\ \A S \in SUBSET Orders : /\ IsFiniteSet(S)
                                       /\ SumFunctionOnSet(tickets, S) \in Nat
           /\ \A T \in SUBSET Orders : \A S \in SUBSET T :
                 SumFunctionOnSet(tickets, S) <= SumFunctionOnSet(tickets, T)
<1>1. /\ \A S \in SUBSET Reservations : IsFiniteSet(S)
      /\ \A S \in SUBSET Orders : IsFiniteSet(S)
  BY FS_Subset, InventoryAssumption
<1>2. /\ \A r \in Reservations : quantity[r] \in Nat
      /\ \A o \in Orders : tickets[o] \in Nat
  BY DEF TypeOK
<1>3. \A S \in SUBSET Reservations : Total(S) \in Nat
  BY <1>1, <1>2, SumType DEF Total
<1>4. \A S \in SUBSET Orders : SumFunctionOnSet(tickets, S) \in Nat
  BY <1>1, <1>2, SumType
<1>5. \A T \in SUBSET Reservations : \A S \in SUBSET T : Total(S) <= Total(T)
  BY <1>1, <1>2, SumMonotone DEF Total
<1>6. \A T \in SUBSET Orders : \A S \in SUBSET T :
         SumFunctionOnSet(tickets, S) <= SumFunctionOnSet(tickets, T)
  BY <1>1, <1>2, SumMonotone
<1> QED
  BY <1>1, <1>3, <1>4, <1>5, <1>6

\* The types of the counters, the clocks and the calls.
LEMMA StepPreservesTypes == IndInv /\ TypeOK /\ [Next]_vars => TypeOK'
<1> SUFFICES ASSUME IndInv, TypeOK, [Next]_vars PROVE TypeOK'
  OBVIOUS
<1> USE InventoryAssumption
    DEF countVars, holdVars, orderVars, sweepVars, releaseVars, issueVars
<1>0. \A t, changed : getActiveReservationQuantity(t, changed) \in Nat
  BY TotalsAreNumbers DEF getActiveReservationQuantity
<1>1. ASSUME NEW r \in Reservations, NEW q \in Quantities, NEW ttl \in HoldTtls,
             ReserveInventory(r, q, ttl)
      PROVE  TypeOK'
  <2>1. authoritativeReserved \in Nat
    BY <1>0 DEF authoritativeReserved, TypeOK
  <2> QED
    BY <1>1, <2>1 DEF ReserveInventory, TypeOK, Times
<1>2. ASSUME NEW w \in Sweeps, claimExpiredHeldReservations(w) PROVE TypeOK'
  BY <1>2 DEF claimExpiredHeldReservations, Claimable, TypeOK
<1>3. ASSUME NEW w \in Sweeps, SweepExpiredReservations(w) PROVE TypeOK'
  BY <1>0, <1>3 DEF SweepExpiredReservations, TypeOK, Times
<1>4. ASSUME NEW w \in Sweeps, AbortSweep(w) PROVE TypeOK'
  BY <1>4 DEF AbortSweep, TypeOK, Times
<1>5. ASSUME NEW p \in Releases, NEW r \in Reservations, FindExpired(p, r) PROVE TypeOK'
  BY <1>5 DEF FindExpired, TypeOK
<1>6. ASSUME NEW p \in Releases, ReleaseExpiredReservation(p) PROVE TypeOK'
  <2>1. /\ rpc' \in [Releases -> {"idle", "lock", "done"}]
        /\ target' \in [Releases -> Reservations \cup {None}]
        /\ releaseNow' \in [Releases -> Times]
    BY <1>6 DEF ReleaseExpiredReservation, EndRelease, TypeOK, Times
  <2>2. /\ hold' \in [Reservations -> {"ABSENT", "HELD", "CONSUMED", "EXPIRED"}]
        /\ reservedCount' \in Nat
    BY <1>0, <1>6 DEF ReleaseExpiredReservation, TypeOK
  <2> QED
    BY <1>6, <2>1, <2>2 DEF ReleaseExpiredReservation, TypeOK
<1>7. ASSUME NEW p \in Releases, AbortRelease(p) PROVE TypeOK'
  BY <1>7 DEF AbortRelease, EndRelease, TypeOK, Times
<1>8. ASSUME NEW at \in Times, ReconcileInventoryDrift(at) PROVE TypeOK'
  BY <1>0, <1>8 DEF ReconcileInventoryDrift, TypeOK
<1>9. ASSUME NEW i \in Issuers, NEW o \in Orders, getReservationQuantity(i, o) PROVE TypeOK'
  BY <1>9 DEF getReservationQuantity, EndIssue, TypeOK
<1>10. ASSUME NEW i \in Issuers, issueWithReferences(i) PROVE TypeOK'
  <2>1. issuing[i] \in Orders /\ reservationId[issuing[i]] \in Reservations
    BY <1>10, IssuingIsFirst
  <2>2. /\ tickets' \in [Orders -> Nat] /\ soldCount' \in Nat /\ reservedCount' \in Nat
        /\ issuedAt' \in [Orders -> Times]
    BY <1>0, <1>10, <2>1 DEF issueWithReferences, TypeOK
  <2>3. attempt[i] < MaxAttempts /\ (EndIssue(i, "done") \/ TryAgain(i))
    BY <1>10 DEF issueWithReferences
  <2>4. /\ ipc' \in [Issuers -> {"idle", "allocate", "done", "failed"}]
        /\ issuing' \in [Issuers -> Orders \cup {None}]
        /\ attempt' \in [Issuers -> 0 .. MaxAttempts]
    BY <2>3 DEF EndIssue, TryAgain, TypeOK
  <2>5. /\ order' \in [Orders -> OrderStatuses]
        /\ hold' \in [Reservations -> {"ABSENT", "HELD", "CONSUMED", "EXPIRED"}]
        /\ UNCHANGED <<quantity, expiresAt, reservationId, sweepVars, releaseVars, now>>
    BY <1>10, <2>1 DEF issueWithReferences, TypeOK, OrderStatuses
  <2> QED
    BY <2>2, <2>4, <2>5 DEF TypeOK
<1>11. ASSUME NEW i \in Issuers, FailAttempt(i) PROVE TypeOK'
  BY <1>11 DEF FailAttempt, TryAgain, TypeOK
<1>12. ASSUME NEW i \in Issuers, AbandonIssue(i) PROVE TypeOK'
  BY <1>12 DEF AbandonIssue, EndIssue, TypeOK
<1>13. ASSUME NEW o \in Orders, NEW r \in Reservations, PlaceOrder(o, r) PROVE TypeOK'
  BY <1>13 DEF PlaceOrder, TypeOK, OrderStatuses
<1>14. ASSUME NEW o \in Orders, SettleOrder(o) PROVE TypeOK'
  <2>1. order' \in [Orders -> OrderStatuses]
    BY <1>14 DEF SettleOrder, TypeOK, OrderStatuses
  <2> QED
    BY <1>14, <2>1 DEF SettleOrder, TypeOK
<1>15. CASE Tick
  BY <1>15 DEF Tick, TypeOK, Times
<1>16. CASE UNCHANGED vars
  BY <1>16 DEF vars, TypeOK
<1> QED
  BY <1>1, <1>2, <1>3, <1>4, <1>5, <1>6, <1>7, <1>8, <1>9, <1>10, <1>11, <1>12, <1>13,
      <1>14, <1>15, <1>16 DEF Next
\* A sale keeps its place among the sales on time as long as its order's
\* tickets, its reservation and the expiry of that reservation stay.
LEMMA OnTimeIsKept ==
    ASSUME UNCHANGED <<tickets, issuedAt>>,
           \A o \in Sold : /\ reservationId'[o] = reservationId[o]
                           /\ expiresAt'[reservationId[o]] = expiresAt[reservationId[o]]
    PROVE  OnTime' = OnTime
BY DEF OnTime, Sold

\* A step after which no more holds are live than before, and which sells
\* nothing, preserves what the counters say, if it leaves the cached counter
\* at no less than the live holds.
LEMMA FewerHoldsAreCovered ==
    ASSUME CountInv, TypeOK', ClocksLag',
           UNCHANGED <<quantity, tickets, soldCount>>, OnTime' = OnTime,
           Live' \subseteq Live, reservedCount' >= Total(Live')
    PROVE  CountInv'
<1> USE DEF CountInv
<1>1. LiveHolds' = Total(Live')
  BY DEF LiveHolds, Total
<1>2. /\ Live \in SUBSET Reservations
      /\ Total(Live') <= Total(Live) /\ Total(Live') \in Nat /\ Total(Live) \in Nat
  BY TotalsAreNumbers DEF Live
<1>3. CacheCoversHolds'
  BY <1>1 DEF CacheCoversHolds
<1>4. SoldCountAgrees'
  BY DEF SoldCountAgrees
<1>5. OnTimeSalesFit'
  <2>1. SumFunctionOnSet(tickets', OnTime') = SumFunctionOnSet(tickets, OnTime)
    OBVIOUS
  <2>2. SumFunctionOnSet(tickets, OnTime) \in Nat
    BY TotalsAreNumbers DEF OnTime, Sold
  <2>3. Total(Live) + SumFunctionOnSet(tickets, OnTime) <= Capacity
    BY DEF OnTimeSalesFit, LiveHolds
  <2>4. Total(Live') + SumFunctionOnSet(tickets, OnTime) <= Capacity
    BY <1>2, <2>2, <2>3, InventoryAssumption
  <2> QED
    BY <1>1, <2>1, <2>4 DEF OnTimeSalesFit
<1> QED
  BY <1>3, <1>4, <1>5

\* Near the limit the holds are summed up, away from it the cached counter
\* covers them: either way ReserveInventory leaves room for every live hold.
LEMMA ReservedCoversHolds ==
    ASSUME CountInv
    PROVE  /\ authoritativeReserved \in Nat
           /\ authoritativeReserved >= LiveHolds
<1>1. getActiveReservationQuantity(now, {}) = LiveHolds
  <2>1. {r \in Reservations \ {} : hold[r] = "HELD" /\ expiresAt[r] > now} = Live
    BY DEF Live
  <2> QED
    BY <2>1 DEF getActiveReservationQuantity, LiveHolds
<1>2. LiveHolds \in Nat
  BY TotalsAreNumbers DEF CountInv, LiveHolds, Live
<1>3. reservedCount \in Nat /\ reservedCount >= LiveHolds
  BY DEF CountInv, TypeOK, CacheCoversHolds
<1>4. authoritativeReserved \in {LiveHolds, reservedCount}
  BY <1>1 DEF authoritativeReserved
<1> QED
  BY <1>2, <1>3, <1>4

\* A new hold fits beside the live ones and what was sold.
LEMMA ReservePreservesCounts ==
    ASSUME IndInv, CountInv, TypeOK', NEW r \in Reservations, NEW q \in Quantities,
           NEW ttl \in HoldTtls, ReserveInventory(r, q, ttl)
    PROVE  CountInv'
<1> USE DEF CountInv
<1> DEFINE onTime == SumFunctionOnSet(tickets, OnTime)
           auth == authoritativeReserved
           live == LiveHolds
<1>1. /\ hold[r] = "ABSENT" /\ q \in Nat /\ ttl \in Nat \ {0} /\ now \in Nat
      /\ hold' = [hold EXCEPT ![r] = "HELD"]
      /\ quantity' = [quantity EXCEPT ![r] = q]
      /\ expiresAt' = [expiresAt EXCEPT ![r] = now + ttl]
      /\ reservedCount' = auth + q
      /\ q + auth + soldCount <= Capacity
      /\ UNCHANGED <<soldCount, order, reservationId, tickets, issuedAt, sweepNow,
                     releaseNow, now>>
  BY InventoryAssumption DEF ReserveInventory, orderVars, sweepVars, releaseVars,
      TypeOK, Times
<1>2. Live' = Live \cup {r} /\ r \notin Live /\ Live \in SUBSET Reservations
  BY <1>1 DEF Live, TypeOK
<1>3. LiveHolds' = q + live
  <2>1. IsFiniteSet(Live \cup {r}) /\ IsFiniteSet(Live)
    BY <1>2, TotalsAreNumbers
  <2>2. \A x \in Live \cup {r} : quantity'[x] \in Nat
    BY <1>2 DEF TypeOK
  <2>3. SumFunctionOnSet(quantity', Live \cup {r})
          = quantity'[r] + SumFunctionOnSet(quantity', (Live \cup {r}) \ {r})
    BY <2>1, <2>2, SumRemove
  <2>4. (Live \cup {r}) \ {r} = Live
    BY <1>2
  <2>5. SumFunctionOnSet(quantity', Live) = SumFunctionOnSet(quantity, Live)
    <3>1. \A x \in Live : quantity'[x] = quantity[x]
      BY <1>1, <1>2 DEF TypeOK
    <3> QED
      BY <2>1, <3>1, SumAgree
  <2>6. quantity'[r] = q
    BY <1>1 DEF TypeOK
  <2> QED
    BY <1>2, <2>3, <2>4, <2>5, <2>6 DEF LiveHolds, Total
<1>4. OnTime' = OnTime
  <2>1. \A o \in Sold : reservationId[o] # r
    BY <1>1 DEF IndInv, IssuedOnce
  <2>2. \A o \in Sold : expiresAt'[reservationId[o]] = expiresAt[reservationId[o]]
    BY <1>1, <2>1 DEF IndInv, RowTypes, SoldOrdersExist, Sold, TypeOK
  <2> QED
    BY <1>1, <2>2, OnTimeIsKept
<1>5. /\ auth \in Nat /\ live \in Nat /\ auth >= live /\ soldCount \in Nat
      /\ onTime \in Nat /\ onTime <= soldCount
  <2>1. live \in Nat
    BY <1>2, TotalsAreNumbers DEF LiveHolds
  <2>2. OnTime \in SUBSET Orders
    BY DEF OnTime, Sold
  <2> QED
    BY <2>1, <2>2, ReservedCoversHolds, TotalsAreNumbers DEF SoldCountAgrees, TypeOK
<1>6. CacheCoversHolds'
  <2>1. auth + q >= q + live
    BY <1>1, <1>5
  <2> QED
    BY <1>1, <1>3, <2>1 DEF CacheCoversHolds
<1>7. SoldCountAgrees'
  BY <1>1 DEF SoldCountAgrees
<1>8. OnTimeSalesFit'
  <2>1. q + live + onTime <= Capacity
    BY <1>1, <1>5, InventoryAssumption
  <2>2. SumFunctionOnSet(tickets', OnTime') = onTime
    BY <1>1, <1>4
  <2> QED
    BY <1>3, <2>1, <2>2 DEF OnTimeSalesFit
<1>9. ClocksLag'
  BY <1>1 DEF ClocksLag
<1> QED
  BY <1>6, <1>7, <1>8, <1>9
\* Turning a hold into tickets moves its quantity from the holds to the sales,
\* and from the live holds to the sales on time if it was live.
LEMMA IssuePreservesCounts ==
    ASSUME IndInv, CountInv, TypeOK', NEW i \in Issuers, issueWithReferences(i)
    PROVE  CountInv'
<1> USE DEF CountInv
<1> DEFINE o == issuing[i]
           r == reservationId[o]
           sold(S) == SumFunctionOnSet(tickets, S)
<1>1. /\ o \in Orders /\ r \in Reservations /\ hold[r] = "HELD"
      /\ tickets[o] = 0 /\ quantity[r] \in Nat /\ now \in Nat
  BY IssuingIsFirst DEF TypeOK, Times
<1>2. /\ tickets' = [tickets EXCEPT ![o] = quantity[r]]
      /\ issuedAt' = [issuedAt EXCEPT ![o] = now]
      /\ hold' = [hold EXCEPT ![r] = "CONSUMED"]
      /\ reservedCount' = getActiveReservationQuantity(now, {r})
      /\ soldCount' = soldCount + quantity[r]
      /\ UNCHANGED <<quantity, expiresAt, reservationId, sweepNow, releaseNow, now>>
  <2>1. tickets[o] + quantity[r] = quantity[r]
    BY <1>1
  <2> QED
    BY <2>1 DEF issueWithReferences, sweepVars, releaseVars
<1>3. Live' = Live \ {r} /\ Live \in SUBSET Reservations
  BY <1>1, <1>2 DEF Live, TypeOK
<1>4. LiveHolds' = Total(Live \ {r}) /\ reservedCount' = Total(Live \ {r})
  <2>1. {x \in Reservations \ {r} : hold[x] = "HELD" /\ expiresAt[x] > now} = Live \ {r}
    BY DEF Live
  <2> QED
    BY <1>2, <1>3, <2>1 DEF getActiveReservationQuantity, LiveHolds, Total
<1>5. /\ Total(Live \ {r}) \in Nat /\ Total(Live) \in Nat
      /\ IsFiniteSet(Live)
  BY <1>3, TotalsAreNumbers
<1>6. \A S \in SUBSET Orders : o \in S =>
         /\ SumFunctionOnSet(tickets', S) = quantity[r] + sold(S \ {o})
         /\ sold(S) = sold(S \ {o})
  <2> SUFFICES ASSUME NEW S \in SUBSET Orders, o \in S
               PROVE  /\ SumFunctionOnSet(tickets', S) = quantity[r] + sold(S \ {o})
                      /\ sold(S) = sold(S \ {o})
    OBVIOUS
  <2>1. IsFiniteSet(S) /\ IsFiniteSet(S \ {o}) /\ sold(S \ {o}) \in Nat
    BY TotalsAreNumbers
  <2>2. \A x \in S : tickets'[x] \in Nat /\ tickets[x] \in Nat
    BY DEF TypeOK
  <2>3. SumFunctionOnSet(tickets', S) = tickets'[o] + SumFunctionOnSet(tickets', S \ {o})
    BY <2>1, <2>2, SumRemove
  <2>4. sold(S) = tickets[o] + sold(S \ {o})
    BY <2>1, <2>2, SumRemove
  <2>5. SumFunctionOnSet(tickets', S \ {o}) = sold(S \ {o})
    <3>1. \A x \in S \ {o} : tickets'[x] = tickets[x]
      BY <1>2 DEF TypeOK
    <3> QED
      BY <2>1, <3>1, SumAgree
  <2>6. tickets'[o] = quantity[r]
    BY <1>1, <1>2 DEF TypeOK
  <2> QED
    BY <1>1, <2>1, <2>3, <2>4, <2>5, <2>6
<1>7. SoldCountAgrees'
  <2>1. SumFunctionOnSet(tickets', Orders) = quantity[r] + sold(Orders)
    BY <1>1, <1>6
  <2>2. soldCount = sold(Orders) /\ soldCount \in Nat
    BY DEF SoldCountAgrees, TypeOK
  <2> QED
    BY <1>1, <1>2, <2>1, <2>2 DEF SoldCountAgrees
<1>8. CacheCoversHolds'
  BY <1>4, <1>5 DEF CacheCoversHolds
<1>9. OnTimeSalesFit'
  <2> DEFINE others == OnTime \ {o}
  <2>1. /\ OnTime \in SUBSET Orders /\ o \notin OnTime /\ OnTime' \in SUBSET Orders
        /\ OnTime' \ {o} = OnTime
    BY <1>1, <1>2 DEF OnTime, Sold, TypeOK
  <2>2. sold(OnTime) \in Nat /\ Total(Live) + sold(OnTime) <= Capacity
    BY <2>1, TotalsAreNumbers DEF OnTimeSalesFit, LiveHolds
  <2>3. CASE o \in OnTime'
    <3>1. r \in Live
      BY <1>1, <1>2, <2>3 DEF OnTime, Live, TypeOK
    <3>2. Total(Live) = quantity[r] + Total(Live \ {r})
      <4>1. \A x \in Live : quantity[x] \in Nat
        BY <1>3 DEF TypeOK
      <4> QED
        BY <1>5, <3>1, <4>1, SumRemove DEF Total
    <3>3. SumFunctionOnSet(tickets', OnTime') = quantity[r] + sold(OnTime)
      BY <1>6, <2>1, <2>3
    <3>4. Total(Live \ {r}) + (quantity[r] + sold(OnTime)) <= Capacity
      BY <1>1, <1>5, <2>2, <3>2, InventoryAssumption
    <3> QED
      BY <1>4, <3>3, <3>4 DEF OnTimeSalesFit
  <2>4. CASE o \notin OnTime'
    <3>1. OnTime' = OnTime
      BY <2>1, <2>4
    <3>2. SumFunctionOnSet(tickets', OnTime) = sold(OnTime)
      <4>1. IsFiniteSet(OnTime) /\ \A x \in OnTime : tickets'[x] = tickets[x]
        BY <1>2, <2>1, TotalsAreNumbers DEF TypeOK
      <4> QED
        BY <4>1, SumAgree
    <3>3. Total(Live \ {r}) <= Total(Live)
      BY <1>3, TotalsAreNumbers
    <3>4. Total(Live \ {r}) + sold(OnTime) <= Capacity
      BY <1>5, <2>2, <3>3, InventoryAssumption
    <3> QED
      BY <1>4, <3>1, <3>2, <3>4 DEF OnTimeSalesFit
  <2> QED
    BY <2>3, <2>4
<1>10. ClocksLag'
  BY <1>2 DEF ClocksLag
<1> QED
  BY <1>7, <1>8, <1>9, <1>10

\* Whatever reservations a sum over the unexpired holds of time t leaves out, it
\* covers the holds that are live now, when t is past.
LEMMA EarlierSumsCover ==
    ASSUME TypeOK, NEW t \in Nat, t <= now, NEW gone,
           NEW S, S \subseteq Live, S \cap gone = {}
    PROVE  getActiveReservationQuantity(t, gone) >= Total(S)
<1> DEFINE active == {r \in Reservations \ gone : hold[r] = "HELD" /\ expiresAt[r] > t}
<1>1. active \in SUBSET Reservations /\ S \in SUBSET active
  BY DEF Live, TypeOK, Times
<1>2. Total(S) <= Total(active) /\ Total(S) \in Nat /\ Total(active) \in Nat
  BY <1>1, TotalsAreNumbers
<1> QED
  BY <1>2 DEF getActiveReservationQuantity

\* Every action preserves what the counters say.
LEMMA StepPreservesCounts == IndInv /\ CountInv /\ [Next]_vars => CountInv'
<1> SUFFICES ASSUME IndInv, CountInv, [Next]_vars PROVE CountInv'
  OBVIOUS
<1> USE InventoryAssumption
    DEF CountInv, countVars, holdVars, orderVars, sweepVars, releaseVars, issueVars
<1>0. TypeOK' /\ Live \in SUBSET Reservations
  BY StepPreservesTypes DEF Live
<1>1. ASSUME NEW r \in Reservations, NEW q \in Quantities, NEW ttl \in HoldTtls,
             ReserveInventory(r, q, ttl)
      PROVE  CountInv'
  BY <1>0, <1>1, ReservePreservesCounts
<1>2. ASSUME NEW i \in Issuers, issueWithReferences(i) PROVE CountInv'
  BY <1>0, <1>2, IssuePreservesCounts
<1>3. ASSUME NEW w \in Sweeps, SweepExpiredReservations(w) PROVE CountInv'
  <2>1. /\ UNCHANGED <<quantity, expiresAt, tickets, issuedAt, soldCount, reservationId,
                       now, releaseNow>>
        /\ reservedCount' = getActiveReservationQuantity(sweepNow[w], claimed[w])
        /\ sweepNow' = [sweepNow EXCEPT ![w] = 0]
    BY <1>3 DEF SweepExpiredReservations
  <2>2. Live' \subseteq Live /\ Live' \cap claimed[w] = {}
    BY <1>3 DEF SweepExpiredReservations, Live
  <2>3. sweepNow[w] \in Nat /\ sweepNow[w] <= now
    BY DEF TypeOK, ClocksLag, Times
  <2>4. reservedCount' >= Total(Live')
    BY <2>1, <2>2, <2>3, EarlierSumsCover
  <2>5. ClocksLag'
    BY <2>1 DEF ClocksLag, TypeOK, Times
  <2>6. OnTime' = OnTime
    BY <2>1, OnTimeIsKept
  <2> QED
    BY <1>0, <2>1, <2>2, <2>4, <2>5, <2>6, FewerHoldsAreCovered
<1>4. ASSUME NEW p \in Releases, ReleaseExpiredReservation(p) PROVE CountInv'
  <2>1. /\ UNCHANGED <<quantity, expiresAt, tickets, issuedAt, soldCount, reservationId,
                       now, sweepNow>>
        /\ releaseNow' = [releaseNow EXCEPT ![p] = 0]
        /\ reservedCount' = getActiveReservationQuantity(releaseNow[p], {})
    BY <1>4 DEF ReleaseExpiredReservation, EndRelease
  <2>2. Live' \subseteq Live /\ Live' \cap {} = {}
    BY <1>4 DEF ReleaseExpiredReservation, Live, TypeOK
  <2>3. releaseNow[p] \in Nat /\ releaseNow[p] <= now
    BY DEF TypeOK, ClocksLag, Times
  <2>4. reservedCount' >= Total(Live')
    BY <2>1, <2>2, <2>3, EarlierSumsCover
  <2>5. ClocksLag'
    BY <2>1 DEF ClocksLag, TypeOK, Times
  <2>6. OnTime' = OnTime
    BY <2>1, OnTimeIsKept
  <2> QED
    BY <1>0, <2>1, <2>2, <2>4, <2>5, <2>6, FewerHoldsAreCovered
<1>5. ASSUME NEW at \in Times, ReconcileInventoryDrift(at) PROVE CountInv'
  <2>1. /\ UNCHANGED <<quantity, hold, expiresAt, tickets, issuedAt, soldCount, reservationId,
                       now, sweepNow, releaseNow>>
        /\ reservedCount' = getActiveReservationQuantity(at, {})
    BY <1>5 DEF ReconcileInventoryDrift
  <2>2. Live' \subseteq Live /\ Live' \cap {} = {}
    BY <2>1 DEF Live
  <2>3. at \in Nat /\ at <= now
    BY <1>5 DEF ReconcileInventoryDrift, Times
  <2>4. reservedCount' >= Total(Live')
    BY <2>1, <2>2, <2>3, EarlierSumsCover
  <2>5. ClocksLag'
    BY <2>1 DEF ClocksLag
  <2>6. OnTime' = OnTime
    BY <2>1, OnTimeIsKept
  <2> QED
    BY <1>0, <2>1, <2>2, <2>4, <2>5, <2>6, FewerHoldsAreCovered
<1>6. ASSUME NEW o \in Orders, NEW r \in Reservations, PlaceOrder(o, r) PROVE CountInv'
  <2>1. /\ UNCHANGED <<quantity, hold, expiresAt, tickets, issuedAt, soldCount, reservedCount,
                       now, sweepNow, releaseNow>>
        /\ order[o] = "ABSENT"
        /\ reservationId' = [reservationId EXCEPT ![o] = r]
    BY <1>6 DEF PlaceOrder
  <2>2. \A x \in Sold : reservationId'[x] = reservationId[x]
    BY <2>1 DEF IndInv, SoldOrdersExist, Sold, TypeOK
  <2>3. Live' = Live /\ OnTime' = OnTime
    BY <2>1, <2>2, OnTimeIsKept DEF Live
  <2>4. reservedCount' >= Total(Live') /\ ClocksLag'
    BY <2>1, <2>3 DEF CacheCoversHolds, LiveHolds, ClocksLag
  <2> QED
    BY <1>0, <2>1, <2>3, <2>4, FewerHoldsAreCovered
<1>7. ASSUME /\ UNCHANGED <<quantity, hold, expiresAt, tickets, issuedAt, soldCount,
                            reservedCount, reservationId>>
             /\ now' >= now
             /\ ClocksLag'
      PROVE  CountInv'
  <2>1. Live' \subseteq Live
    BY <1>0, <1>7 DEF Live, TypeOK, Times
  <2>2. reservedCount' >= Total(Live')
    <3>1. Total(Live') <= Total(Live) /\ Total(Live') \in Nat /\ Total(Live) \in Nat
      BY <1>0, <2>1, TotalsAreNumbers
    <3> QED
      BY <1>7, <3>1 DEF CacheCoversHolds, LiveHolds, TypeOK
  <2>3. OnTime' = OnTime
    BY <1>7, OnTimeIsKept
  <2> QED
    BY <1>0, <1>7, <2>1, <2>2, <2>3, FewerHoldsAreCovered
<1>8. ASSUME \/ \E w \in Sweeps : claimExpiredHeldReservations(w) \/ AbortSweep(w)
             \/ \E p \in Releases : AbortRelease(p) \/ \E r \in Reservations : FindExpired(p, r)
             \/ \E i \in Issuers : \/ FailAttempt(i) \/ AbandonIssue(i)
                                   \/ \E o \in Orders : getReservationQuantity(i, o)
             \/ \E o \in Orders : SettleOrder(o)
             \/ Tick
             \/ UNCHANGED vars
      PROVE  CountInv'
  <2>1. /\ UNCHANGED <<quantity, hold, expiresAt, tickets, issuedAt, soldCount,
                       reservedCount, reservationId>>
        /\ now' \in {now, now + 1}
        /\ \/ UNCHANGED sweepNow
           \/ \E w \in Sweeps, t \in {0, now} : sweepNow' = [sweepNow EXCEPT ![w] = t]
        /\ \/ UNCHANGED releaseNow
           \/ \E p \in Releases, t \in {0, now} : releaseNow' = [releaseNow EXCEPT ![p] = t]
    BY <1>8 DEF claimExpiredHeldReservations, AbortSweep, AbortRelease, EndRelease, FindExpired,
        FailAttempt, AbandonIssue, getReservationQuantity, SettleOrder, Tick, vars
  <2>2. now' >= now /\ now' \in Nat /\ now \in Nat
    BY <2>1 DEF TypeOK, Times
  <2>3. ClocksLag'
    BY <2>1, <2>2 DEF ClocksLag, TypeOK, Times
  <2> QED
    BY <1>7, <2>1, <2>2, <2>3
<1> QED
  BY <1>1, <1>2, <1>3, <1>4, <1>5, <1>6, <1>8 DEF Next

\* Nothing is held or sold to begin with.
LEMMA InitEstablishesCounts == Init => CountInv
<1> SUFFICES ASSUME Init PROVE CountInv
  OBVIOUS
<1>1. TypeOK
  BY InventoryAssumption DEF Init, TypeOK, OrderStatuses, Times
<1>2. ClocksLag
  BY DEF Init, ClocksLag
<1>3. Live = {} /\ OnTime = {}
  BY DEF Init, Live, OnTime, Sold
<1>4. LiveHolds = 0 /\ SumFunctionOnSet(tickets, OnTime) = 0
  BY <1>3, SumEmpty DEF LiveHolds, Total
<1>5. SumFunctionOnSet(tickets, Orders) = 0
  <2> DEFINE P == {s \in SUBSET Orders : SumFunctionOnSet(tickets, s) = 0}
  <2>1. {} \in P
    BY SumEmpty
  <2>2. ASSUME NEW s \in SUBSET Orders, s # {}, \A x \in s : s \ {x} \in P PROVE s \in P
    <3>1. PICK x \in s : TRUE
      BY <2>2
    <3>2. IsFiniteSet(s) /\ \A y \in s : tickets[y] = 0
      BY InventoryAssumption, FS_Subset DEF Init
    <3>3. SumFunctionOnSet(tickets, s) = tickets[x] + SumFunctionOnSet(tickets, s \ {x})
      BY <3>2, SumRemove
    <3> QED
      BY <2>2, <3>2, <3>3
  <2>3. Orders \in P
    <3> HIDE DEF P
    <3> QED
      BY <2>1, <2>2, InventoryAssumption, SetInduction
  <2> QED
    BY <2>3
<1> QED
  BY <1>1, <1>2, <1>4, <1>5, InventoryAssumption DEF Init, CountInv, CacheCoversHolds,
      SoldCountAgrees, OnTimeSalesFit

\* So the counters always say this.
LEMMA CountsHold == Spec => []CountInv
BY InitEstablishesIndInv, StepPreservesIndInv, InitEstablishesCounts, StepPreservesCounts,
   PTL DEF Spec

\* Every column, counter and clock keeps its type.
THEOREM InventoryTypesHold == Spec => []TypeOK
<1>1. CountInv => TypeOK
  BY DEF CountInv
<1> QED
  BY CountsHold, <1>1, PTL

\* The cached counter of a bucket never misses a live hold, whichever sweeps,
\* releases, reconciliations and issuing calls write it in whichever order.
THEOREM CacheNeverMissesAHold == Spec => []CacheCoversHolds
<1>1. CountInv => CacheCoversHolds
  BY DEF CountInv
<1> QED
  BY CountsHold, <1>1, PTL

\* The number of tickets sold is the number of ticket rows, however many orders
\* are issued concurrently and retried.
THEOREM SoldCountIsExact == Spec => []SoldCountAgrees
<1>1. CountInv => SoldCountAgrees
  BY DEF CountInv
<1> QED
  BY CountsHold, <1>1, PTL

\* A bucket of any capacity is not oversold by tickets issued while their hold
\* was live: with the live holds they never exceed the capacity.
THEOREM OnTimeSalesNeverOversell == Spec => []OnTimeSalesFit
<1>1. CountInv => OnTimeSalesFit
  BY DEF CountInv
<1> QED
  BY CountsHold, <1>1, PTL
=============================================================================
