---------------------- MODULE PlanAssignmentsProofs ----------------------
(***************************************************************************)
(* Proofs about PlanAssignments, for any sets of slots and proxies, any    *)
(* taggings and any orders of preference.                                  *)
(***************************************************************************)
EXTENDS PlanAssignments, WellFoundedInduction, NaturalsInduction, TLAPS

(* The least number of a set: the induction the proofs need.               *)
LEMMA Least ==
  ASSUME NEW S \in SUBSET Nat, S # {}
  PROVE  \E n \in S : \A m \in S : n <= m
<1>1. IsWellFoundedOn(OpToRel(<, Nat), Nat)
  BY NatLessThanWellFounded
<1>2. PICK n \in S : \A m \in S : ~(<<m, n>> \in OpToRel(<, Nat))
  BY <1>1, WFMin
<1>3. \A m, k \in Nat : m < k => <<m, k>> \in OpToRel(<, Nat)
  BY DEF OpToRel
<1>4. \A m \in S : ~(m < n)
  BY <1>2, <1>3, Zenon
<1>. QED BY <1>4

(* A set of numbers up to N that holds 0 and with each number the next is  *)
(* all of them.                                                            *)
LEMMA UpTo ==
  ASSUME NEW N \in Nat, NEW S, 0 \in S, \A n \in 0 .. N : n \in S /\ n < N => n + 1 \in S
  PROVE  0 .. N \subseteq S
<1>. DEFINE T == {n \in 0 .. N : n \notin S}
<1>. SUFFICES ASSUME T # {}
              PROVE  FALSE
  OBVIOUS
<1>1. T \in SUBSET Nat
  OBVIOUS
<1>2. PICK n \in T : \A m \in T : n <= m
  <2>. HIDE DEF T
  <2>. QED BY <1>1, Least
<1>3. n # 0 /\ n \in 0 .. N /\ n \notin S
  BY <1>2
<1>4. n - 1 \in 0 .. N /\ n - 1 < N /\ (n - 1) + 1 = n
  BY <1>3
<1>5. n - 1 \in S
  BY <1>2, <1>4
<1>. QED BY <1>3, <1>4, <1>5

(* FirstIn finds a member of the set, if the sequence has one.             *)
LEMMA FirstInFinds ==
  ASSUME NEW T, NEW seq \in Seq(T), NEW set
  PROVE  /\ (\E i \in DOMAIN seq : seq[i] \in set) => FirstIn(seq, set) \in set
         /\ (\A i \in DOMAIN seq : seq[i] \notin set) => FirstIn(seq, set) = Nil
<1>. DEFINE places == {i \in DOMAIN seq : seq[i] \in set}
<1>1. places \in SUBSET Nat
  OBVIOUS
<1>2. ASSUME places # {}
      PROVE  FirstIn(seq, set) \in set
  <2>1. \E i \in places : \A j \in places : i <= j
    <3>. HIDE DEF places
    <3>. QED BY <1>1, <1>2, Least
  <2>. DEFINE first == CHOOSE i \in places : \A j \in places : i <= j
  <2>2. first \in places
    <3>. HIDE DEF places
    <3>. QED BY <2>1
  <2>3. FirstIn(seq, set) = seq[first]
    BY <1>2 DEF FirstIn
  <2>4. seq[first] \in set
    <3>. HIDE DEF first
    <3>. QED BY <2>2
  <2>. QED BY <2>3, <2>4
<1>. QED BY <1>2 DEF FirstIn

-----------------------------------------------------------------------------
(* Plans.                                                                  *)

(* A plan under way: a partial function to proxies that shares none.       *)
IsPlan(plan) ==
  /\ plan = [s \in DOMAIN plan |-> plan[s]]
  /\ DOMAIN plan \subseteq Slots
  /\ \A s \in DOMAIN plan : plan[s] \in Proxies \cup {Nil}
  /\ \A s, x \in DOMAIN plan : s # x /\ plan[s] # Nil => plan[s] # plan[x]

(* No two slots hold the same proxy.                                       *)
Unshared(place) == \A s, x \in Slots : s # x /\ place[s] # Nil => place[s] # place[x]

(* What a pass that deals proxies to slots may do to a plan.               *)
Grown(plan, slots, dealt, more) ==
  /\ IsPlan(more)
  /\ DOMAIN plan \subseteq DOMAIN more
  /\ DOMAIN more \subseteq DOMAIN plan \cup slots
  /\ \A s \in DOMAIN plan : more[s] = plan[s]
  /\ \A s \in DOMAIN more \ DOMAIN plan : more[s] \in dealt \ Given(plan)

LEMMA GrownGiven ==
  ASSUME NEW plan, NEW slots, NEW dealt, NEW more, Grown(plan, slots, dealt, more)
  PROVE  /\ Given(plan) \subseteq Given(more)
         /\ Given(more) \subseteq Given(plan) \cup dealt
BY DEF Grown, Given

LEMMA GrownTwice ==
  ASSUME NEW plan, NEW slots, NEW dealt, NEW more, NEW most,
         Grown(plan, slots, dealt, more), Grown(more, slots, dealt, most)
  PROVE  Grown(plan, slots, dealt, most)
<1>1. Given(plan) \subseteq Given(more)
  BY GrownGiven
<1>. QED BY <1>1 DEF Grown

(* A pass of keeping.                                                      *)
LEMMA Kept ==
  ASSUME NEW plan, NEW slots, NEW place, NEW dealt,
         NEW s \in slots \ DOMAIN plan, place[s] \in dealt \ Given(plan)
  PROVE  /\ s \in DOMAIN Keep(plan, slots, place, dealt)
         /\ Keep(plan, slots, place, dealt)[s] = place[s]
BY DEF Keep

LEMMA KeepGrows ==
  ASSUME NEW plan, IsPlan(plan), NEW slots \in SUBSET Slots, NEW place, NEW dealt \in SUBSET Proxies,
         Unshared(place)
  PROVE  Grown(plan, slots, dealt, Keep(plan, slots, place, dealt))
<1>. DEFINE kept == {s \in slots \ DOMAIN plan : place[s] \in dealt \ Given(plan)}
            more == [s \in DOMAIN plan \cup kept |-> IF s \in kept THEN place[s] ELSE plan[s]]
<1>1. Keep(plan, slots, place, dealt) = more
  BY DEF Keep
<1>2. Nil \notin dealt
  BY PlannerAssumption
<1>3. IsPlan(more)
  <2>1. DOMAIN more \subseteq Slots
    BY DEF IsPlan
  <2>2. \A s \in DOMAIN more : more[s] \in Proxies \cup {Nil}
    BY DEF IsPlan
  <2>3. ASSUME NEW s \in DOMAIN more, NEW x \in DOMAIN more, s # x, more[s] # Nil
        PROVE  more[s] # more[x]
    <3>1. CASE s \in kept /\ x \in kept
      BY <3>1, <2>1, <2>3 DEF Unshared
    <3>2. CASE s \in kept /\ x \notin kept
      BY <3>2, <2>3, <1>2 DEF Given
    <3>3. CASE s \notin kept /\ x \in kept
      BY <3>3, <2>3, <1>2 DEF Given
    <3>4. CASE s \notin kept /\ x \notin kept
      BY <3>4, <2>3 DEF IsPlan
    <3>. QED BY <3>1, <3>2, <3>3, <3>4
  <2>4. more = [s \in DOMAIN more |-> more[s]]
    OBVIOUS
  <2>. HIDE DEF more
  <2>. QED BY <2>1, <2>2, <2>3, <2>4 DEF IsPlan
<1>4. Grown(plan, slots, dealt, more)
  BY <1>3 DEF Grown
<1>. QED BY <1>1, <1>4

(* A pass of dealing: the recursive function that defines it exists.       *)
LEMMA Dealing ==
  ASSUME NEW plan, NEW slots, NEW order, NEW dealt, NEW N \in Nat, N = Len(SlotOrder)
  PROVE  \E f : /\ f[0] = plan
                /\ \A n \in 1 .. N : f[n] = Serve(f[n - 1], SlotOrder[n], slots, order, dealt)
                /\ Deal(plan, slots, order, dealt) = f[N]
<1>. DEFINE Step(q, n) == Serve(q, SlotOrder[n], slots, order, dealt)
            Upto(f, k) == f = [n \in 0 .. k |-> IF n = 0 THEN plan ELSE Step(f[n - 1], n)]
            S == {k \in 0 .. N : \E f : Upto(f, k)}
<1>1. 0 \in S
  <2>. DEFINE g == [n \in 0 .. 0 |-> plan]
  <2>1. g = [n \in 0 .. 0 |-> IF n = 0 THEN plan ELSE Step(g[n - 1], n)]
    <3>. HIDE DEF Step
    <3>. QED OBVIOUS
  <2>2. Upto(g, 0)
    BY <2>1
  <2>. HIDE DEF Upto, g
  <2>. QED BY <2>2
<1>2. ASSUME NEW k \in 0 .. N, k \in S, k < N
      PROVE  k + 1 \in S
  <2>1. PICK f : Upto(f, k)
    BY <1>2
  <2>. DEFINE g == [n \in 0 .. k + 1 |-> IF n <= k THEN f[n] ELSE Step(f[k], k + 1)]
  <2>2. \A n \in 0 .. k + 1 : g[n] = IF n = 0 THEN plan ELSE Step(g[n - 1], n)
    <3>1. g[0] = plan
      <4>1. f[0] = plan
        BY <2>1
      <4>. QED BY <4>1
    <3>2. ASSUME NEW n \in 1 .. k
          PROVE  g[n] = Step(g[n - 1], n)
      <4>1. f[n] = Step(f[n - 1], n)
        <5>. HIDE DEF Step
        <5>. QED BY <2>1
      <4>2. g[n] = f[n] /\ g[n - 1] = f[n - 1]
        OBVIOUS
      <4>. HIDE DEF g, Step
      <4>. QED BY <4>1, <4>2
    <3>3. g[k + 1] = Step(g[k], k + 1)
      <4>1. g[k] = f[k] /\ g[k + 1] = Step(f[k], k + 1)
        <5>. HIDE DEF Step
        <5>. QED OBVIOUS
      <4>. HIDE DEF g, Step
      <4>. QED BY <4>1
    <3>. HIDE DEF g, Step
    <3>. QED BY <3>1, <3>2, <3>3
  <2>3. g = [n \in 0 .. k + 1 |-> g[n]]
    OBVIOUS
  <2>4. g = [n \in 0 .. k + 1 |-> IF n = 0 THEN plan ELSE Step(g[n - 1], n)]
    <3>. HIDE DEF g, Step
    <3>. QED BY <2>2, <2>3, Zenon
  <2>5. Upto(g, k + 1) /\ k + 1 \in 0 .. N
    BY <1>2, <2>4
  <2>. HIDE DEF Upto, g
  <2>. QED BY <2>5
<1>3. 0 .. N \subseteq S
  <2>. HIDE DEF S
  <2>. QED BY <1>1, <1>2, UpTo
<1>. DEFINE f == CHOOSE g : Upto(g, N)
<1>4. Upto(f, N)
  <2>1. N \in S
    BY <1>3
  <2>. HIDE DEF Upto
  <2>. QED BY <2>1
<1>5. Deal(plan, slots, order, dealt) = f[N]
  BY DEF Deal
<1>. HIDE DEF f
<1>6. f[0] = plan
  BY <1>4
<1>7. \A n \in 1 .. N : f[n] = Serve(f[n - 1], SlotOrder[n], slots, order, dealt)
  BY <1>4
<1>. QED BY <1>5, <1>6, <1>7

(* One slot served.                                                        *)
LEMMA ServeGrows ==
  ASSUME NEW plan, IsPlan(plan), NEW slots \in SUBSET Slots, NEW s \in Slots,
         NEW dealt \in SUBSET Proxies, NEW order \in Seq(Proxies),
         \A p \in Proxies : \E i \in DOMAIN order : order[i] = p
  PROVE  /\ Grown(plan, slots, dealt, Serve(plan, s, slots, order, dealt))
         /\ s \in slots \ DOMAIN Serve(plan, s, slots, order, dealt) => dealt \subseteq Given(plan)
<1>. DEFINE p == FirstIn(order, dealt \ Given(plan))
            more == Assign(plan, s, p)
<1>1. Nil \notin dealt
  BY PlannerAssumption
<1>2. dealt \ Given(plan) # {} => p \in dealt \ Given(plan)
  <2>1. dealt \ Given(plan) # {} => \E i \in DOMAIN order : order[i] \in dealt \ Given(plan)
    OBVIOUS
  <2>. QED BY <2>1, FirstInFinds
<1>3. dealt \ Given(plan) = {} => p = Nil
  <2>1. dealt \ Given(plan) = {} => \A i \in DOMAIN order : order[i] \notin dealt \ Given(plan)
    OBVIOUS
  <2>. QED BY <2>1, FirstInFinds
<1>. HIDE DEF p
<1>4. CASE ~(s \in slots \ DOMAIN plan /\ p # Nil)
  <2>1. Serve(plan, s, slots, order, dealt) = plan
    BY <1>4 DEF Serve, p
  <2>2. Grown(plan, slots, dealt, plan)
    BY DEF Grown
  <2>3. s \in slots \ DOMAIN plan => dealt \subseteq Given(plan)
    BY <1>1, <1>2, <1>4
  <2>. QED BY <2>1, <2>2, <2>3
<1>5. CASE s \in slots \ DOMAIN plan /\ p # Nil
  <2>1. Serve(plan, s, slots, order, dealt) = more
    BY <1>5 DEF Serve, p
  <2>2. p \in dealt /\ p \notin Given(plan)
    BY <1>2, <1>3, <1>5
  <2>3. /\ more = [x \in DOMAIN more |-> more[x]]
        /\ DOMAIN more = DOMAIN plan \cup {s} /\ more[s] = p
        /\ \A x \in DOMAIN plan : more[x] = plan[x]
    BY <1>5 DEF Assign
  <2>. HIDE DEF more
  <2>4. \A x \in DOMAIN plan : plan[x] # p
    BY <1>5, <2>2 DEF Given
  <2>5. IsPlan(more)
    <3>1. DOMAIN more \subseteq Slots /\ \A x \in DOMAIN more : more[x] \in Proxies \cup {Nil}
      BY <2>2, <2>3 DEF IsPlan
    <3>2. \A x, y \in DOMAIN more : x # y /\ more[x] # Nil => more[x] # more[y]
      BY <2>3, <2>4 DEF IsPlan
    <3>. QED BY <2>3, <3>1, <3>2 DEF IsPlan
  <2>6. Grown(plan, slots, dealt, more)
    BY <1>5, <2>2, <2>3, <2>5 DEF Grown
  <2>. QED BY <2>1, <2>3, <2>6
<1>. QED BY <1>4, <1>5

(* A whole pass: an undecided slot is passed over only when all the pass   *)
(* deals is given.                                                         *)
LEMMA DealGrows ==
  ASSUME NEW plan, IsPlan(plan), NEW slots \in SUBSET Slots,
         NEW dealt \in SUBSET Proxies, NEW order \in Seq(Proxies),
         \A p \in Proxies : \E i \in DOMAIN order : order[i] = p
  PROVE  /\ Grown(plan, slots, dealt, Deal(plan, slots, order, dealt))
         /\ \A s \in slots \ DOMAIN Deal(plan, slots, order, dealt) :
              dealt \subseteq Given(Deal(plan, slots, order, dealt))
<1>1. PICK N \in Nat : N = Len(SlotOrder) /\ DOMAIN SlotOrder = 1 .. N
  BY PlannerAssumption
<1>2. PICK f : /\ f[0] = plan
               /\ \A n \in 1 .. N : f[n] = Serve(f[n - 1], SlotOrder[n], slots, order, dealt)
               /\ Deal(plan, slots, order, dealt) = f[N]
  BY ONLY <1>1, Dealing
<1>. DEFINE Served(n) ==
              /\ Grown(plan, slots, dealt, f[n])
              /\ \A i \in 1 .. n : SlotOrder[i] \in slots \ DOMAIN f[n] => dealt \subseteq Given(f[n])
            S == {n \in 0 .. N : Served(n)}
<1>3. 0 \in S
  <2>1. Grown(plan, slots, dealt, plan)
    BY DEF Grown
  <2>. QED BY <1>1, <1>2, <2>1
<1>4. ASSUME NEW n \in 0 .. N, n \in S, n < N
      PROVE  n + 1 \in S
  <2>. DEFINE s == SlotOrder[n + 1]
              q == f[n]
              more == f[n + 1]
  <2>1. n + 1 \in 1 .. N /\ (n + 1) - 1 = n
    BY <1>4
  <2>2. more = Serve(q, s, slots, order, dealt)
    BY <1>2, <2>1
  <2>3. s \in Slots
    BY <1>1, <2>1 DEF Slots
  <2>4. IsPlan(q) /\ Grown(plan, slots, dealt, q)
    BY <1>4 DEF Grown
  <2>5. /\ Grown(q, slots, dealt, more)
        /\ s \in slots \ DOMAIN more => dealt \subseteq Given(q)
    <3>. HIDE DEF q, more, s
    <3>. QED BY <2>2, <2>3, <2>4, ServeGrows
  <2>6. Grown(plan, slots, dealt, more)
    <3>. HIDE DEF q, more
    <3>. QED BY <2>4, <2>5, GrownTwice
  <2>7. Given(q) \subseteq Given(more)
    <3>. HIDE DEF q, more
    <3>. QED BY <2>5, GrownGiven
  <2>8. ASSUME NEW i \in 1 .. n + 1, SlotOrder[i] \in slots \ DOMAIN more
        PROVE  dealt \subseteq Given(more)
    <3>1. CASE i = n + 1
      BY <2>5, <2>7, <2>8, <3>1
    <3>2. CASE i # n + 1
      <4>1. i \in 1 .. n
        BY <3>2
      <4>2. SlotOrder[i] \notin DOMAIN q
        BY <2>5, <2>8 DEF Grown
      <4>3. dealt \subseteq Given(q)
        BY <1>4, <2>8, <4>1, <4>2
      <4>. QED BY <2>7, <4>3
    <3>. QED BY <3>1, <3>2
  <2>9. Served(n + 1)
    BY <2>6, <2>8
  <2>. HIDE DEF Served
  <2>. QED BY <2>1, <2>9
<1>5. Served(N)
  <2>1. 0 .. N \subseteq S
    <3>. HIDE DEF S
    <3>. QED BY <1>3, <1>4, UpTo
  <2>2. N \in 0 .. N
    OBVIOUS
  <2>. HIDE DEF Served
  <2>. QED BY <2>1, <2>2
<1>6. \A s \in Slots : \E i \in 1 .. N : SlotOrder[i] = s
  BY <1>1 DEF Slots
<1>. DEFINE q == Deal(plan, slots, order, dealt)
<1>7. Grown(plan, slots, dealt, q)
  BY <1>2, <1>5
<1>8. ASSUME NEW s \in slots \ DOMAIN q
      PROVE  dealt \subseteq Given(q)
  <2>1. PICK i \in 1 .. N : SlotOrder[i] = s
    BY <1>6
  <2>. QED BY <1>2, <1>5, <1>8, <2>1
<1>. QED BY <1>7, <1>8

-----------------------------------------------------------------------------
(* One role.                                                               *)

Open(locked, role) == {s \in Slots \ locked : RoleOf[s] = role}

(* What the four passes do to the open slots of a role, given the proxies  *)
(* offered to it: those pinned to it and the generic ones.                 *)
Fair(plan, slots, place, pinned, generic) ==
  /\ \A s \in slots : plan[s] \in pinned \cup generic \cup {Nil}
  /\ \A s \in slots : plan[s] \notin pinned => \A p \in pinned : \E x \in slots : plan[x] = p
  /\ \A s \in slots : plan[s] = Nil => \A p \in generic : \E x \in slots : plan[x] = p
  /\ \A s \in slots : place[s] \in pinned => plan[s] = place[s]
  /\ \A s \in slots : place[s] \in generic => plan[s] = place[s] \/ plan[s] \in pinned

Outcome(plan, more, slots, place, pinned, generic) ==
  /\ IsPlan(more)
  /\ DOMAIN more = DOMAIN plan \cup slots
  /\ \A s \in DOMAIN plan : more[s] = plan[s]
  /\ Fair(more, slots, place, pinned, generic)

(* The four passes of PlanRole over the proxies pinned and generic.        *)
Placed(plan, slots, place, order, pinned) ==
  Deal(Keep(plan, slots, place, pinned), slots, order, pinned)

Passed(plan, slots, place, order, pinned, generic) ==
  LET placed == Placed(plan, slots, place, order, pinned)
      filled == Placed(placed, slots, place, order, generic)
  IN [s \in DOMAIN plan \cup slots |-> IF s \in DOMAIN filled THEN filled[s] ELSE Nil]

LEMMA FourPasses ==
  ASSUME NEW plan, IsPlan(plan), NEW slots \in SUBSET Slots, slots \cap DOMAIN plan = {},
         NEW place, Unshared(place), NEW pinned \in SUBSET Proxies, NEW generic \in SUBSET Proxies,
         pinned \cap generic = {}, (pinned \cup generic) \cap Given(plan) = {},
         NEW order \in Seq(Proxies), \A p \in Proxies : \E i \in DOMAIN order : order[i] = p
  PROVE  Outcome(plan, Passed(plan, slots, place, order, pinned, generic), slots, place, pinned, generic)
<1>. DEFINE one == Keep(plan, slots, place, pinned)
            placed == Deal(one, slots, order, pinned)
            two == Keep(placed, slots, place, generic)
            filled == Deal(two, slots, order, generic)
            more == [s \in DOMAIN plan \cup slots |-> IF s \in DOMAIN filled THEN filled[s] ELSE Nil]
<1>0. Passed(plan, slots, place, order, pinned, generic) = more
  BY Zenon DEF Passed, Placed
<1>. HIDE DEF placed, filled, more
<1>1. /\ Grown(plan, slots, pinned, one)
      /\ \A s \in slots : place[s] \in pinned => s \in DOMAIN one /\ one[s] = place[s]
  <2>1. Grown(plan, slots, pinned, one)
    BY KeepGrows
  <2>2. ASSUME NEW s \in slots, place[s] \in pinned
        PROVE  s \in DOMAIN one /\ one[s] = place[s]
    <3>1. s \in slots \ DOMAIN plan /\ place[s] \in pinned \ Given(plan)
      BY <2>2
    <3>. QED BY <3>1, Kept
  <2>. QED BY <2>1, <2>2
<1>2. /\ Grown(one, slots, pinned, placed)
      /\ \A s \in slots \ DOMAIN placed : pinned \subseteq Given(placed)
  <2>1. IsPlan(one)
    BY <1>1 DEF Grown
  <2>. HIDE DEF one
  <2>. QED BY <2>1, DealGrows DEF placed
<1>3. Grown(plan, slots, pinned, placed) /\ IsPlan(placed)
  <2>. HIDE DEF one
  <2>1. Grown(plan, slots, pinned, placed)
    BY <1>1, <1>2, GrownTwice
  <2>. QED BY <2>1 DEF Grown
<1>4. /\ Grown(placed, slots, generic, two)
      /\ \A s \in slots \ DOMAIN placed :
           place[s] \in generic \ Given(placed) => s \in DOMAIN two /\ two[s] = place[s]
  <2>1. Grown(placed, slots, generic, two)
    BY <1>3, KeepGrows
  <2>2. ASSUME NEW s \in slots \ DOMAIN placed, place[s] \in generic \ Given(placed)
        PROVE  s \in DOMAIN two /\ two[s] = place[s]
    BY <2>2, Kept
  <2>. QED BY <2>1, <2>2
<1>5. /\ Grown(two, slots, generic, filled)
      /\ \A s \in slots \ DOMAIN filled : generic \subseteq Given(filled)
  <2>1. IsPlan(two)
    BY <1>4 DEF Grown
  <2>. HIDE DEF two
  <2>. QED BY <2>1, DealGrows DEF filled
<1>. HIDE DEF one, two
<1>6. Grown(placed, slots, generic, filled)
  BY <1>4, <1>5, GrownTwice
<1>7. /\ IsPlan(filled) /\ DOMAIN filled \subseteq DOMAIN plan \cup slots
      /\ DOMAIN plan \subseteq DOMAIN placed /\ DOMAIN placed \subseteq DOMAIN filled
      /\ \A s \in DOMAIN plan : placed[s] = plan[s] /\ filled[s] = plan[s]
      /\ \A s \in DOMAIN placed : filled[s] = placed[s]
  BY <1>3, <1>6 DEF Grown
<1>8. /\ \A s \in slots \cap DOMAIN placed : filled[s] \in pinned
      /\ \A s \in (slots \cap DOMAIN filled) \ DOMAIN placed : filled[s] \in generic
  BY <1>3, <1>6, <1>7 DEF Grown
<1>9. Nil \notin pinned /\ Nil \notin generic
  BY PlannerAssumption
<1>10. /\ more = [s \in DOMAIN more |-> more[s]]
       /\ DOMAIN more = DOMAIN plan \cup slots
       /\ \A s \in DOMAIN more : more[s] = IF s \in DOMAIN filled THEN filled[s] ELSE Nil
  BY DEF more
<1>11. IsPlan(more)
  <2>1. DOMAIN more \subseteq Slots /\ \A s \in DOMAIN more : more[s] \in Proxies \cup {Nil}
    BY <1>7, <1>10 DEF IsPlan
  <2>2. \A s, x \in DOMAIN more : s # x /\ more[s] # Nil => more[s] # more[x]
    BY <1>7, <1>10 DEF IsPlan
  <2>. QED BY <1>10, <2>1, <2>2 DEF IsPlan
<1>12. \A s \in DOMAIN plan : more[s] = plan[s]
  BY <1>7, <1>10
<1>13. \A s \in slots : more[s] \in pinned \cup generic \cup {Nil}
  BY <1>8, <1>10
<1>14. ASSUME NEW s \in slots, more[s] \notin pinned, NEW p \in pinned
       PROVE  \E x \in slots : more[x] = p
  <2>1. s \notin DOMAIN placed
    BY <1>7, <1>8, <1>10, <1>14
  <2>2. PICK x \in DOMAIN placed : placed[x] = p
    BY <1>2, <1>14, <2>1 DEF Given
  <2>3. x \notin DOMAIN plan
    BY <1>7, <1>9, <2>2 DEF Given
  <2>. QED BY <1>7, <1>10, <2>2, <2>3
<1>15. ASSUME NEW s \in slots, more[s] = Nil, NEW p \in generic
       PROVE  \E x \in slots : more[x] = p
  <2>1. s \notin DOMAIN filled
    BY <1>8, <1>9, <1>10, <1>15
  <2>2. PICK x \in DOMAIN filled : filled[x] = p
    BY <1>5, <1>15, <2>1 DEF Given
  <2>3. x \notin DOMAIN plan
    <3>1. x \in DOMAIN plan => plan[x] = p
      BY <1>7, <2>2
    <3>. QED BY <1>9, <1>15, <3>1 DEF Given
  <2>. QED BY <1>7, <1>10, <2>2, <2>3
<1>16. ASSUME NEW s \in slots, place[s] \in pinned
       PROVE  more[s] = place[s]
  <2>1. s \in DOMAIN placed /\ placed[s] = place[s]
    BY <1>1, <1>2, <1>16 DEF Grown
  <2>. QED BY <1>7, <1>10, <2>1
<1>17. ASSUME NEW s \in slots, place[s] \in generic
       PROVE  more[s] = place[s] \/ more[s] \in pinned
  <2>1. CASE s \in DOMAIN placed
    BY <1>7, <1>8, <1>10, <2>1
  <2>2. CASE s \notin DOMAIN placed
    <3>1. place[s] \notin Given(placed)
      <4>1. Given(placed) \subseteq Given(plan) \cup pinned
        BY <1>3, GrownGiven
      <4>. QED BY <1>17, <4>1
    <3>2. s \in DOMAIN two /\ two[s] = place[s]
      BY <1>4, <1>17, <2>2, <3>1
    <3>3. s \in DOMAIN filled /\ filled[s] = place[s]
      BY <1>5, <3>2 DEF Grown
    <3>. QED BY <1>10, <3>3
  <2>. QED BY <2>1, <2>2
<1>. QED BY <1>0, <1>10, <1>11, <1>12, <1>13, <1>14, <1>15, <1>16, <1>17 DEF Outcome, Fair

(* A proxy is pinned to a role or generic to it, and not both.             *)
LEMMA PinnedOrGeneric ==
  ASSUME NEW p, NEW role \in Roles
  PROVE  PinnedTo(p, role) <=> ~Generic(p, role)
<1>1. role # Nil
  BY PlannerAssumption
<1>. DEFINE tagged == FirstIn(RoleOrder, tags[p])
<1>2. Pin(p, {role}) = IF tagged \in {role} THEN tagged
                      ELSE IF tagged = "detail" /\ "channel" \in {role} THEN "channel" ELSE Nil
  BY Zenon DEF Pin
<1>. HIDE DEF tagged
<1>3. Pin(p, {role}) \in {role, Nil}
  BY <1>2
<1>. QED BY <1>1, <1>3 DEF PinnedTo, Generic

(* What a role is offered when the plan has given out taken.               *)
Pinned(role, taken)  == {p \in Candidates(role) \ taken : PinnedTo(p, role)}
Unpinned(role, taken) == {p \in Candidates(role) \ taken : Generic(p, role)}

LEMMA Offered ==
  ASSUME NEW role \in Roles, NEW taken, eligible \subseteq Proxies
  PROVE  /\ Pinned(role, taken) \cup Unpinned(role, taken) = Candidates(role) \ taken
         /\ Pinned(role, taken) \cap Unpinned(role, taken) = {}
         /\ Candidates(role) \subseteq Proxies
<1>1. Candidates(role) \subseteq Proxies
  BY DEF Candidates
<1>. QED BY <1>1, PinnedOrGeneric DEF Pinned, Unpinned

LEMMA RolePlanned ==
  ASSUME NEW plan, IsPlan(plan), NEW role \in Roles, NEW locked,
         Open(locked, role) \cap DOMAIN plan = {}, NEW place, Unshared(place),
         NEW order \in Preferences, eligible \subseteq Proxies
  PROVE  Outcome(plan, PlanRole(plan, role, place, locked, order), Open(locked, role), place,
                 Pinned(role, Given(plan)), Unpinned(role, Given(plan)))
<1>. DEFINE slots == Open(locked, role)
            pinned == Pinned(role, Given(plan))
            generic == Unpinned(role, Given(plan))
            more == Passed(plan, slots, place, order[role], pinned, generic)
<1>1. PlanRole(plan, role, place, locked, order) = more
  BY Zenon DEF PlanRole, Open, Pinned, Unpinned, StaysGeneric, Passed, Placed
<1>2. /\ order[role] \in Seq(Proxies)
      /\ \A p \in Proxies : \E i \in DOMAIN order[role] : order[role][i] = p
  BY PlannerAssumption
<1>3. /\ pinned \in SUBSET Proxies /\ generic \in SUBSET Proxies /\ pinned \cap generic = {}
      /\ (pinned \cup generic) \cap Given(plan) = {}
  <2>1. /\ pinned \cup generic = Candidates(role) \ Given(plan)
        /\ pinned \cap generic = {} /\ Candidates(role) \subseteq Proxies
    BY Offered, Zenon
  <2>. HIDE DEF pinned, generic
  <2>. QED BY <2>1
<1>4. slots \in SUBSET Slots
  BY DEF Open
<1>. HIDE DEF slots, pinned, generic
<1>6. slots \cap DOMAIN plan = {}
  BY DEF slots
<1>7. Outcome(plan, more, slots, place, pinned, generic)
  BY <1>2, <1>3, <1>4, <1>6, FourPasses
<1>. QED BY <1>1, <1>7 DEF slots, pinned, generic

-----------------------------------------------------------------------------
(* A whole plan.                                                           *)

(* The slots decided when the roles R are planned, where the locked slots  *)
(* in held have a proxy.                                                   *)
Decided(held, locked, R) == held \cup {s \in Slots \ locked : RoleOf[s] \in R}

(* The proxies a plan gives to locked slots and to the roles before one.   *)
Taken(plan, locked, role) ==
  {plan[s] : s \in locked \cup {x \in Slots : Before(RoleOf[x], role)}} \ {Nil}

(* Everything there is to know of a plan: it keeps the locked slots and is *)
(* fair to every role with what is not taken before.                       *)
Planned(plan, place, locked) ==
  /\ plan \in [Slots -> Proxies \cup {Nil}]
  /\ Unshared(plan)
  /\ \A s \in locked : plan[s] = place[s]
  /\ \A role \in Roles : Fair(plan, Open(locked, role), place,
                              Pinned(role, Taken(plan, locked, role)),
                              Unpinned(role, Taken(plan, locked, role)))

LEMMA FourRoles ==
  /\ Roles = {"discover", "channel", "query_quality", "detail"}
  /\ \A r \in Roles : ~Before(r, "discover")
  /\ \A r \in Roles : Before(r, "channel") <=> r \in {"discover"}
  /\ \A r \in Roles : Before(r, "query_quality") <=> r \in {"discover", "channel"}
  /\ \A r \in Roles : Before(r, "detail") <=> r \in {"discover", "channel", "query_quality"}
<1>1. /\ DOMAIN RoleOrder = {1, 2, 3, 4}
      /\ RoleOrder[1] = "discover" /\ RoleOrder[2] = "channel"
      /\ RoleOrder[3] = "query_quality" /\ RoleOrder[4] = "detail"
  BY DEF RoleOrder
<1>2. Roles = {"discover", "channel", "query_quality", "detail"}
  BY <1>1 DEF Roles
<1>. QED BY <1>1, <1>2 DEF Before

(* The plan under way before and after a role.                             *)
Staged(plan, role, more, place, locked, held, R) ==
  /\ IsPlan(more) /\ DOMAIN more = Decided(held, locked, R \cup {role})
  /\ \A s \in DOMAIN plan : more[s] = plan[s]
  /\ Fair(more, Open(locked, role), place,
          Pinned(role, Given(plan)), Unpinned(role, Given(plan)))

LEMMA Stage ==
  ASSUME NEW locked \in SUBSET Slots, NEW held \in SUBSET locked,
         NEW R \in SUBSET Roles, NEW role \in Roles \ R,
         NEW plan, IsPlan(plan), DOMAIN plan = Decided(held, locked, R),
         NEW place, Unshared(place), NEW order \in Preferences,
         eligible \subseteq Proxies
  PROVE  Staged(plan, role, PlanRole(plan, role, place, locked, order), place, locked, held, R)
<1>. DEFINE more == PlanRole(plan, role, place, locked, order)
<1>1. Open(locked, role) \cap DOMAIN plan = {}
  BY DEF Open, Decided
<1>2. Outcome(plan, more, Open(locked, role), place,
              Pinned(role, Given(plan)), Unpinned(role, Given(plan)))
  BY <1>1, RolePlanned
<1>3. Decided(held, locked, R \cup {role}) = Decided(held, locked, R) \cup Open(locked, role)
  BY DEF Open, Decided
<1>. QED BY <1>2, <1>3 DEF Outcome, Staged

(* What a stage settles is settled for the final plan.                     *)
LEMMA Settled ==
  ASSUME NEW locked \in SUBSET Slots, NEW held \in SUBSET locked,
         NEW R \in SUBSET Roles, NEW role \in Roles, \A r \in Roles : Before(r, role) <=> r \in R,
         NEW plan, IsPlan(plan), DOMAIN plan = Decided(held, locked, R),
         NEW place, NEW more, Staged(plan, role, more, place, locked, held, R),
         NEW final, \A s \in DOMAIN plan : final[s] = plan[s],
         \A s \in DOMAIN more : final[s] = more[s], \A s \in locked \ held : final[s] = Nil
  PROVE  Fair(final, Open(locked, role), place,
              Pinned(role, Taken(final, locked, role)), Unpinned(role, Taken(final, locked, role)))
<1>1. \A s \in Slots : RoleOf[s] \in Roles
  BY PlannerAssumption
<1>2. Given(plan) = Taken(final, locked, role)
  BY <1>1 DEF Given, Taken, Decided
<1>3. \A s \in Open(locked, role) : final[s] = more[s]
  BY DEF Staged, Decided, Open
<1>4. Fair(more, Open(locked, role), place, Pinned(role, Given(plan)), Unpinned(role, Given(plan)))
  BY DEF Staged
<1>. QED BY <1>2, <1>3, <1>4 DEF Fair

LEMMA PlanIsPlanned ==
  ASSUME NEW place \in [Slots -> Proxies \cup {Nil}], Unshared(place),
         NEW locked \in SUBSET Slots, NEW order \in Preferences,
         eligible \subseteq Proxies
  PROVE  Planned(Plan(place, locked, order), place, locked)
<1>. DEFINE held == {s \in locked : place[s] # Nil}
            NextPlan(plan, role) == PlanRole(plan, role, place, locked, order)
            q0 == Keep(<<>>, locked, place, Proxies)
            q1 == NextPlan(q0, "discover")
            q2 == NextPlan(q1, "channel")
            q3 == NextPlan(q2, "query_quality")
            q4 == NextPlan(q3, "detail")
            final == Plan(place, locked, order)
<1>1. final = [s \in Slots |-> IF s \in DOMAIN q4 THEN q4[s] ELSE Nil]
  BY Zenon DEF Plan
<1>2. /\ IsPlan(q0) /\ DOMAIN q0 = Decided(held, locked, {})
      /\ \A s \in DOMAIN q0 : q0[s] = place[s]
  <2>1. DOMAIN <<>> = {} /\ IsPlan(<<>>) /\ Given(<<>>) = {}
    BY DEF IsPlan, Given
  <2>2. IsPlan(q0)
    <3>1. Grown(<<>>, locked, Proxies, q0)
      BY <2>1, KeepGrows
    <3>. QED BY <3>1 DEF Grown
  <2>3. \A s \in locked : place[s] \in Proxies <=> s \in held
    BY PlannerAssumption
  <2>4. DOMAIN q0 = held /\ \A s \in held : q0[s] = place[s]
    BY <2>1, <2>3 DEF Keep
  <2>. QED BY <2>2, <2>4 DEF Decided
<1>3. held \in SUBSET locked
  OBVIOUS
<1>. DEFINE R0 == {}
            R1 == R0 \cup {"discover"}
            R2 == R1 \cup {"channel"}
            R3 == R2 \cup {"query_quality"}
<1>4. /\ "discover" \in Roles \ R0 /\ "channel" \in Roles \ R1
      /\ "query_quality" \in Roles \ R2 /\ "detail" \in Roles \ R3
      /\ R0 \in SUBSET Roles /\ R1 \in SUBSET Roles
      /\ R2 \in SUBSET Roles /\ R3 \in SUBSET Roles
  BY FourRoles
<1>E. /\ \A r \in Roles : Before(r, "discover") <=> r \in R0
      /\ \A r \in Roles : Before(r, "channel") <=> r \in R1
      /\ \A r \in Roles : Before(r, "query_quality") <=> r \in R2
      /\ \A r \in Roles : Before(r, "detail") <=> r \in R3
  BY FourRoles
<1>5. R3 \cup {"detail"} = Roles
  BY FourRoles
<1>. HIDE DEF held, q0, final, R0
<1>6. Staged(q0, "discover", q1, place, locked, held, R0)
  BY <1>2, <1>3, <1>4, Stage DEF R0
<1>. HIDE DEF q1, R1
<1>7. IsPlan(q1) /\ DOMAIN q1 = Decided(held, locked, R1)
  BY <1>6 DEF Staged, R1
<1>8. Staged(q1, "channel", q2, place, locked, held, R1)
  BY <1>3, <1>4, <1>7, Stage
<1>. HIDE DEF q2, R2
<1>9. IsPlan(q2) /\ DOMAIN q2 = Decided(held, locked, R2)
  BY <1>8 DEF Staged, R2
<1>A. Staged(q2, "query_quality", q3, place, locked, held, R2)
  BY <1>3, <1>4, <1>9, Stage
<1>. HIDE DEF q3, R3
<1>B. IsPlan(q3) /\ DOMAIN q3 = Decided(held, locked, R3)
  BY <1>A DEF Staged, R3
<1>C. Staged(q3, "detail", q4, place, locked, held, R3)
  BY <1>3, <1>4, <1>B, Stage
<1>. HIDE DEF q4
<1>D. IsPlan(q4) /\ DOMAIN q4 = Decided(held, locked, Roles)
  BY <1>5, <1>C DEF Staged
<1>10. /\ DOMAIN q0 \subseteq DOMAIN q1 /\ DOMAIN q1 \subseteq DOMAIN q2
       /\ DOMAIN q2 \subseteq DOMAIN q3 /\ DOMAIN q3 \subseteq DOMAIN q4
  BY <1>2, <1>4, <1>7, <1>9, <1>B, <1>D DEF Decided, R1, R2, R3
<1>11. /\ \A s \in DOMAIN q4 : final[s] = q4[s]
       /\ \A s \in DOMAIN q3 : final[s] = q3[s]
       /\ \A s \in DOMAIN q2 : final[s] = q2[s]
       /\ \A s \in DOMAIN q1 : final[s] = q1[s]
       /\ \A s \in DOMAIN q0 : final[s] = q0[s]
  <2>1. \A s \in DOMAIN q4 : final[s] = q4[s]
    BY <1>1, <1>D DEF IsPlan
  <2>2. \A s \in DOMAIN q3 : final[s] = q3[s]
    BY <1>C, <1>10, <2>1 DEF Staged
  <2>3. \A s \in DOMAIN q2 : final[s] = q2[s]
    BY <1>A, <1>10, <2>2 DEF Staged
  <2>4. \A s \in DOMAIN q1 : final[s] = q1[s]
    BY <1>8, <1>10, <2>3 DEF Staged
  <2>5. \A s \in DOMAIN q0 : final[s] = q0[s]
    BY <1>6, <1>10, <2>4 DEF Staged
  <2>. QED BY <2>1, <2>2, <2>3, <2>4, <2>5
<1>12. \A s \in locked \ held : final[s] = Nil
  BY <1>1, <1>3, <1>D DEF Decided
<1>13. final \in [Slots -> Proxies \cup {Nil}]
  BY <1>1, <1>D DEF IsPlan
<1>14. Unshared(final)
  BY <1>1, <1>D DEF IsPlan, Unshared
<1>15. \A s \in locked : final[s] = place[s]
  <2>1. \A s \in held : final[s] = place[s]
    BY <1>2, <1>11 DEF Decided
  <2>2. \A s \in locked \ held : place[s] = Nil
    BY DEF held
  <2>. QED BY <1>12, <2>1, <2>2
<1>. DEFINE FairTo(role) == Fair(final, Open(locked, role), place,
                                 Pinned(role, Taken(final, locked, role)),
                                 Unpinned(role, Taken(final, locked, role)))
<1>. HIDE DEF FairTo
<1>17. FairTo("discover")
  <2>1. /\ R0 \in SUBSET Roles /\ "discover" \in Roles
        /\ \A r \in Roles : Before(r, "discover") <=> r \in R0
    BY <1>4, <1>E
  <2>2. /\ \A s \in DOMAIN q0 : final[s] = q0[s]
        /\ \A s \in DOMAIN q1 : final[s] = q1[s]
    BY <1>11
  <2>. QED BY <1>2, <1>3, <1>6, <1>12, <2>1, <2>2, Settled DEF FairTo, R0
<1>18. FairTo("channel")
  <2>1. /\ R1 \in SUBSET Roles /\ "channel" \in Roles
        /\ \A r \in Roles : Before(r, "channel") <=> r \in R1
    BY <1>4, <1>E
  <2>2. /\ \A s \in DOMAIN q1 : final[s] = q1[s]
        /\ \A s \in DOMAIN q2 : final[s] = q2[s]
    BY <1>11
  <2>. QED BY <1>3, <1>7, <1>8, <1>12, <2>1, <2>2, Settled DEF FairTo
<1>19. FairTo("query_quality")
  <2>1. /\ R2 \in SUBSET Roles /\ "query_quality" \in Roles
        /\ \A r \in Roles : Before(r, "query_quality") <=> r \in R2
    BY <1>4, <1>E
  <2>2. /\ \A s \in DOMAIN q2 : final[s] = q2[s]
        /\ \A s \in DOMAIN q3 : final[s] = q3[s]
    BY <1>11
  <2>. QED BY <1>3, <1>9, <1>A, <1>12, <2>1, <2>2, Settled DEF FairTo
<1>20. FairTo("detail")
  <2>1. /\ R3 \in SUBSET Roles /\ "detail" \in Roles
        /\ \A r \in Roles : Before(r, "detail") <=> r \in R3
    BY <1>4, <1>E
  <2>2. /\ \A s \in DOMAIN q3 : final[s] = q3[s]
        /\ \A s \in DOMAIN q4 : final[s] = q4[s]
    BY <1>11
  <2>. QED BY <1>3, <1>B, <1>C, <1>12, <2>1, <2>2, Settled DEF FairTo
<1>21. \A role \in Roles : FairTo(role)
  <2>. HIDE DEF FairTo
  <2>. QED BY <1>17, <1>18, <1>19, <1>20, FourRoles
<1>22. Planned(final, place, locked)
  BY <1>13, <1>14, <1>15, <1>21 DEF Planned, FairTo
<1>. QED BY <1>22 DEF final

-----------------------------------------------------------------------------
(* Planning again.                                                         *)

(* One role, when the roles before it come out as they were.               *)
LEMMA ReplannedRole ==
  ASSUME NEW place, NEW locked \in SUBSET Slots, NEW plan, Planned(plan, place, locked),
         NEW more \in SUBSET Slots, locked \subseteq more, NEW again, Planned(again, plan, more),
         NEW role \in Roles, \A x \in Slots : Before(RoleOf[x], role) => again[x] = plan[x],
         eligible \subseteq Proxies, NEW s \in Slots, RoleOf[s] = role
  PROVE  again[s] = plan[s]
<1>. DEFINE taken1 == Taken(plan, locked, role)
            taken2 == Taken(again, more, role)
            pinned1 == Pinned(role, taken1)
            pinned2 == Pinned(role, taken2)
            generic1 == Unpinned(role, taken1)
            generic2 == Unpinned(role, taken2)
            slots1 == Open(locked, role)
            slots2 == Open(more, role)
<1>1. /\ plan \in [Slots -> Proxies \cup {Nil}] /\ Unshared(plan)
      /\ again \in [Slots -> Proxies \cup {Nil}] /\ Unshared(again)
      /\ \A x \in more : again[x] = plan[x]
  BY DEF Planned
<1>2. /\ Fair(plan, slots1, place, pinned1, generic1)
      /\ Fair(again, slots2, plan, pinned2, generic2)
  BY DEF Planned
<1>3. taken2 = {plan[x] : x \in more \cup {y \in Slots : Before(RoleOf[y], role)}} \ {Nil}
  BY <1>1 DEF Taken
<1>4. taken1 \subseteq taken2
  BY <1>3 DEF Taken
<1>5. pinned2 \subseteq pinned1 /\ generic2 \subseteq generic1
  BY <1>4 DEF Pinned, Unpinned
<1>6. pinned1 \cap generic1 = {} /\ pinned2 \cap generic2 = {}
  BY Offered DEF pinned1, pinned2, generic1, generic2
<1>7. Nil \notin pinned1 /\ Nil \notin generic1
  <2>1. Candidates(role) \subseteq Proxies
    BY DEF Candidates
  <2>. QED BY <2>1, PlannerAssumption DEF Pinned, Unpinned
<1>8. ~Before(role, role)
  BY FourRoles
<1>9. ASSUME NEW x \in slots2, plan[x] # Nil
      PROVE  plan[x] \notin taken2
  <2>1. x \in Slots /\ x \notin more /\ RoleOf[x] = role
    BY <1>9 DEF Open
  <2>. QED BY <1>1, <1>3, <1>8, <1>9, <2>1 DEF Unshared
<1>10. ASSUME NEW x \in slots1, plan[x] # Nil, plan[x] \notin taken2
       PROVE  x \in slots2
  BY <1>3, <1>10 DEF Open
<1>11. slots2 \subseteq slots1 /\ slots1 \subseteq Slots
  BY DEF Open
<1>12. /\ \A p \in pinned1 : p \in pinned2 <=> p \notin taken2
       /\ \A p \in generic1 : p \in generic2 <=> p \notin taken2
  BY DEF Pinned, Unpinned
<1>. HIDE DEF taken1, taken2, pinned1, pinned2, generic1, generic2, slots1, slots2
<1>13. CASE s \in more
  BY <1>1, <1>13
<1>14. CASE s \notin more
  <2>1. s \in slots2 /\ s \in slots1
    BY <1>11, <1>14 DEF slots2, Open
  \* A proxy pinned to the role stays where it is.
  <2>2. ASSUME NEW x \in slots2, plan[x] \in pinned1
        PROVE  plan[x] \in pinned2 /\ again[x] = plan[x]
    <3>1. plan[x] \in pinned2
      BY <1>7, <1>9, <1>12, <2>2
    <3>. QED BY <1>2, <2>2, <3>1 DEF Fair
  <2>3. CASE plan[s] \in pinned1
    BY <2>1, <2>2, <2>3
  <2>4. CASE plan[s] \notin pinned1
    \* All proxies pinned to the role have their slots: s gets none of them.
    <3>1. ASSUME NEW x \in slots2, plan[x] \notin pinned1
          PROVE  again[x] \notin pinned2
      <4>. SUFFICES ASSUME again[x] \in pinned2
                    PROVE  FALSE
        OBVIOUS
      <4>1. x \in slots1 /\ again[x] \in pinned1
        BY <1>5, <1>11
      <4>2. PICK y \in slots1 : plan[y] = again[x]
        BY <1>2, <3>1, <4>1 DEF Fair
      <4>3. y \in slots2
        <5>1. plan[y] # Nil /\ plan[y] \notin taken2
          BY <1>7, <1>12, <4>1, <4>2
        <5>. QED BY <1>10, <5>1
      <4>4. again[y] = again[x] /\ y # x
        BY <2>2, <3>1, <4>1, <4>2, <4>3
      <4>5. again[x] # Nil /\ x \in Slots /\ y \in Slots
        BY <1>7, <1>11, <4>1
      <4>. QED BY <1>1, <4>4, <4>5 DEF Unshared
    \* Nor is a generic proxy moved.
    <3>2. ASSUME NEW x \in slots2, plan[x] \in generic1
          PROVE  again[x] = plan[x]
      <4>1. plan[x] \in generic2
        BY <1>7, <1>9, <1>12, <3>2
      <4>2. again[x] \notin pinned2
        BY <1>6, <3>1, <3>2
      <4>. QED BY <1>2, <4>1, <4>2 DEF Fair
    <3>3. CASE plan[s] \in generic1
      BY <2>1, <3>2, <3>3
    <3>4. CASE plan[s] \notin generic1
      <4>1. plan[s] = Nil
        BY <1>2, <2>1, <2>4, <3>4 DEF Fair
      <4>2. again[s] \notin pinned2
        BY <2>1, <2>4, <3>1
      <4>3. again[s] \notin generic2
        <5>. SUFFICES ASSUME again[s] \in generic2
                      PROVE  FALSE
          OBVIOUS
        <5>1. again[s] \in generic1 /\ again[s] \notin taken2
          BY <1>5, <1>12
        <5>2. PICK y \in slots1 : plan[y] = again[s]
          BY <1>2, <2>1, <4>1, <5>1 DEF Fair
        <5>3. y \in slots2 /\ plan[y] \in generic1
          BY <1>7, <1>10, <5>1, <5>2
        <5>4. again[y] = again[s] /\ y # s /\ again[s] # Nil
          BY <1>7, <3>2, <4>1, <5>1, <5>2, <5>3
        <5>. QED BY <1>1, <1>11, <2>1, <5>3, <5>4 DEF Unshared
      <4>. QED BY <1>2, <2>1, <4>1, <4>2, <4>3 DEF Fair
    <3>. QED BY <3>3, <3>4
  <2>. QED BY <2>3, <2>4
<1>. QED BY <1>13, <1>14

(* Planning again from a plan, whatever slots are locked besides and       *)
(* however the proxies are ordered, gives that plan.                       *)
LEMMA Replanned ==
  ASSUME NEW place, NEW locked \in SUBSET Slots, NEW plan, Planned(plan, place, locked),
         NEW more \in SUBSET Slots, locked \subseteq more, NEW again, Planned(again, plan, more),
         eligible \subseteq Proxies
  PROVE  again = plan
<1>. DEFINE Same(role) == \A s \in Slots : RoleOf[s] = role => again[s] = plan[s]
            Earlier(role) == \A x \in Slots : Before(RoleOf[x], role) => again[x] = plan[x]
<1>1. \A s \in Slots : RoleOf[s] \in Roles
  BY PlannerAssumption
<1>2. ASSUME NEW role \in Roles, Earlier(role)
      PROVE  Same(role)
  BY <1>2, ReplannedRole
<1>3. Same("discover")
  <2>1. Earlier("discover") /\ "discover" \in Roles
    BY <1>1, FourRoles
  <2>. QED BY <1>2, <2>1
<1>4. Same("channel")
  <2>1. Earlier("channel") /\ "channel" \in Roles
    BY <1>1, <1>3, FourRoles
  <2>. QED BY <1>2, <2>1
<1>5. Same("query_quality")
  <2>1. Earlier("query_quality") /\ "query_quality" \in Roles
    BY <1>1, <1>3, <1>4, FourRoles
  <2>. QED BY <1>2, <2>1
<1>6. Same("detail")
  <2>1. Earlier("detail") /\ "detail" \in Roles
    BY <1>1, <1>3, <1>4, <1>5, FourRoles
  <2>. QED BY <1>2, <2>1
<1>7. \A s \in Slots : again[s] = plan[s]
  BY <1>1, <1>3, <1>4, <1>5, <1>6, FourRoles
<1>8. plan \in [Slots -> Proxies \cup {Nil}] /\ again \in [Slots -> Proxies \cup {Nil}]
  BY DEF Planned
<1>. QED BY <1>7, <1>8

-----------------------------------------------------------------------------
(* The invariant: the types, and that no two slots hold one proxy, which   *)
(* the planner needs to keep every slot's proxy at once.                   *)
IInv == TypeOK /\ Unshared(assigned)

LEMMA LockedSlots == Locked \in SUBSET Slots
BY DEF Locked

LEMMA ThePlan ==
  ASSUME IInv
  PROVE  Planned(Plan(assigned, Locked, prefers), assigned, Locked)
BY LockedSlots, PlanIsPlanned DEF IInv, TypeOK

(* A standby is a spare candidate of the role, hence no slot has it.       *)
LEMMA StandbyIsSpare ==
  ASSUME IInv, NEW s \in Slots
  PROVE  /\ WarmStandby(s) \in Spare(s) \cup {Nil}
         /\ WarmStandby(s) \in Proxies \cup {Nil}
         /\ WarmStandby(s) # Nil => \A x \in Slots : assigned[x] # WarmStandby(s)
<1>. DEFINE order == prefers[RoleOf[s]]
            best(role) == FirstIn(order, {p \in Spare(s) : Pin(p, SlotRoles) = role})
<1>1. order \in Seq(Proxies)
  BY PlannerAssumption DEF IInv, TypeOK
<1>2. \A set : FirstIn(order, set) \in set \/ FirstIn(order, set) = Nil
  <2>. HIDE DEF order
  <2>. QED BY <1>1, FirstInFinds
<1>3. WarmStandby(s) = IF best(RoleOf[s]) # Nil THEN best(RoleOf[s]) ELSE best(Nil)
  BY Zenon DEF WarmStandby
<1>4. \A role : best(role) \in Spare(s) \/ best(role) = Nil
  <2>. HIDE DEF order
  <2>. QED BY <1>2
<1>. HIDE DEF best
<1>5. WarmStandby(s) \in Spare(s) \/ WarmStandby(s) = Nil
  BY <1>3, <1>4
<1>6. Spare(s) \subseteq Proxies /\ \A x \in Slots : assigned[x] \notin Spare(s)
  BY DEF Spare, Candidates, IInv, TypeOK
<1>. QED BY <1>5, <1>6

(* A reconciliation installs the plan: a slot that runs an attempt is      *)
(* locked, and its plan is what it holds.                                  *)
LEMMA ReconcileInstallsPlan ==
  ASSUME IInv, Reconcile
  PROVE  assigned' = Plan(assigned, Locked, prefers)
<1>. DEFINE plan == Plan(assigned, Locked, prefers)
<1>1. plan \in [Slots -> Proxies \cup {Nil}] /\ \A s \in Locked : plan[s] = assigned[s]
  BY ThePlan DEF Planned
<1>2. \A s \in Slots : holding[s] = "busy" => s \in Locked
  BY DEF Locked
<1>3. assigned' = [s \in Slots |-> IF holding[s] = "busy" THEN assigned[s] ELSE plan[s]]
  BY DEF Reconcile
<1>. HIDE DEF plan
<1>4. assigned' = plan
  BY <1>1, <1>2, <1>3
<1>. QED BY <1>4 DEF plan

LEMMA InvInit == Init => IInv
BY PlannerAssumption DEF Init, IInv, TypeOK, Unshared

LEMMA InvNext == IInv /\ [Next]_vars => IInv'
<1>. SUFFICES ASSUME IInv, [Next]_vars
              PROVE  IInv'
  OBVIOUS
<1>. USE DEF IInv
<1>1. CASE Reconcile
  <2>1. assigned' \in [Slots -> Proxies \cup {Nil}] /\ Unshared(assigned')
    BY <1>1, ReconcileInstallsPlan, ThePlan DEF Planned
  <2>2. UNCHANGED <<tags, prefers, eligible, holding>>
    BY <1>1 DEF Reconcile
  <2>. QED BY <2>1, <2>2 DEF TypeOK, Unshared
<1>2. CASE Measure
  BY <1>2 DEF Measure, TypeOK, Unshared
<1>3. ASSUME NEW p \in Proxies, HealthChanges(p)
      PROVE  IInv'
  BY <1>3 DEF HealthChanges, TypeOK, Unshared
<1>4. ASSUME NEW s \in Slots, Claim(s)
      PROVE  IInv'
  BY <1>4 DEF Claim, Hold, TypeOK, Unshared
<1>5. ASSUME NEW s \in Slots, BeginTask(s)
      PROVE  IInv'
  BY <1>5 DEF BeginTask, Hold, TypeOK, Unshared
<1>6. ASSUME NEW s \in Slots, LeaseEnds(s)
      PROVE  IInv'
  BY <1>6 DEF LeaseEnds, TypeOK, Unshared
<1>7. ASSUME NEW s \in Slots, CompleteKeepingRoute(s)
      PROVE  IInv'
  BY <1>7 DEF CompleteKeepingRoute, Hold, TypeOK, Unshared
<1>8. ASSUME NEW s \in Slots, CompleteLeavingRoute(s)
      PROVE  IInv'
  <2>1. /\ assigned' = [assigned EXCEPT ![s] = WarmStandby(s)]
        /\ holding' = [holding EXCEPT ![s] = "idle"]
        /\ eligible' \subseteq eligible /\ UNCHANGED <<tags, prefers>>
    BY <1>8 DEF CompleteLeavingRoute, Hold
  <2>2. TypeOK'
    BY <2>1, StandbyIsSpare DEF TypeOK
  <2>3. Unshared(assigned)'
    <3>1. /\ assigned \in [Slots -> Proxies \cup {Nil}]
          /\ \A x, y \in Slots : x # y /\ assigned[x] # Nil => assigned[x] # assigned[y]
          /\ WarmStandby(s) # Nil => \A x \in Slots : assigned[x] # WarmStandby(s)
      BY StandbyIsSpare DEF TypeOK, Unshared
    <3>2. \A x \in Slots : assigned'[x] = IF x = s THEN WarmStandby(s) ELSE assigned[x]
      BY <2>1, <3>1
    <3>3. \A x, y \in Slots : x # y /\ assigned'[x] # Nil => assigned'[x] # assigned'[y]
      BY <3>1, <3>2
    <3>. QED BY <3>3 DEF Unshared
  <2>. QED BY <2>2, <2>3
<1>9. CASE UNCHANGED vars
  BY <1>9 DEF vars, TypeOK, Unshared
<1>. QED BY <1>1, <1>2, <1>3, <1>4, <1>5, <1>6, <1>7, <1>8, <1>9 DEF Next

LEMMA Invariance == Spec => []IInv
<1>1. Init => IInv
  BY InvInit
<1>2. IInv /\ [Next]_vars => IInv'
  BY InvNext
<1>. QED BY <1>1, <1>2, PTL DEF Spec

-----------------------------------------------------------------------------
(* Every variable keeps its type; a completion never leaves a slot held in *)
(* a way the claim and the cleanup do not know (completion.go).            *)
THEOREM TypeCorrect == Spec => []TypeOK
<1>1. IInv => TypeOK
  BY DEF IInv
<1>. QED BY <1>1, Invariance, PTL

(* No two slots hold the same proxy, through any reconciliations and       *)
(* completions (the unique index on proxy_running_slots.proxy_id never     *)
(* refuses what they write).                                               *)
THEOREM ProxiesUnshared == Spec => []Unshared(assigned)
<1>1. IInv => Unshared(assigned)
  BY DEF IInv
<1>. QED BY <1>1, Invariance, PTL

(* The planner meets the contract by which ProxyControl models it: it      *)
(* keeps locked slots, gives the others candidates of their roles, shares  *)
(* no proxy, and leaves a slot without only when all candidates are given. *)
THEOREM PlansAdmissible == Spec => []PlanIsAdmissible
<1>1. ASSUME IInv
      PROVE  PlanIsAdmissible
  <2>. DEFINE plan == Plan(assigned, Locked, prefers)
  <2>1. /\ plan \in [Slots -> Proxies \cup {Nil}] /\ Unshared(plan)
        /\ \A s \in Locked : plan[s] = assigned[s]
        /\ \A role \in Roles : Fair(plan, Open(Locked, role), assigned,
                                    Pinned(role, Taken(plan, Locked, role)),
                                    Unpinned(role, Taken(plan, Locked, role)))
    BY <1>1, ThePlan DEF Planned
  <2>. HIDE DEF plan
  <2>2. ASSUME NEW s \in Slots, s \notin Locked
        PROVE  /\ plan[s] \in Candidates(RoleOf[s]) \cup {Nil}
               /\ plan[s] = Nil => Candidates(RoleOf[s]) \subseteq {plan[x] : x \in Slots}
    <3>. DEFINE role == RoleOf[s]
                pinned == Pinned(role, Taken(plan, Locked, role))
                generic == Unpinned(role, Taken(plan, Locked, role))
    <3>1. role \in Roles /\ s \in Open(Locked, role)
      BY <2>2, PlannerAssumption DEF Open
    <3>2. Fair(plan, Open(Locked, role), assigned, pinned, generic)
      BY <2>1, <3>1
    <3>3. pinned \cup generic = Candidates(role) \ Taken(plan, Locked, role)
      BY <1>1, <3>1, Offered DEF IInv, TypeOK
    <3>4. Candidates(role) \subseteq Proxies
      BY <1>1 DEF Candidates, IInv, TypeOK
    <3>5. Nil \notin pinned /\ Nil \notin generic
      BY <3>4, PlannerAssumption DEF Pinned, Unpinned
    <3>. HIDE DEF role, pinned, generic
    <3>6. plan[s] \in Candidates(role) \cup {Nil}
      BY <3>1, <3>2, <3>3 DEF Fair
    <3>7. ASSUME plan[s] = Nil, NEW p \in Candidates(role)
          PROVE  p \in {plan[x] : x \in Slots}
      <4>1. CASE p \in Taken(plan, Locked, role)
        BY <4>1, LockedSlots DEF Taken
      <4>2. CASE p \notin Taken(plan, Locked, role)
        <5>1. \E x \in Open(Locked, role) : plan[x] = p
          BY <3>1, <3>2, <3>3, <3>5, <3>7, <4>2 DEF Fair
        <5>. QED BY <5>1 DEF Open
      <4>. QED BY <4>1, <4>2
    <3>. QED BY <3>6, <3>7 DEF role
  <2>3. \A s, x \in Slots : s # x /\ plan[s] # Nil => plan[x] # plan[s]
    BY <2>1 DEF Unshared
  <2>. QED BY <2>1, <2>2, <2>3 DEF PlanIsAdmissible, Admissible, plan
<1>. QED BY <1>1, Invariance, PTL

(* Planning again changes nothing, even if meanwhile measurements          *)
(* reordered the proxies and workers leased slots (ADR 0002: one           *)
(* generation for one change of health).                                   *)
THEOREM ReplanStable == Spec => []ReplanChangesNothing
<1>1. ASSUME IInv
      PROVE  ReplanChangesNothing
  <2>. DEFINE plan == Plan(assigned, Locked, prefers)
  <2>1. Planned(plan, assigned, Locked)
    BY <1>1, ThePlan
  <2>2. plan \in [Slots -> Proxies \cup {Nil}] /\ Unshared(plan)
    BY <2>1 DEF Planned
  <2>. HIDE DEF plan
  <2>3. ASSUME NEW order \in Preferences, NEW leased \in SUBSET Slots
        PROVE  Plan(plan, Locked \cup leased, order) = plan
    <3>1. Locked \cup leased \in SUBSET Slots /\ Locked \subseteq Locked \cup leased
      BY LockedSlots
    <3>2. eligible \subseteq Proxies
      BY <1>1 DEF IInv, TypeOK
    <3>3. Planned(Plan(plan, Locked \cup leased, order), plan, Locked \cup leased)
      BY <2>2, <3>1, <3>2, PlanIsPlanned
    <3>. QED BY <2>1, <3>1, <3>2, <3>3, LockedSlots, Replanned
  <2>. QED BY <2>3 DEF ReplanChangesNothing, plan
<1>. QED BY <1>1, Invariance, PTL

(* After a reconciliation another would change nothing: the slots it gave  *)
(* a healthy proxy while leased are locked then, and the rest of the plan  *)
(* stands (a reconciliation changes no tags and no candidates).            *)
THEOREM ReconcileOnce ==
  Spec => [][Reconcile => Plan(assigned', Locked', prefers') = assigned']_vars
<1>1. ASSUME IInv, Reconcile
      PROVE  Plan(assigned', Locked', prefers') = assigned'
  <2>. DEFINE plan == Plan(assigned, Locked, prefers)
  <2>1. assigned' = plan
    BY <1>1, ReconcileInstallsPlan
  <2>2. Planned(plan, assigned, Locked)
    BY <1>1, ThePlan
  <2>. HIDE DEF plan
  <2>3. plan \in [Slots -> Proxies \cup {Nil}] /\ Unshared(plan) /\ \A s \in Locked : plan[s] = assigned[s]
    BY <2>2 DEF Planned
  <2>4. UNCHANGED <<tags, prefers, eligible, holding>>
    BY <1>1 DEF Reconcile
  <2>. DEFINE more == {s \in Slots : \/ holding[s] = "busy"
                                     \/ holding[s] = "idle" /\ plan[s] \in Candidates(RoleOf[s])}
  <2>5. Locked' = more
    <3>1. \A role : Candidates(role)' = Candidates(role)
      BY <2>4 DEF Candidates
    <3>2. Locked' = {s \in Slots : \/ holding'[s] = "busy"
                                   \/ holding'[s] = "idle" /\ assigned'[s] \in Candidates(RoleOf[s])'}
      BY DEF Locked
    <3>. QED BY <2>1, <2>4, <3>1, <3>2
  <2>6. more \in SUBSET Slots /\ Locked \subseteq more
    <3>1. ASSUME NEW s \in Locked
          PROVE  s \in more
      <4>1. plan[s] = assigned[s]
        BY <2>3
      <4>2. s \in Slots /\ (holding[s] = "busy" \/ (holding[s] = "idle" /\ assigned[s] \in Candidates(RoleOf[s])))
        BY DEF Locked
      <4>. QED BY <4>1, <4>2
    <3>. QED BY <3>1
  <2>. HIDE DEF more
  <2>7. eligible \subseteq Proxies /\ prefers \in Preferences
    BY <1>1 DEF IInv, TypeOK
  <2>8. Planned(Plan(plan, more, prefers), plan, more)
    BY <2>3, <2>6, <2>7, PlanIsPlanned
  <2>9. Plan(plan, more, prefers) = plan
    BY <2>2, <2>6, <2>7, <2>8, LockedSlots, Replanned
  <2>. QED BY <2>1, <2>4, <2>5, <2>9
<1>2. IInv /\ [Next]_vars => [Reconcile => Plan(assigned', Locked', prefers') = assigned']_vars
  BY <1>1
<1>. QED BY <1>2, Invariance, PTL DEF Spec

(* The plan leaves every locked slot what it has (policy.go).              *)
KeepsLocked == \A s \in Locked : Plan(assigned, Locked, prefers)[s] = assigned[s]

(* The proxy a completion puts in place stays there at the next            *)
(* reconciliation, whatever else that plans (completion.go, policy.go):    *)
(* it is another proxy than the one that goes out of service, and leaves   *)
(* the slot leased with a candidate of its role, hence locked.             *)
THEOREM StandbyStays ==
  Spec => [][\A s \in Slots : CompleteLeavingRoute(s) /\ assigned'[s] # Nil
               => (Plan(assigned, Locked, prefers)[s] = assigned[s])']_vars
<1>1. ASSUME IInv, NEW s \in Slots, CompleteLeavingRoute(s), assigned'[s] # Nil
      PROVE  s \in Locked'
  <2>1. assigned \in [Slots -> Proxies \cup {Nil}] /\ holding \in [Slots -> {"free", "idle", "busy"}]
    BY <1>1 DEF IInv, TypeOK
  <2>2. /\ holding' = [holding EXCEPT ![s] = "idle"]
        /\ assigned' = [assigned EXCEPT ![s] = WarmStandby(s)]
        /\ eligible' = eligible \ {assigned[s]}
    BY <1>1 DEF CompleteLeavingRoute, Hold
  <2>3. holding'[s] = "idle" /\ assigned'[s] = WarmStandby(s)
    BY <2>1, <2>2
  <2>4. WarmStandby(s) \in Spare(s)
    BY <1>1, <2>3, StandbyIsSpare
  <2>5. assigned'[s] \in Candidates(RoleOf[s])'
    BY <2>2, <2>3, <2>4 DEF Spare, Candidates
  <2>. QED BY <2>3, <2>5 DEF Locked
<1>2. IInv => KeepsLocked
  BY ThePlan DEF Planned, KeepsLocked
<1>. DEFINE Step == \A s \in Slots : CompleteLeavingRoute(s) /\ assigned'[s] # Nil
                       => (Plan(assigned, Locked, prefers)[s] = assigned[s])'
<1>3. IInv /\ KeepsLocked' /\ [Next]_vars => [Step]_vars
  BY <1>1 DEF KeepsLocked
<1>. QED BY <1>2, <1>3, Invariance, PTL DEF Spec

(* A slot nobody leased loses a proxy still eligible only to a role        *)
(* planned before its own, or for a proxy pinned to its role.              *)
THEOREM MovesJustified == Spec => []MovesHaveReason
<1>1. ASSUME IInv
      PROVE  MovesHaveReason
  <2>. DEFINE plan == Plan(assigned, Locked, prefers)
  <2>1. /\ \A s \in Locked : plan[s] = assigned[s]
        /\ \A role \in Roles : Fair(plan, Open(Locked, role), assigned,
                                    Pinned(role, Taken(plan, Locked, role)),
                                    Unpinned(role, Taken(plan, Locked, role)))
    BY <1>1, ThePlan DEF Planned
  <2>. HIDE DEF plan
  <2>2. ASSUME NEW s \in Slots \ Locked, assigned[s] \in Candidates(RoleOf[s]), plan[s] # assigned[s]
        PROVE  \/ \E x \in Slots : plan[x] = assigned[s] /\ Before(RoleOf[x], RoleOf[s])
               \/ plan[s] # Nil /\ PinnedTo(plan[s], RoleOf[s]) /\ Generic(assigned[s], RoleOf[s])
    <3>. DEFINE role == RoleOf[s]
                taken == Taken(plan, Locked, role)
                pinned == Pinned(role, taken)
                generic == Unpinned(role, taken)
    <3>1. role \in Roles /\ s \in Open(Locked, role)
      BY PlannerAssumption DEF Open
    <3>2. Fair(plan, Open(Locked, role), assigned, pinned, generic)
      BY <2>1, <3>1
    <3>3. pinned \cup generic = Candidates(role) \ taken
      BY <1>1, <3>1, Offered DEF IInv, TypeOK
    <3>4. Candidates(role) \subseteq Proxies /\ Nil \notin Proxies
      BY <1>1, PlannerAssumption DEF Candidates, IInv, TypeOK
    <3>5. CASE assigned[s] \in taken
      <4>1. PICK x \in Locked \cup {y \in Slots : Before(RoleOf[y], role)} : plan[x] = assigned[s]
        BY <3>5 DEF Taken
      <4>2. x \notin Locked
        BY <1>1, <2>1, <2>2, <3>4, <4>1, LockedSlots DEF IInv, Unshared
      <4>. QED BY <4>1, <4>2
    <3>6. CASE assigned[s] \notin taken
      <4>1. assigned[s] \in generic /\ plan[s] \in pinned
        <5>. HIDE DEF role, pinned, generic, taken
        <5>1. assigned[s] \in pinned \cup generic
          BY <2>2, <3>3, <3>6 DEF role
        <5>. QED BY <2>2, <3>1, <3>2, <5>1 DEF Fair
      <4>2. plan[s] # Nil /\ PinnedTo(plan[s], role) /\ Generic(assigned[s], role)
        BY <3>4, <4>1 DEF Pinned, Unpinned
      <4>. QED BY <4>2
    <3>. QED BY <3>5, <3>6
  <2>. QED BY <2>2 DEF MovesHaveReason, plan
<1>. QED BY <1>1, Invariance, PTL

=============================================================================
