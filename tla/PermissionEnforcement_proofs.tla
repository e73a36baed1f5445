--------------------- MODULE PermissionEnforcement_proofs ---------------------
(***************************************************************************)
(* What the module PermissionEnforcement says of the ability, for any      *)
(* users, rules and scenarios and any number of enforcements under way;    *)
(* and of the data that are stored, for a device with one user.            *)
(*                                                                         *)
(* A derivation is applied when the user entity is there, which may be     *)
(* long after its rules were picked.  The invariant therefore speaks of    *)
(* the derivations that wait as well: their last one has the latest known  *)
(* rules of whoever is logged in (Follows), so that going on with them one *)
(* after the other ends with these.  As long as the rules are unknown      *)
(* nothing waits and nothing is enforced (Quiet), and the ability is what  *)
(* was enforced last (AsBefore).                                           *)
(*                                                                         *)
(* Rules are stored as enforced by whichever enforcement ends, so the      *)
(* second part follows news of the rules on their way: from the server to  *)
(* the database, to the service, to what waits, to the enforcements, in    *)
(* this order.  What is behind them still has the rules that are stored,   *)
(* and does nothing with them; an enforcement purges nothing the user may  *)
(* read, and after its sync the data are exact (EnforcedNow).              *)
(***************************************************************************)
EXTENDS PermissionEnforcement, SequenceTheorems, FiniteSetTheorems, TLAPS

-----------------------------------------------------------------------------
(***************************************************************************)
(* The state of the service                                                *)
(***************************************************************************)

\* What the service reads: the session, and the rules stored as enforced
Stored == [Users -> {{}} \cup {{r} : r \in SUBSET Docs}]
Context == [user : Users \cup {NoUser}, loaded : BOOLEAN, stored : Stored]

\* The fields of the service
LEMMA ServiceFields ==
  ASSUME NEW s \in Service
  PROVE  /\ s.init \in {"loading", "initial", "subscribed", "dead"} /\ s.current \in RuleVersion
         /\ s.known \in BOOLEAN /\ s.ability \in SUBSET Docs
         /\ s.waiting \in Seq(Derivation) /\ s.runs \in Seq(Run)
  BY DEF Service

\* The fields of what the service reads
LEMMA ContextFields ==
  ASSUME NEW c \in Context
  PROVE  c.user \in Users \cup {NoUser} /\ c.loaded \in BOOLEAN /\ c.stored \in Stored
  BY DEF Context

\* A version of the config assigns rules to everybody.
LEMMA RulesTyped ==
  ASSUME NEW rules \in RuleVersion, NEW u \in Users \cup {NoUser}
  PROVE  rules[u] \in SUBSET Docs
  BY RulesAssumption DEF RuleVersion, AllowAll

\* Nothing but the enforcements and the ability differs.
KeepsRules(t, s) ==
    /\ t \in Service /\ t.init = s.init /\ t.current = s.current /\ t.known = s.known
    /\ t.waiting = s.waiting

\* An enforcement that begins, on the legacy adapter or another
Begun(legacy, r, initial) ==
    [rules |-> r, initial |-> initial, todo |-> Docs \ r, db |-> NoUser,
     pc |-> IF legacy THEN "check" ELSE "first"]

\* The enforcements there are after rules have been applied
With(s, r, initial, c) ==
    IF c.stored[c.user] = {r} THEN s.runs ELSE Append(s.runs, Begun(Legacy, r, initial))

\* A derivation whose rules are not those stored as enforced starts an enforcement.
Starts(run, d, c) == run = Begun(Legacy, d.rules, d.initial) /\ c.stored[c.user] # {d.rules}

\* Rules that are not those stored as enforced start an enforcement.
LEMMA EnforceDoes ==
  ASSUME NEW s \in Service, NEW r \in SUBSET Docs, NEW initial \in BOOLEAN, NEW c \in Context
  PROVE  LET t == Enforce(s, r, initial, c)
         IN KeepsRules(t, s) /\ t.ability = s.ability /\ t.runs = With(s, r, initial, c)
<1> DEFINE todo == Docs \ r
           pc == IF Legacy THEN "check" ELSE "first"
           run == [rules |-> r, initial |-> initial, todo |-> todo, db |-> NoUser, pc |-> pc]
           runs == Append(s.runs, run)
<1>1. todo \in SUBSET Docs /\ pc \in {"check", "first", "syncing", "second"}
  OBVIOUS
<1>2. Enforce(s, r, initial, c) = IF c.stored[c.user] = {r} THEN s ELSE [s EXCEPT !.runs = runs]
  BY DEF Enforce
<1>6. With(s, r, initial, c) = IF c.stored[c.user] = {r} THEN s.runs ELSE runs
  BY DEF With, Begun
<1> HIDE DEF todo, pc
<1>3. run \in Run
  BY <1>1 DEF Run
<1> HIDE DEF run
<1>4. runs \in Seq(Run)
  BY <1>3, ServiceFields
<1> HIDE DEF runs
<1>5. LET t == [s EXCEPT !.runs = runs]
      IN KeepsRules(t, s) /\ t.ability = s.ability /\ t.runs = runs
  BY <1>4 DEF Service, KeepsRules
<1> QED
  BY <1>2, <1>5, <1>6 DEF KeepsRules

\* Rules that are applied are the ability.
LEMMA ApplyDoes ==
  ASSUME NEW s \in Service, NEW r \in SUBSET Docs, NEW initial \in BOOLEAN, NEW c \in Context
  PROVE  LET t == Apply(s, r, initial, c)
         IN KeepsRules(t, s) /\ t.ability = r /\ t.runs = With(s, r, initial, c)
<1> DEFINE t == [s EXCEPT !.ability = r]
<1>1. KeepsRules(t, s) /\ t.ability = r /\ t.runs = s.runs
  BY DEF Service, KeepsRules
<1>2. Apply(s, r, initial, c) = Enforce(t, r, initial, c)
  BY DEF Apply
<1> HIDE DEF t
<1>3. /\ KeepsRules(Enforce(t, r, initial, c), t) /\ Enforce(t, r, initial, c).ability = t.ability
      /\ Enforce(t, r, initial, c).runs = With(t, r, initial, c)
  BY <1>1, EnforceDoes DEF KeepsRules
<1>4. With(t, r, initial, c) = With(s, r, initial, c)
  BY <1>1 DEF With
<1> QED
  BY <1>1, <1>2, <1>3, <1>4 DEF KeepsRules

\* The ability is what the known rules give whoever is logged in, or the last of the
\* derivations that are waiting will make it so.
Follows(s, c) ==
    s.init = "subscribed" /\ s.known =>
        IF c.user = NoUser \/ c.loaded THEN s.ability = s.current[c.user]
        ELSE s.waiting # <<>> /\ s.waiting[Len(s.waiting)].rules = s.current[c.user]

\* Nothing is derived from rules that are not known.
Quiet(s) == ~s.known =>
    s.waiting = <<>> /\ s.runs = <<>> /\ s.init \in {"loading", "subscribed"}

\* What is permitted instead is what was enforced last.
AsBefore(s, c) == ~s.known /\ s.init = "subscribed" => s.ability = LastKnown(c)

ServiceOK(s, c) == s \in Service /\ Follows(s, c) /\ Quiet(s) /\ AsBefore(s, c)

\* A derivation is applied, or waits behind the others.
LEMMA DeriveDoes ==
  ASSUME NEW s \in Service, NEW initial \in BOOLEAN, NEW c \in Context
  PROVE  LET t == Derive(s, initial, c)
         IN /\ t \in Service /\ t.init = s.init /\ t.current = s.current /\ t.known = s.known
            /\ Follows(t, c)
<1> DEFINE r == s.current[c.user]
<1>1. r \in SUBSET Docs /\ s.waiting \in Seq(Derivation)
  BY ServiceFields, ContextFields, RulesTyped
<1> HIDE DEF r
<1>2. CASE c.user = NoUser
  <2> DEFINE t == [s EXCEPT !.ability = r]
  <2>1. /\ t \in Service /\ t.init = s.init /\ t.current = s.current /\ t.known = s.known
        /\ t.ability = r
    BY <1>1 DEF Service
  <2>2. Derive(s, initial, c) = t
    BY <1>2 DEF Derive, r
  <2> HIDE DEF t
  <2> QED
    BY <1>2, <2>1, <2>2 DEF Follows, r
<1>3. CASE c.user # NoUser /\ c.loaded
  <2>1. Derive(s, initial, c) = Apply(s, r, initial, c)
    BY <1>3 DEF Derive, r
  <2>2. KeepsRules(Apply(s, r, initial, c), s) /\ Apply(s, r, initial, c).ability = r
    BY <1>1, ApplyDoes
  <2> QED
    BY <1>3, <2>1, <2>2 DEF KeepsRules, Follows, r
<1>4. CASE c.user # NoUser /\ ~c.loaded
  <2> DEFINE d == [rules |-> r, initial |-> initial]
             waiting == Append(s.waiting, d)
             t == [s EXCEPT !.waiting = waiting]
  <2>1. d \in Derivation /\ d.rules = r
    BY <1>1 DEF Derivation
  <2>2. Derive(s, initial, c) = t
    BY <1>4 DEF Derive, r
  <2> HIDE DEF d
  <2>3. waiting \in Seq(Derivation) /\ waiting # <<>> /\ waiting[Len(waiting)] = d
    BY <1>1, <2>1
  <2> HIDE DEF waiting
  <2>4. /\ t \in Service /\ t.init = s.init /\ t.current = s.current /\ t.known = s.known
        /\ t.waiting = waiting
    BY <2>3 DEF Service
  <2> HIDE DEF t
  <2> QED
    BY <1>4, <2>1, <2>2, <2>3, <2>4 DEF Follows, r
<1> QED
  BY <1>2, <1>3, <1>4

\* The rules that were enforced last
LEMMA LastKnownTyped ==
  ASSUME NEW c \in Context
  PROVE  /\ LastKnown(c) \in SUBSET Docs
         /\ c.user # NoUser /\ c.stored[c.user] # {} => LastKnown(c) \in c.stored[c.user]
<1>1. c.user # NoUser => c.stored[c.user] = {} \/ \E r \in SUBSET Docs : c.stored[c.user] = {r}
  BY ContextFields DEF Stored
<1> QED
  BY <1>1 DEF LastKnown

\* After a reaction the ability follows the rules, as far as they are known.
LEMMA ReactDoes ==
  ASSUME NEW s \in Service, NEW c \in Context, Quiet(s)
  PROVE  LET t == React(s, c)
         IN /\ ServiceOK(t, c)
            /\ t.init = s.init /\ t.current = s.current /\ t.known = s.known
<1>1. CASE s.init # "subscribed"
  BY <1>1 DEF React, ServiceOK, Follows, AsBefore
<1>2. CASE s.init = "subscribed" /\ s.known
  <2>1. React(s, c) = Derive(s, FALSE, c)
    BY <1>2 DEF React
  <2> QED
    BY <1>2, <2>1, DeriveDoes DEF ServiceOK, Quiet, AsBefore
<1>3. CASE s.init = "subscribed" /\ ~s.known
  <2> DEFINE r == LastKnown(c)
             t == [s EXCEPT !.ability = r]
  <2>1. r \in SUBSET Docs
    BY LastKnownTyped
  <2>2. React(s, c) = t
    BY <1>3 DEF React
  <2> HIDE DEF r
  <2>3. /\ t \in Service /\ t.init = s.init /\ t.current = s.current /\ t.known = s.known
        /\ t.ability = r /\ t.waiting = s.waiting /\ t.runs = s.runs
    BY <2>1 DEF Service
  <2> HIDE DEF t
  <2> QED
    BY <1>3, <2>2, <2>3 DEF ServiceOK, Follows, Quiet, AsBefore, r
<1> QED
  BY <1>1, <1>2, <1>3, ServiceFields

\* The subscription begins with a reaction.
LEMMA SubscribeDoes ==
  ASSUME NEW s \in Service, NEW c \in Context, Quiet(s)
  PROVE  ServiceOK(Subscribe(s, c), c)
<1> DEFINE t == [s EXCEPT !.init = "subscribed"]
<1>1. t \in Service /\ t.known = s.known /\ t.waiting = s.waiting /\ t.runs = s.runs
      /\ t.init = "subscribed"
  BY DEF Service
<1>2. Subscribe(s, c) = React(React(t, c), c)
  BY DEF Subscribe
<1> HIDE DEF t
<1>3. Quiet(t)
  BY <1>1 DEF Quiet
<1>4. ServiceOK(React(t, c), c)
  BY <1>1, <1>3, ReactDoes
<1> QED
  BY <1>2, <1>4, ReactDoes DEF ServiceOK

\* initializeRules() goes on when its derivation and its enforcement are over.
LEMMA ResumeDoes ==
  ASSUME NEW s, NEW c \in Context, ServiceOK(s, c)
  PROVE  ServiceOK(Resume(s, c), c)
  BY SubscribeDoes DEF Resume, ServiceOK

-----------------------------------------------------------------------------
(***************************************************************************)
(* Derivations that have been waiting                                      *)
(***************************************************************************)

\* Induction over a set of numbers: were n the least number outside, the numbers up
\* to n outside would be as many as those without n, which precede them.
LEMMA SetInduction ==
  ASSUME NEW T, 0 \in T, \A n \in Nat : n \in T => n + 1 \in T
  PROVE  Nat \subseteq T
<1> SUFFICES ASSUME NEW n \in Nat, n \notin T PROVE FALSE
  OBVIOUS
<1> DEFINE U == {k \in 0..n : k \notin T}
           pred == [k \in U |-> k - 1]
<1>1. IsFiniteSet(U) /\ Cardinality(U) \in Nat
  <2>1. IsFiniteSet(0..n) /\ U \subseteq 0..n
    BY FS_Interval
  <2> HIDE DEF U
  <2>2. IsFiniteSet(U)
    BY <2>1, FS_Subset
  <2> QED
    BY <2>2, FS_CardinalityType
<1>2. n \in U /\ U \subseteq Nat
  OBVIOUS
<1>3. \A k \in U : k - 1 \in U \ {n}
  <2> SUFFICES ASSUME NEW k \in U PROVE k - 1 \in U \ {n}
    OBVIOUS
  <2>1. k # 0
    OBVIOUS
  <2>2. k - 1 \in Nat /\ (k - 1) + 1 = k
    BY <2>1
  <2>3. k - 1 \notin T
    BY <2>2
  <2> QED
    BY <2>2, <2>3
<1>4. IsFiniteSet(U \ {n}) /\ Cardinality(U \ {n}) = Cardinality(U) - 1
  <2> HIDE DEF U
  <2> QED
    BY <1>1, <1>2, FS_RemoveElement
<1>5. pred \in [U -> U \ {n}]
  BY <1>3
<1> HIDE DEF pred
<1>6. PICK x, y \in U : x # y /\ pred[x] = pred[y]
  <2> HIDE DEF U
  <2> QED
    BY <1>1, <1>4, <1>5, FS_PigeonHole
<1> QED
  BY <1>6, <1>2 DEF pred

\* The derivations take effect one after the other: the last one stays.
LEMMA AllApplied ==
  ASSUME NEW s \in Service, NEW waiting \in Seq(Derivation), NEW c \in Context
  PROVE  LET t == ApplyAll(s, waiting, c)
         IN /\ KeepsRules(t, s)
            /\ waiting = <<>> => t = s
            /\ waiting # <<>> => t.ability = waiting[Len(waiting)].rules
            /\ Len(s.runs) <= Len(t.runs) /\ Len(t.runs) <= Len(s.runs) + Len(waiting)
            /\ \A j \in 1..Len(t.runs) :
                  IF j <= Len(s.runs) THEN t.runs[j] = s.runs[j]
                  ELSE \E i \in 1..Len(waiting) : Starts(t.runs[j], waiting[i], c)
<1> DEFINE l == Len(waiting)
           Step(t, n) == Apply(t, waiting[n].rules, waiting[n].initial, c)
           Steps(f, m) == [n \in 0..m |-> IF n = 0 THEN s ELSE Step(f[n - 1], n)]
           after == CHOOSE f : f = Steps(f, l)
           Holds(n) == /\ KeepsRules(after[n], s)
                       /\ n = 0 => after[n] = s
                       /\ n # 0 => after[n].ability = waiting[n].rules
           Grown(n) == LET runs == after[n].runs
                       IN /\ Len(s.runs) <= Len(runs) /\ Len(runs) <= Len(s.runs) + n
                          /\ \A j \in 1..Len(runs) :
                               IF j <= Len(s.runs) THEN runs[j] = s.runs[j]
                               ELSE \E i \in 1..n : Starts(runs[j], waiting[i], c)
<1>1. l \in Nat
  OBVIOUS
<1>2. ApplyAll(s, waiting, c) = after[l]
  BY DEF ApplyAll
<1>3. \A t \in Service : \A n \in 1..l :
         /\ KeepsRules(Step(t, n), t) /\ Step(t, n).ability = waiting[n].rules
         /\ Step(t, n).runs = With(t, waiting[n].rules, waiting[n].initial, c)
  <2> SUFFICES ASSUME NEW t \in Service, NEW n \in 1..l
               PROVE  /\ KeepsRules(Step(t, n), t) /\ Step(t, n).ability = waiting[n].rules
                      /\ Step(t, n).runs = With(t, waiting[n].rules, waiting[n].initial, c)
    OBVIOUS
  <2>1. waiting[n] \in Derivation
    OBVIOUS
  <2>2. waiting[n].rules \in SUBSET Docs /\ waiting[n].initial \in BOOLEAN
    BY <2>1 DEF Derivation
  <2> QED
    BY <2>2, ApplyDoes
<1> HIDE DEF Step
<1>4. \A m \in Nat : \E f : f = Steps(f, m)
  <2> DEFINE T == {m \in Nat : \E f : f = Steps(f, m)}
  <2>1. 0 \in T
    <3> DEFINE f == [n \in 0..0 |-> s]
    <3>1. f = Steps(f, 0)
      OBVIOUS
    <3> QED
      BY <3>1
  <2>2. ASSUME NEW m \in Nat, m \in T PROVE m + 1 \in T
    <3>1. PICK f : f = Steps(f, m)
      BY <2>2
    <3> DEFINE g == [n \in 0..(m + 1) |-> IF n <= m THEN f[n] ELSE Step(f[m], m + 1)]
    <3>2. ASSUME NEW n \in 0..(m + 1) PROVE g[n] = Steps(g, m + 1)[n]
      <4>1. CASE n = 0
        BY <4>1, <3>1
      <4>2. CASE n # 0
        <5>1. n - 1 \in 0..m
          BY <4>2
        <5>2. g[n - 1] = f[n - 1]
          BY <5>1
        <5>3. Steps(g, m + 1)[n] = Step(f[n - 1], n)
          BY <5>2, <4>2
        <5>4. CASE n <= m
          <6>1. n \in 0..m
            BY <5>4
          <6>2. f[n] = Steps(f, m)[n]
            BY <3>1
          <6>3. f[n] = Step(f[n - 1], n)
            BY <6>1, <6>2, <4>2
          <6> QED
            BY <6>3, <5>3, <5>4
        <5>5. CASE ~(n <= m)
          <6>1. n = m + 1 /\ n - 1 = m
            BY <5>5
          <6> QED
            BY <6>1, <5>3
        <5> QED
          BY <5>4, <5>5
      <4> QED
        BY <4>1, <4>2
    <3>3. g = Steps(g, m + 1)
      <4> DEFINE h == Steps(g, m + 1)
      <4>1. h = [n \in 0..(m + 1) |-> h[n]] /\ g = [n \in 0..(m + 1) |-> g[n]]
        OBVIOUS
      <4>2. \A n \in 0..(m + 1) : g[n] = h[n]
        BY <3>2
      <4> HIDE DEF h, g
      <4>3. g = h
        BY <4>1, <4>2
      <4> QED
        BY <4>3 DEF h
    <3> HIDE DEF g
    <3> QED
      BY <3>3
  <2> HIDE DEF T
  <2>3. Nat \subseteq T
    BY <2>1, <2>2, SetInduction
  <2> QED
    BY <2>3 DEF T
<1>5. after = Steps(after, l)
  <2>1. \E f : f = Steps(f, l)
    BY <1>1, <1>4
  <2> QED
    BY <2>1
<1> HIDE DEF after
<1>6. after[0] = s /\ \A n \in 1..l : after[n] = Step(after[n - 1], n)
  <2> DEFINE h == Steps(after, l)
  <2>1. h[0] = s /\ \A n \in 1..l : h[n] = Step(after[n - 1], n)
    BY <1>1
  <2>2. after = h
    BY <1>5
  <2> HIDE DEF h
  <2> QED
    BY <2>1, <2>2
<1> HIDE DEF l
<1> HIDE DEF Holds, Grown
<1>7. \A n \in Nat : n <= l => Holds(n) /\ Grown(n)
  <2> DEFINE T == {n \in Nat : n <= l => Holds(n) /\ Grown(n)}
  <2>1. 0 \in T
    <3>1. Len(s.runs) \in Nat
      BY ServiceFields
    <3> QED
      BY <1>6, <3>1 DEF KeepsRules, Holds, Grown
  <2>2. ASSUME NEW n \in Nat, n \in T PROVE n + 1 \in T
    <3> SUFFICES ASSUME n + 1 <= l PROVE Holds(n + 1) /\ Grown(n + 1)
      OBVIOUS
    <3>1. Holds(n) /\ Grown(n) /\ n + 1 \in 1..l /\ (n + 1) - 1 = n /\ n + 1 # 0
      BY <2>2, <1>1
    <3>2. after[n + 1] = Step(after[n], n + 1)
      BY <3>1, <1>6
    <3>3. after[n] \in Service
      BY <3>1 DEF KeepsRules, Holds
    <3>4. /\ KeepsRules(after[n + 1], after[n]) /\ after[n + 1].ability = waiting[n + 1].rules
          /\ after[n + 1].runs
               = With(after[n], waiting[n + 1].rules, waiting[n + 1].initial, c)
      BY <3>1, <3>2, <3>3, <1>3
    <3>5. Holds(n + 1)
      BY <3>1, <3>4 DEF KeepsRules, Holds
    <3>6. Grown(n + 1)
      <4> DEFINE runs == after[n].runs
                 next == after[n + 1].runs
                 run == Begun(Legacy, waiting[n + 1].rules, waiting[n + 1].initial)
      <4>1. runs \in Seq(Run) /\ s.runs \in Seq(Run)
        BY <3>3, ServiceFields
      <4>2. /\ Len(s.runs) <= Len(runs) /\ Len(runs) <= Len(s.runs) + n
            /\ \A j \in 1..Len(runs) :
                 IF j <= Len(s.runs) THEN runs[j] = s.runs[j]
                 ELSE \E i \in 1..n : Starts(runs[j], waiting[i], c)
        BY <3>1 DEF Grown
      <4>3. next = runs \/ (next = Append(runs, run) /\ Starts(run, waiting[n + 1], c))
        BY <3>4 DEF With, Starts
      <4> HIDE DEF runs, run, next
      <4>4. /\ Len(runs) \in Nat /\ Len(s.runs) \in Nat /\ n \in Nat
            /\ Len(s.runs) <= Len(runs) /\ Len(runs) <= Len(s.runs) + n
        BY <4>1, <4>2
      <4>5. /\ Len(s.runs) <= Len(next) /\ Len(next) <= Len(s.runs) + (n + 1)
            /\ \A j \in 1..Len(next) :
                 IF j <= Len(s.runs) THEN next[j] = s.runs[j]
                 ELSE \E i \in 1..(n + 1) : Starts(next[j], waiting[i], c)
        <5>1. CASE next = runs
          BY <4>2, <4>4, <5>1
        <5>2. CASE next = Append(runs, run) /\ Starts(run, waiting[n + 1], c)
          <6>1. Len(next) = Len(runs) + 1
            BY <4>1, <5>2
          <6>2. ASSUME NEW j \in 1..Len(next)
                PROVE  IF j <= Len(s.runs) THEN next[j] = s.runs[j]
                       ELSE \E i \in 1..(n + 1) : Starts(next[j], waiting[i], c)
            <7>1. CASE j = Len(runs) + 1
              <8>1. next[j] = run
                BY <4>1, <5>2, <7>1
              <8> QED
                BY <8>1, <7>1, <4>2, <4>4, <5>2
            <7>2. CASE j # Len(runs) + 1
              <8>1. j \in 1..Len(runs)
                BY <6>1, <7>2, <4>4
              <8>2. next[j] = runs[j]
                BY <4>1, <5>2, <8>1
              <8> QED
                BY <8>1, <8>2, <4>2, <4>4
            <7> QED
              BY <7>1, <7>2
          <6>3. Len(s.runs) <= Len(next) /\ Len(next) <= Len(s.runs) + (n + 1)
            <7>1. \A a, b, m \in Nat : a <= b /\ b <= a + m => a <= b + 1 /\ b + 1 <= a + (m + 1)
              OBVIOUS
            <7>2. Len(s.runs) <= Len(runs) + 1 /\ Len(runs) + 1 <= Len(s.runs) + (n + 1)
              BY <4>4, <7>1, Zenon
            <7> QED
              BY <7>2, <6>1, Zenon
          <6> QED
            BY <6>2, <6>3
        <5> QED
          BY <4>3, <5>1, <5>2
      <4> QED
        BY <4>5 DEF next, Grown
    <3> QED
      BY <3>5, <3>6
  <2> HIDE DEF T
  <2>3. Nat \subseteq T
    BY <2>1, <2>2, SetInduction
  <2> QED
    BY <2>3 DEF T
<1>8. Holds(l) /\ Grown(l)
  BY <1>1, <1>7
<1>9. waiting = <<>> <=> l = 0
  BY DEF l
<1> QED
  BY <1>2, <1>8, <1>9 DEF l, Holds, Grown

-----------------------------------------------------------------------------
(***************************************************************************)
(* The enforcements                                                        *)
(***************************************************************************)

\* Enforcements change, begin or end, the rules they were derived from being known.
LEMMA RunsChange ==
  ASSUME NEW s \in Service, NEW c \in Context, Follows(s, c), s.known, NEW runs \in Seq(Run),
         NEW init \in {s.init, "dead"}, NEW t, t = [s EXCEPT !.runs = runs, !.init = init]
  PROVE  ServiceOK(t, c)
<1>1. t \in Service /\ t.init = init /\ t.current = s.current /\ t.known = s.known
      /\ t.ability = s.ability /\ t.waiting = s.waiting
  BY ServiceFields DEF Service
<1>2. Follows(t, c)
  BY <1>1 DEF Follows
<1> QED
  BY <1>1, <1>2 DEF ServiceOK, Quiet, AsBefore

\* An enforcement goes on.
LEMMA RunChanges ==
  ASSUME NEW s \in Service, NEW c \in Context, Follows(s, c), s.known,
         NEW k \in DOMAIN s.runs, NEW run \in Run
  PROVE  LET t == [s EXCEPT !.runs = [s.runs EXCEPT ![k] = run]]
         IN ServiceOK(t, c) /\ t.known /\ t.runs = [s.runs EXCEPT ![k] = run]
<1> DEFINE runs == [s.runs EXCEPT ![k] = run]
           t == [s EXCEPT !.runs = runs]
<1>1. runs \in Seq(Run)
  BY ServiceFields
<1> HIDE DEF runs
<1>2. t = [s EXCEPT !.runs = runs, !.init = s.init]
  BY DEF Service
<1>3. t.known /\ t.runs = runs
  BY DEF Service
<1> HIDE DEF t
<1>4. ServiceOK(t, c)
  BY <1>1, <1>2, RunsChange
<1> QED
  BY <1>3, <1>4 DEF t, runs

\* An enforcement is over.
LEMMA OverDoes ==
  ASSUME NEW s \in Service, NEW c \in Context, Follows(s, c), s.known,
         NEW k \in DOMAIN s.runs, NEW thrown \in BOOLEAN
  PROVE  ServiceOK(Over(s, k, thrown, c), c)
<1> DEFINE runs == RemoveAt(s.runs, k)
           init == IF thrown /\ s.runs[k].initial THEN "dead" ELSE s.init
           t == [s EXCEPT !.runs = runs, !.init = init]
<1>1. runs \in Seq(Run)
  <2>1. s.runs \in Seq(Run) /\ k \in 1..Len(s.runs)
    BY ServiceFields
  <2>2. /\ SubSeq(s.runs, 1, k - 1) \in Seq(Run)
        /\ SubSeq(s.runs, k + 1, Len(s.runs)) \in Seq(Run)
    BY <2>1
  <2> QED
    BY <2>2 DEF RemoveAt
<1>2. init \in {s.init, "dead"}
  OBVIOUS
<1>3. Over(s, k, thrown, c) = Resume(t, c)
  BY DEF Over
<1> HIDE DEF runs, init
<1>4. t = [s EXCEPT !.runs = runs, !.init = init]
  OBVIOUS
<1> HIDE DEF t
<1>5. ServiceOK(t, c)
  BY <1>1, <1>2, <1>4, RunsChange
<1> QED
  BY <1>3, <1>5, ResumeDoes

-----------------------------------------------------------------------------
(***************************************************************************)
(* What the steps do to the service                                        *)
(***************************************************************************)

\* The inductive invariant
ServiceInv == TypeOK /\ ServiceOK(svc, Now)

\* What the service reads has its type.
LEMMA NowTyped ==
  ASSUME TypeOK
  PROVE  /\ Now \in Context /\ Now.user = session /\ Now.loaded = loaded
         /\ Now.stored = stored
  BY DEF TypeOK, Now, Context, Stored

\* A new page derives nothing yet.
LEMMA NewPageOK ==
  ASSUME NEW c \in Context
  PROVE  ServiceOK(NewPage, c)
<1>1. NewPage \in Service
  <2>1. AllowAll \in RuleVersion /\ <<>> \in Seq(Derivation) /\ <<>> \in Seq(Run)
    BY DEF RuleVersion
  <2> QED
    BY <2>1 DEF NewPage, Service
<1> QED
  BY <1>1 DEF ServiceOK, NewPage, Follows, Quiet, AsBefore

\* The rules of the service change.
LEMMA RulesUpdatedDoes ==
  ASSUME NEW s \in Service, NEW c \in Context, NEW rules \in RuleVersion
  PROVE  ServiceOK(RulesUpdated(s, rules, c), c)
<1> DEFINE t == [s EXCEPT !.current = rules, !.known = TRUE]
<1>1. t \in Service /\ t.known
  BY DEF Service
<1>2. RulesUpdated(s, rules, c) = React(t, c)
  BY DEF RulesUpdated
<1> HIDE DEF t
<1> QED
  BY <1>1, <1>2, ReactDoes DEF Quiet

\* The rules are loaded.
LEMMA LoadRulesKeeps ==
  ASSUME ServiceInv, LoadRules
  PROVE  ServiceOK(svc', Now)
<1>1. TypeOK /\ svc \in Service /\ ServiceOK(svc, Now)
  BY DEF ServiceInv, ServiceOK
<1>2. Now \in Context
  BY <1>1, NowTyped
<1>3. ASSUME dbRules[session] # AllowAll,
             Becomes(Resume(Derive([svc EXCEPT !.init = "initial", !.known = TRUE,
                                              !.current = dbRules[session]],
                                  TRUE, Now), Now))
      PROVE  ServiceOK(svc', Now)
  <2> DEFINE rules == dbRules[session]
             t == [svc EXCEPT !.init = "initial", !.known = TRUE, !.current = rules]
  <2>1. rules \in RuleVersion
    BY <1>1 DEF TypeOK, LoadRules
  <2> HIDE DEF rules
  <2>2. t \in Service /\ t.init = "initial" /\ t.known
    BY <1>1, <2>1 DEF Service
  <2> HIDE DEF t
  <2>3. svc' = Resume(Derive(t, TRUE, Now), Now)
    BY <1>3 DEF Becomes, t, rules
  <2>4. ServiceOK(Derive(t, TRUE, Now), Now)
    BY <1>2, <2>2, DeriveDoes DEF ServiceOK, Quiet, AsBefore
  <2> QED
    BY <1>2, <2>3, <2>4, ResumeDoes
<1>4. ASSUME Becomes(Subscribe([svc EXCEPT !.known = TRUE, !.ability = Docs], Now))
      PROVE  ServiceOK(svc', Now)
  <2> DEFINE t == [svc EXCEPT !.known = TRUE, !.ability = Docs]
  <2>1. t \in Service /\ t.known
    BY <1>1 DEF Service
  <2> HIDE DEF t
  <2>2. svc' = Subscribe(t, Now)
    BY <1>4 DEF Becomes, t
  <2> QED
    BY <1>2, <2>1, <2>2, SubscribeDoes DEF Quiet
<1>5. ASSUME Becomes(Subscribe([svc EXCEPT !.ability = IF svc.known THEN Docs
                                                       ELSE LastKnown(Now)], Now))
      PROVE  ServiceOK(svc', Now)
  <2> DEFINE r == IF svc.known THEN Docs ELSE LastKnown(Now)
             t == [svc EXCEPT !.ability = r]
  <2>1. r \in SUBSET Docs
    BY <1>2, LastKnownTyped
  <2> HIDE DEF r
  <2>2. /\ t \in Service /\ t.known = svc.known /\ t.waiting = svc.waiting
        /\ t.runs = svc.runs /\ t.init = svc.init
    BY <1>1, <2>1 DEF Service
  <2> HIDE DEF t
  <2>3. svc' = Subscribe(t, Now)
    BY <1>5 DEF Becomes, t, r
  <2>4. Quiet(t)
    BY <1>1, <2>2 DEF ServiceOK, Quiet
  <2> QED
    BY <1>2, <2>2, <2>3, <2>4, SubscribeDoes
<1> QED
  BY <1>3, <1>4, <1>5 DEF LoadRules

\* The derivations that were waiting are taken out.
LEMMA WaitingGone ==
  ASSUME NEW s \in Service
  PROVE  LET t == [s EXCEPT !.waiting = <<>>]
         IN /\ t \in Service /\ t.init = s.init /\ t.current = s.current
            /\ t.known = s.known /\ t.runs = s.runs /\ t.waiting = <<>>
<1> DEFINE none == <<>>
           t == [s EXCEPT !.waiting = none]
<1>1. none \in Seq(Derivation)
  OBVIOUS
<1> HIDE DEF none
<1>2. /\ t \in Service /\ t.init = s.init /\ t.current = s.current
      /\ t.known = s.known /\ t.runs = s.runs /\ t.waiting = none
  BY <1>1 DEF Service
<1> QED
  BY <1>2 DEF none

\* The user entity is loaded.
LEMMA UserLoadedKeeps ==
  ASSUME ServiceInv, UserLoaded
  PROVE  ServiceOK(svc', [Now EXCEPT !.loaded = TRUE])
<1> DEFINE c == [Now EXCEPT !.loaded = TRUE]
           t == [svc EXCEPT !.waiting = <<>>]
           first == React(t, c)
           last == ApplyAll(first, svc.waiting, c)
<1>1. /\ TypeOK /\ svc \in Service /\ Follows(svc, Now) /\ Quiet(svc)
      /\ session # NoUser /\ ~loaded
  BY DEF ServiceInv, ServiceOK, UserLoaded
<1>2. c \in Context /\ c.user = session /\ c.loaded
  BY <1>1, NowTyped DEF Context
<1>3. svc' = Resume(last, c)
  BY DEF UserLoaded, Becomes
<1> HIDE DEF c
<1>4. /\ t \in Service /\ t.init = svc.init /\ t.current = svc.current
      /\ t.known = svc.known /\ t.runs = svc.runs /\ t.waiting = <<>>
  BY <1>1, WaitingGone
<1> HIDE DEF t
<1>5. Quiet(t)
  BY <1>1, <1>4 DEF Quiet
<1>6. /\ ServiceOK(first, c) /\ first.init = svc.init /\ first.current = svc.current
      /\ first.known = svc.known
  BY <1>2, <1>4, <1>5, ReactDoes
<1> HIDE DEF first
<1>7. /\ KeepsRules(last, first)
      /\ svc.waiting = <<>> => last = first
      /\ svc.waiting # <<>> => last.ability = svc.waiting[Len(svc.waiting)].rules
  BY <1>1, <1>2, <1>6, AllApplied, ServiceFields DEF ServiceOK
<1> HIDE DEF last
<1>8. ServiceOK(last, c)
  <2>1. CASE svc.waiting = <<>>
    BY <2>1, <1>6, <1>7
  <2>2. CASE svc.waiting # <<>>
    <3>1. svc.known
      BY <1>1, <2>2 DEF Quiet
    <3>2. svc.init = "subscribed" => svc.waiting[Len(svc.waiting)].rules = svc.current[session]
      BY <1>1, <3>1, NowTyped DEF Follows
    <3>3. /\ last \in Service /\ last.init = svc.init /\ last.current = svc.current
          /\ last.known
          /\ last.ability = svc.waiting[Len(svc.waiting)].rules
      BY <1>6, <1>7, <2>2, <3>1 DEF KeepsRules
    <3>4. Follows(last, c)
      BY <1>2, <3>2, <3>3 DEF Follows
    <3> QED
      BY <3>3, <3>4 DEF ServiceOK, Quiet, AsBefore
  <2> QED
    BY <2>1, <2>2
<1>9. ServiceOK(svc', c)
  BY <1>2, <1>3, <1>8, ResumeDoes
<1> QED
  BY <1>9 DEF c

\* Somebody logs in or out.
LEMMA SessionKeeps ==
  ASSUME ServiceInv, NEW u \in Users \cup {NoUser}, svc' = React(svc, [Now EXCEPT !.user = u])
  PROVE  ServiceOK(svc', [Now EXCEPT !.user = u])
<1> DEFINE c == [Now EXCEPT !.user = u]
<1>1. TypeOK /\ svc \in Service /\ Quiet(svc)
  BY DEF ServiceInv, ServiceOK
<1>2. c \in Context
  BY <1>1, NowTyped DEF Context
<1> HIDE DEF c
<1>3. ServiceOK(React(svc, c), c)
  BY <1>1, <1>2, ReactDoes
<1> QED
  BY <1>3 DEF c

-----------------------------------------------------------------------------
(***************************************************************************)
(* What the steps of an enforcement do to the service                      *)
(***************************************************************************)

\* There is an enforcement only when the rules are known.
LEMMA RunFacts ==
  ASSUME ServiceInv, NEW k \in DOMAIN svc.runs
  PROVE  /\ TypeOK /\ svc \in Service /\ Now \in Context /\ Follows(svc, Now) /\ svc.known
         /\ svc.runs[k] \in Run /\ svc.runs[k].rules \in SUBSET Docs
         /\ svc.runs[k].todo \in SUBSET Docs /\ svc.runs[k].db \in Users \cup {NoUser}
<1>1. TypeOK /\ svc \in Service /\ Follows(svc, Now) /\ Quiet(svc)
  BY DEF ServiceInv, ServiceOK
<1>2. svc.runs \in Seq(Run) /\ svc.runs # <<>>
  BY <1>1, ServiceFields
<1>3. svc.runs[k] \in Run
  BY <1>2
<1>4. svc.known
  BY <1>1, <1>2 DEF Quiet
<1> QED
  BY <1>1, <1>3, <1>4, NowTyped DEF Run

\* An enforcement has other things to do.
LEMMA GoesOn ==
  ASSUME NEW s \in Service, NEW k \in DOMAIN s.runs,
         NEW pc \in {"check", "first", "syncing", "second"}, NEW todo \in SUBSET Docs,
         NEW c \in Context, Follows(s, c), s.known
  PROVE  LET t == [s EXCEPT !.runs[k].pc = pc, !.runs[k].todo = todo]
         IN ServiceOK(t, c) /\ t.known
<1> DEFINE run == [s.runs[k] EXCEPT !.pc = pc, !.todo = todo]
           runs == [s.runs EXCEPT ![k] = run]
           t == [s EXCEPT !.runs = runs]
<1>1. s.runs \in Seq(Run) /\ s.runs[k] \in Run
  BY ServiceFields
<1>2. run \in Run
  BY <1>1 DEF Run
<1>3. [s EXCEPT !.runs[k].pc = pc, !.runs[k].todo = todo] = t
  BY <1>1 DEF Service, Run
<1> HIDE DEF run
<1>4. ServiceOK(t, c) /\ t.known
  BY <1>2, RunChanges
<1> QED
  BY <1>3, <1>4

\* An enforcement syncs a database.
LEMMA Syncs ==
  ASSUME NEW s \in Service, NEW k \in DOMAIN s.runs, NEW u \in Users,
         NEW c \in Context, Follows(s, c), s.known
  PROVE  ServiceOK([s EXCEPT !.runs[k].pc = "syncing", !.runs[k].db = u], c)
<1> DEFINE run == [s.runs[k] EXCEPT !.pc = "syncing", !.db = u]
           runs == [s.runs EXCEPT ![k] = run]
           t == [s EXCEPT !.runs = runs]
<1>1. s.runs \in Seq(Run) /\ s.runs[k] \in Run
  BY ServiceFields
<1>2. run \in Run
  BY <1>1 DEF Run
<1>3. [s EXCEPT !.runs[k].pc = "syncing", !.runs[k].db = u] = t
  BY <1>1 DEF Service, Run
<1> HIDE DEF run
<1>4. ServiceOK(t, c)
  BY <1>2, RunChanges
<1> QED
  BY <1>3, <1>4

\* A scan purges a type.
LEMMA PurgeTypeKeeps ==
  ASSUME ServiceInv, NEW k \in DOMAIN svc.runs, NEW d \in Docs, PurgeType(k, d)
  PROVE  ServiceOK(svc', Now)
<1> DEFINE todo == svc.runs[k].todo \ {d}
           run == [svc.runs[k] EXCEPT !.todo = todo]
           runs == [svc.runs EXCEPT ![k] = run]
           t == [svc EXCEPT !.runs = runs]
<1>1. /\ TypeOK /\ svc \in Service /\ Now \in Context /\ Follows(svc, Now) /\ svc.known
      /\ svc.runs[k] \in Run /\ todo \in SUBSET Docs
  BY RunFacts
<1>2. run \in Run
  BY <1>1 DEF Run
<1>3. svc' = t
  BY <1>1 DEF Service, Run, PurgeType
<1> HIDE DEF run
<1>4. ServiceOK(t, Now)
  BY <1>1, <1>2, RunChanges
<1> QED
  BY <1>3, <1>4

\* The legacy adapter: a new page, or on with the first pass
LEMMA CheckLegacyKeeps ==
  ASSUME ServiceInv, NEW k \in DOMAIN svc.runs, CheckLegacy(k), NEW c \in Context,
         UNCHANGED <<deviceVars, pageVars>> => c = Now
  PROVE  ServiceOK(svc', c)
<1>1. /\ TypeOK /\ svc \in Service /\ Now \in Context /\ Follows(svc, Now) /\ svc.known
  BY RunFacts
<1>2. CASE svc' = NewPage
  BY <1>2, NewPageOK
<1>3. CASE /\ svc' = [svc EXCEPT !.runs[k].pc = "first", !.runs[k].todo = {}]
           /\ UNCHANGED <<deviceVars, pageVars>>
  BY <1>1, <1>3, GoesOn
<1> QED
  BY <1>2, <1>3 DEF CheckLegacy

\* The sync starts, or is skipped.
LEMMA StartResyncKeeps ==
  ASSUME ServiceInv, NEW k \in DOMAIN svc.runs, StartResync(k)
  PROVE  ServiceOK(svc', Now)
<1>1. /\ TypeOK /\ svc \in Service /\ Now \in Context /\ Follows(svc, Now) /\ svc.known
      /\ svc.runs[k].rules \in SUBSET Docs
  BY RunFacts
<1> DEFINE todo == IF Legacy THEN {} ELSE Docs \ svc.runs[k].rules
<1>2. CASE svc' = [svc EXCEPT !.runs[k].pc = "second", !.runs[k].todo = todo]
  <2>1. todo \in SUBSET Docs
    BY <1>1
  <2> HIDE DEF todo
  <2> QED
    BY <1>1, <1>2, <2>1, GoesOn
<1>3. CASE session # NoUser /\ svc' = [svc EXCEPT !.runs[k].pc = "syncing", !.runs[k].db = session]
  <2>1. session \in Users
    BY <1>1, <1>3 DEF TypeOK
  <2> QED
    BY <1>1, <1>3, <2>1, Syncs
<1> QED
  BY <1>2, <1>3 DEF StartResync

\* The sync is complete.
LEMMA ResyncCompletesKeeps ==
  ASSUME ServiceInv, NEW k \in DOMAIN svc.runs, ResyncCompletes(k)
  PROVE  ServiceOK(svc', Now)
<1> DEFINE todo == IF Legacy THEN {} ELSE Docs \ svc.runs[k].rules
           s == [svc EXCEPT !.runs[k].pc = "second", !.runs[k].todo = todo]
<1>1. /\ TypeOK /\ svc \in Service /\ Now \in Context /\ Follows(svc, Now) /\ svc.known
      /\ todo \in SUBSET Docs
  BY RunFacts
<1>2. serverRules \in RuleVersion
  BY <1>1 DEF TypeOK, RuleVersion
<1>3. svc' = s \/ svc' = RulesUpdated(s, serverRules, Now)
  BY DEF ResyncCompletes, Becomes
<1> HIDE DEF todo
<1>4. ServiceOK(s, Now)
  BY <1>1, GoesOn
<1> HIDE DEF s
<1> QED
  BY <1>1, <1>2, <1>3, <1>4, RulesUpdatedDoes DEF ServiceOK

\* An enforcement ends, without anything being stored or after it.
LEMMA OverKeeps ==
  ASSUME ServiceInv, NEW k \in DOMAIN svc.runs, NEW thrown \in BOOLEAN, NEW c \in Context,
         c.user = session, c.loaded = loaded, svc' = Over(svc, k, thrown, c)
  PROVE  ServiceOK(svc', c)
<1>1. /\ TypeOK /\ svc \in Service /\ Now \in Context /\ Follows(svc, Now) /\ svc.known
  BY RunFacts
<1>2. Follows(svc, c)
  BY <1>1, NowTyped DEF Follows
<1> QED
  BY <1>1, <1>2, OverDoes

-----------------------------------------------------------------------------
(***************************************************************************)
(* The inductive invariant                                                 *)
(***************************************************************************)

\* It holds when the first page opens.
LEMMA ServiceInit == Init => ServiceInv
<1> SUFFICES ASSUME Init PROVE ServiceInv
  OBVIOUS
<1>1. scenario \in Scenarios /\ scenario \in Scenario /\ scenario.rules \subseteq RuleSets
      /\ scenario.syncedBefore \in BOOLEAN
  BY ScenarioAssumption DEF Init, Scenario
<1>2. serverRules \in RuleSets
  BY <1>1 DEF Init
<1>3. \A u \in Users : serverRules[u] \in SUBSET Docs
  BY <1>2, RulesAssumption
<1>4. /\ local \in [Users -> SUBSET Docs] /\ dbRules \in [Users -> RuleVersion]
      /\ synced \in [Users -> BOOLEAN]
  BY <1>1, <1>2, <1>3 DEF Init, RuleVersion
<1>5. stored \in [Users -> {{}} \cup {{r} : r \in SUBSET Docs}]
  BY <1>3 DEF Init
<1>6. svc \in Service /\ svc = NewPage
  <2>1. AllowAll \in RuleVersion /\ <<>> \in Seq(Derivation) /\ <<>> \in Seq(Run)
    BY DEF RuleVersion
  <2> QED
    BY <2>1 DEF Init, NewPage, Service
<1>7. TypeOK
  BY <1>1, <1>2, <1>4, <1>5, <1>6 DEF Init, TypeOK
<1>8. Now \in Context
  BY <1>7, NowTyped
<1> QED
  BY <1>6, <1>7, <1>8, NewPageOK DEF ServiceInv

\* What the service reads after a step that leaves the session and the stored rules alone
LEMMA NowUnchanged ==
  ASSUME UNCHANGED <<session, loaded, stored>>
  PROVE  Now' = Now
  BY DEF Now

\* What is counted stays a number.
LEMMA Counted ==
  ASSUME TypeOK
  PROVE  (UseFault => faults' \in Nat) /\ (UseSession => sessions' \in Nat)
  BY DEF TypeOK, UseFault, UseSession

\* Once it is known what a step does to the service, the types are easily kept.
LEMMA PageTyped ==
  ASSUME TypeOK, svc' \in Service, UNCHANGED scenario,
         Page \/ Environment \/ LiveSync
  PROVE  TypeOK'
<1>1. CASE LoadRules
  <2>1. faults' \in Nat
    BY <1>1, Counted DEF LoadRules, TypeOK
  <2> QED
    BY <1>1, <2>1 DEF LoadRules, TypeOK, deviceVars, pageVars
<1>2. CASE UserLoaded
  BY <1>2 DEF UserLoaded, TypeOK, deviceVars, budgetVars
<1>3. ASSUME NEW u \in scenario.users, LogIn(u) PROVE TypeOK'
  <2>1. u \in Users
    BY ScenarioAssumption DEF TypeOK, Scenario
  <2>2. sessions' \in Nat
    BY <1>3, Counted DEF LogIn
  <2> QED
    BY <1>3, <2>1, <2>2 DEF LogIn, TypeOK, deviceVars
<1>4. CASE LogOut
  BY <1>4 DEF LogOut, TypeOK, deviceVars, budgetVars
<1>5. CASE PageLoad
  <2>1. sessions' \in Nat
    BY <1>5, Counted DEF PageLoad
  <2> QED
    BY <1>5, <2>1 DEF PageLoad, TypeOK, deviceVars
<1>6. CASE ServerRulesChange
  <2>1. scenario.rules \subseteq RuleSets
    BY ScenarioAssumption DEF TypeOK, Scenario
  <2> QED
    BY <1>6, <2>1 DEF ServerRulesChange, TypeOK, deviceVars, pageVars
<1>7. CASE GoOffline \/ GoOnline
  <2>1. faults' \in Nat
    BY <1>7, Counted DEF GoOffline, GoOnline, TypeOK, budgetVars
  <2> QED
    BY <1>7, <2>1 DEF GoOffline, GoOnline, TypeOK, deviceVars, pageVars, budgetVars
<1>8. CASE LiveSync
  <2>1. serverRules \in RuleVersion /\ session \in Users /\ serverRules[session] \in SUBSET Docs
    BY <1>8, RulesAssumption DEF LiveSync, TypeOK, RuleVersion
  <2>2. /\ dbRules' \in [Users -> RuleVersion] /\ synced' \in [Users -> BOOLEAN]
        /\ local' \in [Users -> SUBSET Docs]
    BY <1>8, <2>1 DEF LiveSync, TypeOK
  <2> QED
    BY <1>8, <2>2 DEF LiveSync, TypeOK, pageVars, budgetVars
<1> QED
  BY <1>1, <1>2, <1>3, <1>4, <1>5, <1>6, <1>7, <1>8 DEF Page, Environment

\* So are they by the steps of an enforcement.
LEMMA RunTyped ==
  ASSUME ServiceInv, svc' \in Service, UNCHANGED scenario, NEW k \in DOMAIN svc.runs, RunStep(k)
  PROVE  TypeOK'
<1>1. /\ TypeOK /\ svc.runs[k].rules \in SUBSET Docs /\ svc.runs[k].db \in Users \cup {NoUser}
  BY RunFacts
<1>2. ASSUME NEW d \in Docs, PurgeType(k, d) PROVE TypeOK'
  <2>1. local' \in [Users -> SUBSET Docs]
    BY <1>1, <1>2 DEF PurgeType, TypeOK
  <2> QED
    BY <1>1, <1>2, <2>1 DEF PurgeType, RunOnly, TypeOK, pageVars, UseFault
<1>3. CASE ScanFails(k)
  BY <1>1, <1>3 DEF ScanFails, RunOnly, TypeOK, deviceVars, pageVars, UseFault
<1>4. CASE CheckLegacy(k)
  <2>1. CASE UNCHANGED <<deviceVars, pageVars>>
    BY <1>1, <1>4, <2>1 DEF CheckLegacy, TypeOK, deviceVars, pageVars, budgetVars
  <2>2. CASE /\ session # NoUser
             /\ local' = [local EXCEPT ![session] = {}]
             /\ dbRules' = [dbRules EXCEPT ![session] = AllowAll]
             /\ synced' = [synced EXCEPT ![session] = FALSE]
             /\ stored' = [stored EXCEPT ![session] = {svc.runs[k].rules}]
             /\ session' = NoUser /\ loaded' = FALSE /\ setupCompleted' = FALSE
    <3>1. /\ local' \in [Users -> SUBSET Docs] /\ dbRules' \in [Users -> RuleVersion]
          /\ synced' \in [Users -> BOOLEAN]
          /\ stored' \in [Users -> {{}} \cup {{r} : r \in SUBSET Docs}]
      BY <1>1, <2>2 DEF TypeOK, RuleVersion
    <3> QED
      BY <1>1, <1>4, <2>2, <3>1 DEF CheckLegacy, TypeOK, budgetVars
  <2> QED
    BY <1>4, <2>1, <2>2 DEF CheckLegacy
<1>5. CASE StartResync(k)
  BY <1>1, <1>5 DEF StartResync, TypeOK, deviceVars, pageVars, budgetVars
<1>6. CASE ResyncCompletes(k)
  <2>1. serverRules \in RuleVersion
    BY <1>1 DEF TypeOK, RuleVersion
  <2> DEFINE u == svc.runs[k].db
  <2>2. serverRules[u] \in SUBSET Docs
    BY <1>1, <2>1, RulesTyped
  <2> HIDE DEF u
  <2>3. \/ local' = [local EXCEPT ![u] = IF Legacy THEN local[u] \cup serverRules[u]
                                         ELSE serverRules[u]]
        \/ local' = [local EXCEPT ![u] = Docs]
    BY <1>6 DEF ResyncCompletes, u
  <2>4. local' \in [Users -> SUBSET Docs]
    BY <1>1, <2>2, <2>3 DEF TypeOK
  <2>5. dbRules' \in [Users -> RuleVersion] /\ synced' \in [Users -> BOOLEAN]
    BY <1>1, <1>6, <2>1 DEF TypeOK, ResyncCompletes
  <2> QED
    BY <1>1, <1>6, <2>4, <2>5 DEF ResyncCompletes, RunOnly, TypeOK, pageVars, UseFault
<1>7. CASE ResyncFails(k)
  BY <1>1, <1>7 DEF ResyncFails, RunOnly, TypeOK, deviceVars, pageVars, UseFault
<1>8. CASE Store(k)
  <2>1. stored' \in [Users -> {{}} \cup {{r} : r \in SUBSET Docs}]
    BY <1>1, <1>8 DEF Store, TypeOK
  <2> QED
    BY <1>1, <1>8, <2>1 DEF Store, RunOnly, TypeOK, pageVars
<1> QED
  BY <1>2, <1>3, <1>4, <1>5, <1>6, <1>7, <1>8 DEF RunStep

\* Every step of the page, of the environment and of the live sync keeps it.
LEMMA PageKeeps ==
  ASSUME ServiceInv, UNCHANGED scenario, Page \/ Environment \/ LiveSync
  PROVE  ServiceOK(svc, Now)'
<1>1. /\ TypeOK /\ ServiceOK(svc, Now) /\ svc \in Service /\ Now \in Context
  BY NowTyped DEF ServiceInv, ServiceOK
<1>2. CASE LoadRules
  BY <1>2, LoadRulesKeeps, NowUnchanged DEF LoadRules, deviceVars, pageVars
<1>3. CASE UserLoaded
  <2>1. Now' = [Now EXCEPT !.loaded = TRUE]
    <3>1. [user |-> session', loaded |-> loaded', stored |-> stored']
              = [user |-> session, loaded |-> TRUE, stored |-> stored]
      BY <1>3, Zenon DEF UserLoaded, deviceVars
    <3>2. \A u, l, r, x : [[user |-> u, loaded |-> l, stored |-> r] EXCEPT !.loaded = x]
              = [user |-> u, loaded |-> x, stored |-> r]
      OBVIOUS
    <3>3. [[user |-> session, loaded |-> loaded, stored |-> stored] EXCEPT !.loaded = TRUE]
              = [user |-> session, loaded |-> TRUE, stored |-> stored]
      BY <3>2, Zenon
    <3> QED
      BY <3>1, <3>3, Zenon DEF Now
  <2> QED
    BY <1>3, <2>1, UserLoadedKeeps
<1>4. ASSUME NEW u \in scenario.users, LogIn(u) PROVE ServiceOK(svc, Now)'
  <2>1. u \in Users
    BY <1>1, ScenarioAssumption DEF TypeOK, Scenario
  <2>2. Now' = [Now EXCEPT !.user = u]
    BY <1>4 DEF LogIn, Now, deviceVars
  <2>3. svc' = React(svc, [Now EXCEPT !.user = u])
    BY <1>4 DEF LogIn, Becomes
  <2> QED
    BY <2>1, <2>2, <2>3, SessionKeeps
<1>5. CASE LogOut
  <2> DEFINE c == [Now EXCEPT !.user = NoUser]
  <2>1. svc' = React(svc, c)
    BY <1>5 DEF LogOut, Becomes
  <2>2. ServiceOK(svc', c) /\ c.user = NoUser
    BY <2>1, SessionKeeps, <1>1 DEF Context
  <2>3. Now'.user = NoUser /\ Now'.stored = stored /\ c.stored = stored
    BY <1>5 DEF LogOut, Now, deviceVars
  <2> HIDE DEF c
  <2>4. ServiceOK(svc', Now')
    BY <2>2, <2>3 DEF ServiceOK, Follows, AsBefore, LastKnown
  <2> QED
    BY <2>4
<1>6. CASE PageLoad
  <2>1. svc' = NewPage
    BY <1>6 DEF PageLoad
  <2>2. Now' \in Context
    BY <1>1, <1>6 DEF PageLoad, Now, Context, Stored, TypeOK, deviceVars
  <2> QED
    BY <2>1, <2>2, NewPageOK
<1>7. CASE Environment
  BY <1>1, <1>7, NowUnchanged
     DEF Environment, ServerRulesChange, GoOffline, GoOnline, deviceVars, pageVars
<1>8. CASE LiveSync
  <2>1. serverRules \in RuleVersion
    BY <1>1 DEF TypeOK, RuleVersion
  <2>2. svc' = RulesUpdated(svc, serverRules, Now)
    BY <1>8 DEF LiveSync, Becomes
  <2>3. Now' = Now
    BY <1>8, NowUnchanged DEF LiveSync, pageVars
  <2> QED
    BY <1>1, <2>1, <2>2, <2>3, RulesUpdatedDoes
<1> QED
  BY <1>2, <1>3, <1>4, <1>5, <1>6, <1>7, <1>8 DEF Page

\* So does every step of an enforcement.
LEMMA RunKeeps ==
  ASSUME ServiceInv, NEW k \in DOMAIN svc.runs, RunStep(k)
  PROVE  ServiceOK(svc, Now)'
<1>1. /\ TypeOK /\ Now.user = session /\ Now.loaded = loaded
  BY NowTyped DEF ServiceInv
<1>2. ASSUME NEW d \in Docs, PurgeType(k, d) PROVE ServiceOK(svc, Now)'
  BY <1>2, PurgeTypeKeeps, NowUnchanged DEF PurgeType, RunOnly, pageVars
<1>3. CASE ScanFails(k)
  <2>1. svc' = Over(svc, k, TRUE, Now)
    BY <1>3 DEF ScanFails, Becomes
  <2>2. Now' = Now
    BY <1>3, NowUnchanged DEF ScanFails, RunOnly, deviceVars, pageVars
  <2> QED
    BY <1>1, <2>1, <2>2, OverKeeps, RunFacts
<1>4. CASE CheckLegacy(k)
  <2>1. Now' \in Context
    <3>1. CASE UNCHANGED <<deviceVars, pageVars>>
      BY <3>1, RunFacts, NowUnchanged DEF deviceVars, pageVars
    <3>2. CASE /\ session # NoUser
               /\ stored' = [stored EXCEPT ![session] = {svc.runs[k].rules}]
               /\ session' = NoUser /\ loaded' = FALSE
      <4>1. svc.runs[k].rules \in SUBSET Docs
        BY RunFacts
      <4>2. stored' \in Stored
        BY <1>1, <3>2, <4>1 DEF TypeOK, Stored
      <4> QED
        BY <3>2, <4>2 DEF Now, Context
    <3> QED
      BY <1>4, <3>1, <3>2 DEF CheckLegacy
  <2>2. UNCHANGED <<deviceVars, pageVars>> => Now' = Now
    BY NowUnchanged DEF deviceVars, pageVars
  <2> QED
    BY <1>4, <2>1, <2>2, CheckLegacyKeeps
<1>5. CASE StartResync(k)
  BY <1>5, StartResyncKeeps, NowUnchanged DEF StartResync, deviceVars, pageVars
<1>6. CASE ResyncCompletes(k)
  BY <1>6, ResyncCompletesKeeps, NowUnchanged DEF ResyncCompletes, RunOnly, pageVars
<1>7. CASE ResyncFails(k)
  <2>1. svc' = Over(svc, k, FALSE, Now)
    BY <1>7 DEF ResyncFails, Becomes
  <2>2. Now' = Now
    BY <1>7, NowUnchanged DEF ResyncFails, RunOnly, deviceVars, pageVars
  <2> QED
    BY <1>1, <2>1, <2>2, OverKeeps, RunFacts
<1>8. CASE Store(k)
  <2> DEFINE c == [Now EXCEPT !.stored = stored']
  <2>1. svc' = Over(svc, k, session = NoUser, c) /\ (session = NoUser) \in BOOLEAN
    BY <1>8 DEF Store, Becomes
  <2>2. svc.runs[k].rules \in SUBSET Docs
    BY RunFacts
  <2>3. stored' \in Stored
    BY <1>1, <1>8, <2>2 DEF Store, TypeOK, Stored
  <2>4. Now' = c
    BY <1>8 DEF Store, RunOnly, pageVars, Now
  <2>5. c \in Context /\ c.user = session /\ c.loaded = loaded
    BY <1>1, <2>3 DEF Now, Context, TypeOK
  <2> HIDE DEF c
  <2>6. ServiceOK(svc', c)
    BY <2>1, <2>5, OverKeeps
  <2> QED
    BY <2>4, <2>6
<1> QED
  BY <1>2, <1>3, <1>4, <1>5, <1>6, <1>7, <1>8 DEF RunStep

\* The invariant holds of every state.
LEMMA ServiceInvariant == Spec => []ServiceInv
<1>1. ServiceInv /\ [Next]_vars => ServiceInv'
  <2> SUFFICES ASSUME ServiceInv, [Next]_vars PROVE ServiceInv'
    OBVIOUS
  <2>1. CASE UNCHANGED vars
    BY <2>1 DEF ServiceInv, TypeOK, ServiceOK, Follows, AsBefore, Quiet, Now, LastKnown,
                vars, deviceVars, pageVars, budgetVars
  <2>2. ASSUME Page \/ Environment \/ LiveSync, UNCHANGED scenario PROVE ServiceInv'
    <3>1. ServiceOK(svc, Now)'
      BY <2>2, PageKeeps
    <3>2. svc' \in Service /\ TypeOK
      BY <3>1 DEF ServiceInv, ServiceOK
    <3> QED
      BY <2>2, <3>1, <3>2, PageTyped DEF ServiceInv
  <2>3. ASSUME NEW k \in DOMAIN svc.runs, RunStep(k), UNCHANGED scenario PROVE ServiceInv'
    <3>1. ServiceOK(svc, Now)'
      BY <2>3, RunKeeps
    <3>2. svc' \in Service
      BY <3>1 DEF ServiceOK
    <3> QED
      BY <2>3, <3>1, <3>2, RunTyped DEF ServiceInv
  <2> QED
    BY <2>1, <2>2, <2>3 DEF Next
<1> QED
  BY <1>1, ServiceInit, PTL DEF Spec

-----------------------------------------------------------------------------
(***************************************************************************)
(* The theorems                                                            *)
(***************************************************************************)

\* The types hold: also the rules that are stored, and those of derivations and
\* enforcements that are still under way, are sets of rules of somebody.
THEOREM TypeCorrect == Spec => []TypeOK
<1>1. ServiceInv => TypeOK
  BY DEF ServiceInv
<1> QED
  BY <1>1, ServiceInvariant, PTL

\* Once the subscription is there, permissions follow the latest known rules for whoever
\* is logged in, for any users, rules, scenarios and any number of enforcements.
THEOREM AbilityCorrect == Spec => []AbilityFollowsRules
<1>1. ServiceInv => AbilityFollowsRules
  BY NowTyped DEF ServiceInv, ServiceOK, Follows, AbilityFollowsRules
<1> QED
  BY <1>1, ServiceInvariant, PTL

\* While the rules could not be loaded, nobody gets more than was enforced last, and
\* nothing is enforced.
THEOREM UnknownRulesCorrect == Spec => []UnknownRulesStayAsTheyWere
<1>1. ServiceInv => UnknownRulesStayAsTheyWere
  <2> SUFFICES ASSUME ServiceInv PROVE UnknownRulesStayAsTheyWere
    OBVIOUS
  <2>1. /\ Now \in Context /\ Now.user = session /\ Now.stored = stored
        /\ Quiet(svc) /\ AsBefore(svc, Now)
    BY NowTyped DEF ServiceInv, ServiceOK
  <2>2. session # NoUser /\ stored[session] # {} => LastKnown(Now) \in stored[session]
    BY <2>1, LastKnownTyped
  <2> QED
    BY <2>1, <2>2 DEF Quiet, AsBefore, UnknownRulesStayAsTheyWere
<1> QED
  BY <1>1, ServiceInvariant, PTL

-----------------------------------------------------------------------------
(***************************************************************************)
(* EnforcedMeansEnforced, for a device with one user that has been synced, *)
(* when the rules change once and nothing fails but pages: they may be     *)
(* loaded again, and sessions end, at any moment and any number of times.  *)
(* On the legacy adapter the public may not read more than the user: its   *)
(* check asks the ability, which is the public one between two logins.     *)
(***************************************************************************)
LessForPublic(rules, u) == rules[NoUser] \subseteq rules[u]

Undisturbed(u) ==
    /\ scenario.users = {u} /\ scenario.syncedBefore
    /\ Legacy => \A rules \in scenario.rules : LessForPublic(rules, u)
    /\ changes <= 1 /\ faults = 0

\* What the server and the device have for a user, and whether the rules are still those
\* that were stored as enforced in the beginning
Device(u) ==
    [legacy |-> Legacy, before |-> changes = 0, server |-> serverRules[u],
     db |-> dbRules[u][u], local |-> local[u], stored |-> stored[u]]

\* The rules the server has for the user; or, on a legacy database that was destroyed
\* and does not know any, the permission of everything.
Fine(x, r) == r = x.server \/ (x.legacy /\ r = Docs /\ x.local \subseteq x.server)

\* Those, or the ones from before the change, which are stored as enforced
Okay(x, r) == Fine(x, r) \/ x.stored = {r}

\* What the device holds.  A database without a checkpoint was destroyed.
DeviceOK(u) ==
    /\ online /\ session \in {u, NoUser}
    /\ serverRules \in scenario.rules
    /\ Legacy => LessForPublic(dbRules[u], u)
    /\ ~synced[u] \/ dbRules[u] = AllowAll => Legacy /\ local[u] \subseteq serverRules[u]
    /\ synced[u] /\ stored[u] = {serverRules[u]} => local[u] = serverRules[u]
    /\ changes = 0 => stored[u] = {serverRules[u]} /\ synced[u] /\ dbRules[u] = serverRules

\* News of the rules reach the database first, then the service,
CurrentOK(s, x, u) ==
    /\ Okay(x, x.db)
    /\ x.legacy => LessForPublic(s.current, u)
    /\ IF s.known THEN Okay(x, s.current[u]) ELSE s.current = AllowAll
    /\ s.known /\ ~Fine(x, x.db) => x.stored = {s.current[u]}

\* then what waits.
WaitsOK(s, x, u, r) == Okay(x, r) /\ (Fine(x, s.current[u]) \/ x.stored = {r})
WaitingOK(s, x, u) == \A i \in DOMAIN s.waiting : WaitsOK(s, x, u, s.waiting[i].rules)

\* An enforcement takes away nothing that the user may read, and has the exact data
\* at hand once its sync is complete.
RunOK(x, u, r) ==
    /\ Fine(x, r.rules)
    /\ r.pc = "syncing" => r.db = u
    /\ r.pc = "second" => x.local = x.server
    /\ r.pc = "check" => x.legacy /\ r.todo = Docs \ r.rules
    /\ r.pc # "check" => IF x.legacy THEN r.todo = {} /\ x.local \subseteq x.server
                         ELSE r.todo \cap x.server = {}

\* As long as one is under way, there are no news it does not know of.
RunsOK(s, x, u) ==
    s.runs # <<>> =>
        /\ \A j \in DOMAIN s.runs : RunOK(x, u, s.runs[j])
        /\ s.known /\ Fine(x, x.db) /\ Fine(x, s.current[u])
        /\ \A i \in DOMAIN s.waiting : Fine(x, s.waiting[i].rules)
        /\ x.legacy => s.ability \subseteq x.server \/ x.local \subseteq x.server

\* Before the rules change nothing is enforced, as everything is.
BeforeOK(s, x, u) ==
    x.before =>
        /\ x.stored = {x.server} /\ s.runs = <<>> /\ (s.known => s.current[u] = x.server)
        /\ \A i \in DOMAIN s.waiting : s.waiting[i].rules = x.server

Fits(s, x, u) ==
    CurrentOK(s, x, u) /\ WaitingOK(s, x, u) /\ RunsOK(s, x, u) /\ BeforeOK(s, x, u)

\* Only initializeRules() makes an initial derivation, whose enforcement is then the
\* only one.
StartOK(s, wait) ==
    /\ ~wait => s.waiting = <<>>
    /\ s.init \in {"loading", "dead"} => s.waiting = <<>>
    /\ s.init = "loading" => s.runs = <<>>
    /\ s.init = "initial" => Len(s.waiting) + Len(s.runs) <= 1
    /\ s.init # "initial" => ~Initial(s.waiting) /\ ~Initial(s.runs)

\* It is still under way.
Starting(s) == s.init = "initial" => Initial(s.waiting) \/ Initial(s.runs)

EnforcedNow(u) ==
    DeviceOK(u) /\ Fits(svc, Device(u), u) /\ StartOK(svc, ~loaded) /\ Starting(svc)

EnforcedInv(u) == Undisturbed(u) => EnforcedNow(u)

\* Another ability
LEMMA AbilityFits ==
  ASSUME NEW s, NEW t, NEW x, NEW u, Fits(s, x, u),
         t.current = s.current, t.known = s.known, t.waiting = s.waiting, t.runs = s.runs,
         s.runs # <<>> /\ x.legacy => t.ability \subseteq x.server \/ x.local \subseteq x.server
  PROVE  Fits(t, x, u)
<1>1. CurrentOK(t, x, u) /\ BeforeOK(t, x, u)
  BY DEF Fits, CurrentOK, BeforeOK
<1>2. WaitingOK(t, x, u)
  BY DEF Fits, WaitingOK, WaitsOK
<1>3. RunsOK(t, x, u)
  BY DEF Fits, RunsOK
<1> QED
  BY <1>1, <1>2, <1>3 DEF Fits

\* An enforcement that begins leaves alone what the user may read.
LEMMA BegunOK ==
  ASSUME NEW x, NEW u, NEW r, NEW initial, x.legacy \in BOOLEAN, Fine(x, r)
  PROVE  RunOK(x, u, Begun(x.legacy, r, initial))
  BY DEF RunOK, Begun, Fine

\* Rules out of a set R have been applied, among them the last ones waiting.
LEMMA AppliedFit ==
  ASSUME NEW s \in Service, NEW t \in Service, NEW x, NEW u, Fits(s, x, u), s.known, t.known,
         x.legacy \in BOOLEAN, t.current = s.current, t.waiting = <<>>,
         NEW R, \A r \in R : WaitsOK(s, x, u, r) /\ (x.before => r = x.server),
         \A j \in DOMAIN t.runs :
            \/ j \in DOMAIN s.runs /\ t.runs[j] = s.runs[j]
            \/ \E r \in R, i \in BOOLEAN :
                  t.runs[j] = Begun(x.legacy, r, i) /\ x.stored # {r},
         t.runs # <<>> => Fine(x, t.ability)
  PROVE  Fits(t, x, u)
<1>1. CurrentOK(t, x, u)
  BY DEF Fits, CurrentOK
<1>2. WaitingOK(t, x, u)
  BY DEF WaitingOK
<1>3. t.runs \in Seq(Run) /\ s.runs \in Seq(Run)
  BY ServiceFields
<1>4. \A j \in DOMAIN t.runs :
         RunOK(x, u, t.runs[j]) /\ Fine(x, s.current[u]) /\ Fine(x, x.db) /\ ~x.before
  <2> SUFFICES ASSUME NEW j \in DOMAIN t.runs
               PROVE  RunOK(x, u, t.runs[j]) /\ Fine(x, s.current[u]) /\ Fine(x, x.db) /\ ~x.before
    OBVIOUS
  <2>1. CASE j \in DOMAIN s.runs /\ t.runs[j] = s.runs[j]
    <3>1. s.runs # <<>>
      BY <2>1
    <3>2. RunOK(x, u, s.runs[j]) /\ Fine(x, s.current[u]) /\ Fine(x, x.db)
      BY <2>1, <3>1 DEF Fits, RunsOK
    <3>3. ~x.before
      BY <3>1 DEF Fits, BeforeOK
    <3> QED
      BY <2>1, <3>2, <3>3
  <2>2. ASSUME NEW r \in R, NEW i \in BOOLEAN,
               t.runs[j] = Begun(x.legacy, r, i), x.stored # {r}
        PROVE  RunOK(x, u, t.runs[j]) /\ Fine(x, s.current[u]) /\ Fine(x, x.db) /\ ~x.before
    <3>1. Fine(x, r) /\ Fine(x, s.current[u])
      BY <2>2 DEF WaitsOK, Okay
    <3>2. Fine(x, x.db)
      <4>1. SUFFICES ASSUME ~Fine(x, x.db) PROVE FALSE
        OBVIOUS
      <4>2. x.stored = {s.current[u]} /\ x.stored = {x.db}
        BY <4>1 DEF Fits, CurrentOK, Okay
      <4>3. x.db = s.current[u]
        BY <4>2
      <4> QED
        BY <3>1, <4>1, <4>3
    <3>3. ~x.before
      BY <2>2 DEF Fits, BeforeOK
    <3>4. RunOK(x, u, Begun(x.legacy, r, i))
      BY <3>1, BegunOK
    <3>5. RunOK(x, u, t.runs[j])
      BY <2>2, <3>4, Zenon
    <3> QED
      BY <3>1, <3>2, <3>3, <3>5
  <2> QED
    BY <2>1, <2>2
<1>5. t.runs # <<>> => 1 \in DOMAIN t.runs
  BY <1>3
<1>6. RunsOK(t, x, u)
  <2>1. t.runs # <<>> /\ x.legacy => t.ability \subseteq x.server \/ x.local \subseteq x.server
    BY DEF Fine
  <2> QED
    BY <1>4, <1>5, <2>1 DEF RunsOK
<1>7. BeforeOK(t, x, u)
  BY <1>4, <1>5 DEF Fits, BeforeOK
<1> QED
  BY <1>1, <1>2, <1>6, <1>7 DEF Fits

-----------------------------------------------------------------------------
(***************************************************************************)
(* Derivations and reactions on this device                                *)
(***************************************************************************)

\* The service reads what the device x has stored, for u or without a session.
Reads(c, x, u) ==
    c.user \in {u, NoUser} /\ c.stored[u] = x.stored /\ x.legacy = Legacy

LEMMA ReadsLegacy ==
  ASSUME NEW c, NEW x, NEW u, Reads(c, x, u)
  PROVE  x.legacy \in BOOLEAN /\ x.legacy = Legacy
  BY DEF Reads, Legacy

\* The rules that are derived
Derived(s, c, initial) == [rules |-> s.current[c.user], initial |-> initial]

\* A derivation starts at most one enforcement, or waits.
LEMMA DeriveGrows ==
  ASSUME NEW s \in Service, NEW initial \in BOOLEAN, NEW c \in Context
  PROVE  LET t == Derive(s, initial, c)
         IN \/ t.waiting = s.waiting /\ t.runs = s.runs
            \/ t.waiting = s.waiting /\ c.user # NoUser /\ c.loaded
               /\ t.runs = Append(s.runs, Begun(Legacy, s.current[c.user], initial))
            \/ ~c.loaded /\ t.waiting = Append(s.waiting, Derived(s, c, initial))
               /\ t.runs = s.runs
<1> DEFINE r == s.current[c.user]
<1>1. r \in SUBSET Docs
  BY ServiceFields, ContextFields, RulesTyped
<1>2. CASE c.user = NoUser
  <2>1. Derive(s, initial, c) = [s EXCEPT !.ability = r]
    BY <1>2 DEF Derive
  <2> HIDE DEF r
  <2> QED
    BY <2>1 DEF Service
<1>3. CASE c.user # NoUser /\ c.loaded
  <2>1. Derive(s, initial, c) = Apply(s, r, initial, c)
    BY <1>3 DEF Derive
  <2>2. KeepsRules(Apply(s, r, initial, c), s)
        /\ Apply(s, r, initial, c).runs = With(s, r, initial, c)
    BY <1>1, ApplyDoes
  <2> QED
    BY <1>3, <2>1, <2>2 DEF KeepsRules, With
<1>4. CASE c.user # NoUser /\ ~c.loaded
  <2> DEFINE waiting == Append(s.waiting, Derived(s, c, initial))
  <2>1. Derive(s, initial, c) = [s EXCEPT !.waiting = waiting]
    BY <1>4 DEF Derive, Derived
  <2> HIDE DEF waiting
  <2>2. [s EXCEPT !.waiting = waiting].waiting = waiting
        /\ [s EXCEPT !.waiting = waiting].runs = s.runs
    BY DEF Service
  <2> QED
    BY <1>4, <2>1, <2>2 DEF waiting
<1> QED
  BY <1>2, <1>3, <1>4

\* Whoever is logged in, a derivation fits.
LEMMA DeriveFits ==
  ASSUME NEW s \in Service, NEW initial \in BOOLEAN, NEW c \in Context, NEW u \in Users, NEW x,
         Reads(c, x, u), Fits(s, x, u), s.known, c.loaded => s.waiting = <<>>
  PROVE  Fits(Derive(s, initial, c), x, u)
<1> DEFINE r == s.current[c.user]
<1>1. r \in SUBSET Docs /\ s.waiting \in Seq(Derivation)
  BY ServiceFields, ContextFields, RulesTyped
<1>2. x.legacy \in BOOLEAN /\ x.legacy = Legacy /\ u # NoUser
  BY ReadsLegacy, RulesAssumption
<1>3. CASE c.user = NoUser
  <2>1. Derive(s, initial, c) = [s EXCEPT !.ability = r]
    BY <1>3 DEF Derive
  <2> DEFINE t == [s EXCEPT !.ability = r]
  <2>2. s.runs # <<>> /\ x.legacy => r \subseteq x.server \/ x.local \subseteq x.server
    <3>1. s.runs # <<>> /\ x.legacy => r \subseteq s.current[u] /\ Fine(x, s.current[u])
      BY <1>3 DEF Fits, CurrentOK, RunsOK, LessForPublic
    <3> HIDE DEF r
    <3> QED
      BY <3>1 DEF Fine
  <2> HIDE DEF r
  <2>3. /\ t.current = s.current /\ t.known = s.known /\ t.waiting = s.waiting
        /\ t.runs = s.runs /\ t.ability = r
    BY DEF Service
  <2> HIDE DEF t
  <2>4. Fits(t, x, u)
    BY <2>2, <2>3, AbilityFits
  <2> QED
    BY <2>1, <2>4 DEF t
<1> DEFINE now == s.current[u]
<1>4. WaitsOK(s, x, u, now) /\ (x.before => now = x.server)
  BY DEF Fits, CurrentOK, WaitsOK, BeforeOK, Okay
<1>5. CASE c.user = u /\ c.loaded
  <2> DEFINE t == Apply(s, r, initial, c)
  <2>1. Derive(s, initial, c) = t
    BY <1>2, <1>5 DEF Derive
  <2>2. KeepsRules(t, s) /\ t.ability = r /\ t.runs = With(s, r, initial, c)
    BY <1>1, ApplyDoes
  <2> HIDE DEF t
  <2>3. r = now /\ s.waiting = <<>>
    BY <1>5
  <2>4. t.runs = s.runs
        \/ (t.runs = Append(s.runs, Begun(x.legacy, now, initial)) /\ x.stored # {now})
    BY <1>2, <1>5, <2>2, <2>3 DEF With, Reads
  <2> HIDE DEF now, r
  <2>5. s.runs \in Seq(Run)
    BY ServiceFields
  <2>6. \A j \in DOMAIN t.runs :
           \/ j \in DOMAIN s.runs /\ t.runs[j] = s.runs[j]
           \/ t.runs[j] = Begun(x.legacy, now, initial) /\ x.stored # {now}
    <3>1. CASE t.runs = s.runs
      BY <3>1
    <3>2. CASE t.runs = Append(s.runs, Begun(x.legacy, now, initial)) /\ x.stored # {now}
      BY <3>2, <2>5
    <3> QED
      BY <2>4, <3>1, <3>2
  <2>7. t.runs # <<>> => Fine(x, t.ability)
    <3>1. s.runs # <<>> => Fine(x, now)
      BY DEF Fits, RunsOK, now
    <3>2. x.stored # {now} => Fine(x, now)
      BY <1>4 DEF WaitsOK, Okay
    <3> QED
      BY <2>2, <2>3, <2>4, <3>1, <3>2
  <2> DEFINE R == {now}
  <2>8. \A q \in R : WaitsOK(s, x, u, q) /\ (x.before => q = x.server)
    BY <1>4
  <2>9. t \in Service /\ t.known /\ t.current = s.current /\ t.waiting = <<>>
    BY <2>2, <2>3 DEF KeepsRules
  <2>10. \A j \in DOMAIN t.runs :
           \/ j \in DOMAIN s.runs /\ t.runs[j] = s.runs[j]
           \/ \E q \in R, i \in BOOLEAN :
                 t.runs[j] = Begun(x.legacy, q, i) /\ x.stored # {q}
    BY <2>6
  <2> HIDE DEF R
  <2>11. Fits(t, x, u)
    BY <1>2, <2>7, <2>8, <2>9, <2>10, AppliedFit
  <2> QED
    BY <2>1, <2>11
<1>6. CASE c.user = u /\ ~c.loaded
  <2> DEFINE d == [rules |-> now, initial |-> initial]
             waiting == Append(s.waiting, d)
             t == [s EXCEPT !.waiting = waiting]
  <2>1. Derive(s, initial, c) = t
    BY <1>2, <1>6 DEF Derive
  <2>2. d.rules = now
    OBVIOUS
  <2> HIDE DEF d
  <2>3. \A i \in DOMAIN waiting :
           waiting[i].rules = now \/ (i \in DOMAIN s.waiting /\ waiting[i] = s.waiting[i])
    BY <1>1, <2>2
  <2> HIDE DEF waiting
  <2>4. /\ t.current = s.current /\ t.known = s.known /\ t.waiting = waiting
        /\ t.runs = s.runs /\ t.ability = s.ability
    BY DEF Service
  <2> HIDE DEF t
  <2>5. CurrentOK(t, x, u)
    BY <2>4 DEF Fits, CurrentOK
  <2>6. WaitingOK(t, x, u)
    <3>1. \A q : WaitsOK(s, x, u, q) => WaitsOK(t, x, u, q)
      BY <2>4 DEF WaitsOK
    <3>2. \A i \in DOMAIN waiting : WaitsOK(s, x, u, waiting[i].rules)
      BY <1>4, <2>3 DEF Fits, WaitingOK
    <3> QED
      BY <2>4, <3>1, <3>2 DEF WaitingOK
  <2>7. RunsOK(t, x, u)
    BY <2>3, <2>4 DEF Fits, RunsOK
  <2>8. BeforeOK(t, x, u)
    BY <1>4, <2>3, <2>4 DEF Fits, BeforeOK
  <2> QED
    BY <2>1, <2>5, <2>6, <2>7, <2>8 DEF Fits
<1> QED
  BY <1>3, <1>5, <1>6 DEF Reads

\* An enforcement that begins is initial when its derivation is.
LEMMA InitialAppended ==
  ASSUME NEW T, NEW q \in Seq(T), NEW e
  PROVE  Initial(Append(q, e)) <=> Initial(q) \/ e.initial
<1> DEFINE p == Append(q, e)
<1>1. /\ \A i \in DOMAIN p : (i \in DOMAIN q /\ p[i] = q[i]) \/ p[i] = e
      /\ \A i \in DOMAIN q : i \in DOMAIN p /\ p[i] = q[i]
      /\ \E i \in DOMAIN p : p[i] = e
  <2>1. Len(q) \in Nat /\ DOMAIN q = 1..Len(q) /\ DOMAIN p = 1..(Len(q) + 1)
    OBVIOUS
  <2>2. p[Len(q) + 1] = e /\ \A i \in 1..Len(q) : p[i] = q[i]
    OBVIOUS
  <2> HIDE DEF p
  <2> QED
    BY <2>1, <2>2
<1> HIDE DEF p
<1>2. Initial(p) <=> Initial(q) \/ e.initial
  BY <1>1, Zenon DEF Initial
<1> QED
  BY <1>2 DEF p

LEMMA InitialGrows ==
  ASSUME NEW s \in Service, NEW d, NEW r, NEW initial \in BOOLEAN, NEW legacy
  PROVE  LET waiting == Append(s.waiting, d)
             runs == Append(s.runs, Begun(legacy, r, initial))
         IN /\ d.initial = initial => (Initial(waiting) <=> Initial(s.waiting) \/ initial)
            /\ Initial(runs) <=> Initial(s.runs) \/ initial
            /\ Len(waiting) = Len(s.waiting) + 1 /\ Len(runs) = Len(s.runs) + 1
<1>1. s.waiting \in Seq(Derivation) /\ s.runs \in Seq(Run)
  BY ServiceFields
<1> DEFINE run == Begun(legacy, r, initial)
<1>2. run.initial = initial
  BY DEF Begun
<1> HIDE DEF run
<1>3. Initial(Append(s.runs, run)) <=> Initial(s.runs) \/ run.initial
  BY <1>1, InitialAppended
<1>4. Initial(Append(s.waiting, d)) <=> Initial(s.waiting) \/ d.initial
  BY <1>1, InitialAppended
<1>5. Initial(Append(s.runs, run)) <=> Initial(s.runs) \/ initial
  BY <1>2, <1>3, Zenon
<1>6. d.initial = initial => (Initial(Append(s.waiting, d)) <=> Initial(s.waiting) \/ initial)
  BY <1>4, Zenon
<1>7. /\ Len(Append(s.waiting, d)) = Len(s.waiting) + 1
      /\ Len(Append(s.runs, run)) = Len(s.runs) + 1
  BY <1>1
<1> QED
  BY <1>5, <1>6, <1>7 DEF run

\* A derivation of the subscription is not an initial one; the initial one is the first.
LEMMA DeriveStarts ==
  ASSUME NEW s \in Service, NEW initial \in BOOLEAN, NEW c \in Context,
         StartOK(s, ~c.loaded),
         \/ s.init = "subscribed" /\ ~initial
         \/ s.init = "initial" /\ s.waiting = <<>> /\ s.runs = <<>>
  PROVE  StartOK(Derive(s, initial, c), ~c.loaded)
<1> DEFINE t == Derive(s, initial, c)
           d == Derived(s, c, initial)
           run == Begun(Legacy, s.current[c.user], initial)
<1>1. t.init = s.init /\ c.loaded \in BOOLEAN
  BY DeriveDoes, ContextFields
<1>2. \/ t.waiting = s.waiting /\ t.runs = s.runs
      \/ t.waiting = s.waiting /\ t.runs = Append(s.runs, run)
      \/ ~c.loaded /\ t.waiting = Append(s.waiting, d) /\ t.runs = s.runs
  BY DeriveGrows
<1>3. d.initial = initial
  BY DEF Derived
<1>4. /\ Initial(Append(s.waiting, d)) <=> Initial(s.waiting) \/ initial
      /\ Initial(Append(s.runs, run)) <=> Initial(s.runs) \/ initial
      /\ Len(Append(s.waiting, d)) = Len(s.waiting) + 1
      /\ Len(Append(s.runs, run)) = Len(s.runs) + 1
  BY <1>3, InitialGrows
<1> HIDE DEF t, d, run
<1>5. Len(<<>>) = 0
  OBVIOUS
<1>6. ASSUME s.init = "subscribed", ~initial PROVE StartOK(t, ~c.loaded)
  <2>1. ~Initial(t.waiting) /\ ~Initial(t.runs) /\ (c.loaded => t.waiting = <<>>)
    BY <1>1, <1>2, <1>4, <1>6 DEF StartOK
  <2> QED
    BY <1>1, <1>6, <2>1 DEF StartOK
<1>7. ASSUME s.init = "initial", s.waiting = <<>>, s.runs = <<>> PROVE StartOK(t, ~c.loaded)
  <2>1. /\ Len(s.waiting) = 0 /\ Len(s.runs) = 0
        /\ Len(Append(s.waiting, d)) = 1 /\ Len(Append(s.runs, run)) = 1
    BY <1>4, <1>7
  <2>2. \/ Len(t.waiting) = 0 /\ Len(t.runs) = 0
        \/ Len(t.waiting) = 0 /\ Len(t.runs) = 1
        \/ Len(t.waiting) = 1 /\ Len(t.runs) = 0
    BY <1>2, <2>1, Zenon
  <2>3. Len(t.waiting) + Len(t.runs) <= 1
    <3>1. 0 + 0 <= 1 /\ 0 + 1 <= 1 /\ 1 + 0 <= 1
      OBVIOUS
    <3> QED
      BY <2>2, <3>1, Zenon
  <2>4. c.loaded => t.waiting = <<>>
    BY <1>2, <1>7
  <2> QED
    BY <1>1, <1>7, <2>3, <2>4 DEF StartOK
<1> QED
  BY <1>6, <1>7 DEF t

\* The service as initializeRules() sees it, too
FitsAt(s, c, x, u) ==
    Reads(c, x, u) /\ Fits(s, x, u) /\ StartOK(s, ~c.loaded)

LEMMA ReactFits ==
  ASSUME NEW s \in Service, NEW c \in Context, NEW u \in Users, NEW x,
         Quiet(s), FitsAt(s, c, x, u)
  PROVE  /\ FitsAt(React(s, c), c, x, u)
         /\ s.init # "subscribed" => React(s, c) = s
<1>1. CASE s.init # "subscribed"
  BY <1>1 DEF React
<1>2. CASE s.init = "subscribed" /\ s.known
  <2>1. React(s, c) = Derive(s, FALSE, c)
    BY <1>2 DEF React
  <2>2. c.loaded => s.waiting = <<>>
    BY DEF FitsAt, StartOK
  <2>3. Fits(Derive(s, FALSE, c), x, u)
    BY <1>2, <2>2, DeriveFits DEF FitsAt
  <2>4. StartOK(Derive(s, FALSE, c), ~c.loaded)
    BY <1>2, DeriveStarts DEF FitsAt
  <2> QED
    BY <1>2, <2>1, <2>3, <2>4 DEF FitsAt
<1>3. CASE s.init = "subscribed" /\ ~s.known
  <2> DEFINE r == LastKnown(c)
             t == [s EXCEPT !.ability = r]
  <2>1. React(s, c) = t
    BY <1>3 DEF React
  <2> HIDE DEF r
  <2>2. /\ t.init = s.init /\ t.current = s.current /\ t.known = s.known
        /\ t.waiting = s.waiting /\ t.runs = s.runs
    BY DEF Service
  <2> HIDE DEF t
  <2>3. s.runs = <<>>
    BY <1>3 DEF Quiet
  <2>4. Fits(t, x, u)
    BY <2>2, <2>3, AbilityFits DEF FitsAt
  <2>5. StartOK(t, ~c.loaded)
    BY <2>2 DEF FitsAt, StartOK
  <2> QED
    BY <1>3, <2>1, <2>4, <2>5 DEF FitsAt
<1> QED
  BY <1>1, <1>2, <1>3, ServiceFields

\* The initialization ends with the subscription.
LEMMA SubscribeFits ==
  ASSUME NEW s \in Service, NEW c \in Context, NEW u \in Users, NEW x,
         Quiet(s), Reads(c, x, u), Fits(s, x, u), StartOK(s, ~c.loaded),
         ~Initial(s.waiting), ~Initial(s.runs)
  PROVE  FitsAt(Subscribe(s, c), c, x, u) /\ Subscribe(s, c).init = "subscribed"
<1> DEFINE t == [s EXCEPT !.init = "subscribed"]
<1>1. /\ t \in Service /\ t.init = "subscribed" /\ t.current = s.current /\ t.known = s.known
      /\ t.waiting = s.waiting /\ t.runs = s.runs /\ t.ability = s.ability
  BY DEF Service
<1>2. Subscribe(s, c) = React(React(t, c), c)
  BY DEF Subscribe
<1> HIDE DEF t
<1>3. Quiet(t)
  BY <1>1 DEF Quiet
<1>4. StartOK(t, ~c.loaded)
  BY <1>1 DEF StartOK
<1>5. Fits(t, x, u)
  <2>1. s.runs # <<>> /\ x.legacy => t.ability \subseteq x.server \/ x.local \subseteq x.server
    BY <1>1 DEF Fits, RunsOK
  <2> QED
    BY <1>1, <2>1, AbilityFits
<1>6. FitsAt(t, c, x, u)
  BY <1>4, <1>5 DEF FitsAt
<1>7. /\ FitsAt(React(t, c), c, x, u) /\ ServiceOK(React(t, c), c)
      /\ React(t, c).init = "subscribed"
  BY <1>1, <1>3, <1>6, ReactFits, ReactDoes
<1>8. FitsAt(React(React(t, c), c), c, x, u) /\ React(React(t, c), c).init = "subscribed"
  BY <1>7, ReactFits, ReactDoes DEF ServiceOK
<1> QED
  BY <1>2, <1>8

\* initializeRules() goes on as soon as nothing initial is under way.
LEMMA ResumeFits ==
  ASSUME NEW s \in Service, NEW c \in Context, NEW u \in Users, NEW x,
         Quiet(s), FitsAt(s, c, x, u)
  PROVE  FitsAt(Resume(s, c), c, x, u) /\ Starting(Resume(s, c))
<1>1. CASE s.init = "initial" /\ ~Initial(s.waiting) /\ ~Initial(s.runs)
  <2>1. Resume(s, c) = Subscribe(s, c)
    BY <1>1 DEF Resume
  <2>2. FitsAt(Subscribe(s, c), c, x, u) /\ Subscribe(s, c).init = "subscribed"
    BY <1>1, SubscribeFits DEF FitsAt
  <2> QED
    BY <2>1, <2>2 DEF Starting
<1>2. CASE ~(s.init = "initial" /\ ~Initial(s.waiting) /\ ~Initial(s.runs))
  <2>1. Resume(s, c) = s
    BY <1>2 DEF Resume
  <2> QED
    BY <1>2, <2>1 DEF Starting
<1> QED
  BY <1>1, <1>2

-----------------------------------------------------------------------------
(***************************************************************************)
(* What becomes of the enforcements                                        *)
(***************************************************************************)

\* News reach the database, or data that was missing, or should not be there, is
\* not any more.
LEMMA DeviceFits ==
  ASSUME NEW s, NEW x, NEW y, NEW u, Fits(s, x, u),
         y.legacy = x.legacy, y.before = x.before, y.server = x.server, y.stored = x.stored,
         x.local \subseteq x.server => y.local \subseteq y.server,
         x.local = x.server => y.local = y.server,
         y.db = x.db \/ Fine(y, y.db)
  PROVE  Fits(s, y, u)
<1>1. \A r : (Fine(x, r) => Fine(y, r)) /\ (Okay(x, r) => Okay(y, r))
  BY DEF Fine, Okay
<1>2. CurrentOK(s, y, u)
  <2>1. Okay(y, y.db)
    BY <1>1 DEF Okay, Fits, CurrentOK
  <2>2. s.known /\ ~Fine(y, y.db) => y.stored = {s.current[u]}
    BY <1>1 DEF Fits, CurrentOK
  <2> QED
    BY <1>1, <2>1, <2>2 DEF Fits, CurrentOK
<1>3. WaitingOK(s, y, u)
  BY <1>1 DEF Fits, WaitingOK, WaitsOK
<1>4. RunsOK(s, y, u)
  <2> SUFFICES ASSUME s.runs # <<>> PROVE RunsOK(s, y, u)
    BY DEF RunsOK
  <2>1. \A r : RunOK(x, u, r) => RunOK(y, u, r)
    BY <1>1 DEF RunOK
  <2>2. Fine(y, y.db)
    BY <1>1 DEF Fits, RunsOK
  <2>3. y.legacy => s.ability \subseteq y.server \/ y.local \subseteq y.server
    BY DEF Fits, RunsOK
  <2> QED
    BY <1>1, <2>1, <2>2, <2>3 DEF Fits, RunsOK
<1>5. BeforeOK(s, y, u)
  BY DEF Fits, BeforeOK
<1> QED
  BY <1>2, <1>3, <1>4, <1>5 DEF Fits

\* Enforcements go on, or are over.
LEMMA FewerFit ==
  ASSUME NEW s, NEW t, NEW x, NEW u, Fits(s, x, u),
         t.current = s.current, t.known = s.known, t.waiting = s.waiting,
         t.ability = s.ability, t.runs # <<>> => s.runs # <<>>,
         \A j \in DOMAIN t.runs : RunOK(x, u, t.runs[j])
  PROVE  Fits(t, x, u)
<1>1. CurrentOK(t, x, u) /\ BeforeOK(t, x, u)
  BY DEF Fits, CurrentOK, BeforeOK
<1>2. WaitingOK(t, x, u)
  BY DEF Fits, WaitingOK, WaitsOK
<1>3. RunsOK(t, x, u)
  BY DEF Fits, RunsOK
<1> QED
  BY <1>1, <1>2, <1>3 DEF Fits

\* An enforcement goes on.
LEMMA RunFits ==
  ASSUME NEW s \in Service, NEW k \in DOMAIN s.runs, NEW run \in Run, NEW x, NEW u, NEW wait,
         NEW t, t = [s EXCEPT !.runs = [s.runs EXCEPT ![k] = run]],
         Fits(s, x, u), RunOK(x, u, run), StartOK(s, wait),
         run.initial = s.runs[k].initial
  PROVE  /\ Fits(t, x, u) /\ StartOK(t, wait) /\ (Starting(s) => Starting(t))
         /\ t.init = s.init
<1> DEFINE runs == [s.runs EXCEPT ![k] = run]
<1>1. s.runs \in Seq(Run)
  BY ServiceFields
<1>2. /\ DOMAIN runs = DOMAIN s.runs /\ Len(runs) = Len(s.runs)
      /\ runs[k] = run /\ \A j \in DOMAIN runs : j # k => runs[j] = s.runs[j]
  BY <1>1
<1>3. s.runs # <<>>
  BY <1>1
<1> HIDE DEF runs
<1>4. /\ t.current = s.current /\ t.known = s.known /\ t.waiting = s.waiting /\ t.init = s.init
      /\ t.ability = s.ability /\ t.runs = runs
  BY DEF Service, runs
<1>5. \A j \in DOMAIN s.runs : RunOK(x, u, s.runs[j])
  BY <1>3 DEF Fits, RunsOK
<1>6. Fits(t, x, u)
  <2>1. \A j \in DOMAIN t.runs : RunOK(x, u, t.runs[j])
    BY <1>2, <1>4, <1>5
  <2> QED
    BY <1>3, <1>4, <2>1, FewerFit
<1>7. Initial(runs) <=> Initial(s.runs)
  <2>1. \A j \in DOMAIN runs : j \in DOMAIN s.runs /\ runs[j].initial = s.runs[j].initial
    BY <1>2
  <2>2. \A j \in DOMAIN s.runs : j \in DOMAIN runs /\ runs[j].initial = s.runs[j].initial
    BY <1>2
  <2> QED
    BY <2>1, <2>2, Zenon DEF Initial
<1>8. StartOK(t, wait)
  BY <1>2, <1>3, <1>4, <1>7 DEF StartOK
<1> QED
  BY <1>4, <1>6, <1>7, <1>8 DEF Starting

\* What is left when one is over
LEMMA Removed ==
  ASSUME NEW q \in Seq(Run), NEW k \in DOMAIN q
  PROVE  LET p == RemoveAt(q, k)
         IN /\ p \in Seq(Run) /\ Len(p) = Len(q) - 1
            /\ \A j \in DOMAIN p : \E i \in DOMAIN q : p[j] = q[i]
<1> DEFINE a == SubSeq(q, 1, k - 1)
           b == SubSeq(q, k + 1, Len(q))
           p == RemoveAt(q, k)
<1>1. Len(q) \in Nat /\ k \in 1..Len(q)
  OBVIOUS
<1>2. /\ a \in Seq(Run) /\ Len(a) = k - 1 /\ \A j \in 1..(k - 1) : a[j] = q[j]
  BY <1>1
<1>3. /\ b \in Seq(Run) /\ Len(b) = Len(q) - k /\ \A j \in 1..(Len(q) - k) : b[j] = q[k + j]
  BY <1>1
<1>4. p = a \o b
  BY DEF RemoveAt
<1> HIDE DEF a, b, p
<1>5. p \in Seq(Run) /\ Len(p) = Len(q) - 1
  BY <1>1, <1>2, <1>3, <1>4
<1>6. ASSUME NEW j \in DOMAIN p PROVE \E i \in DOMAIN q : p[j] = q[i]
  <2>1. j \in 1..(Len(q) - 1)
    BY <1>5
  <2>2. CASE j <= k - 1
    <3>1. p[j] = a[j] /\ j \in 1..(k - 1)
      BY <1>1, <1>2, <1>3, <1>4, <2>1, <2>2
    <3> QED
      BY <1>1, <1>2, <2>1, <3>1
  <2>3. CASE ~(j <= k - 1)
    <3>1. p[j] = b[j - (k - 1)] /\ j - (k - 1) \in 1..(Len(q) - k) /\ k + (j - (k - 1)) = j + 1
      BY <1>1, <1>2, <1>3, <1>4, <2>1, <2>3
    <3>2. p[j] = q[j + 1] /\ j + 1 \in DOMAIN q
      BY <1>1, <1>3, <2>1, <3>1
    <3> QED
      BY <3>2
  <2> QED
    BY <2>2, <2>3
<1> QED
  BY <1>5, <1>6 DEF p

\* An enforcement is over, and initializeRules() goes on when it has awaited it.
LEMMA OverFits ==
  ASSUME NEW s \in Service, NEW k \in DOMAIN s.runs, NEW thrown \in BOOLEAN, NEW c \in Context,
         NEW u \in Users, NEW x, s.known, FitsAt(s, c, x, u)
  PROVE  LET t == Over(s, k, thrown, c) IN FitsAt(t, c, x, u) /\ Starting(t)
<1> DEFINE runs == RemoveAt(s.runs, k)
           init == IF thrown /\ s.runs[k].initial THEN "dead" ELSE s.init
           t == [s EXCEPT !.runs = runs, !.init = init]
<1>1. s.runs \in Seq(Run) /\ s.waiting \in Seq(Derivation) /\ Len(s.runs) >= 1 /\ s.runs # <<>>
  BY ServiceFields
<1>2. /\ runs \in Seq(Run) /\ Len(runs) = Len(s.runs) - 1
      /\ \A j \in DOMAIN runs : \E i \in DOMAIN s.runs : runs[j] = s.runs[i]
  BY <1>1, Removed
<1>3. Over(s, k, thrown, c) = Resume(t, c)
  BY DEF Over
<1>4. init = s.init \/ (init = "dead" /\ s.init = "initial")
  <2>1. s.runs[k].initial => s.init = "initial"
    BY DEF FitsAt, StartOK, Initial
  <2> QED
    BY <2>1
<1>5. init \in {"loading", "initial", "subscribed", "dead"}
  BY <1>4, ServiceFields
<1> HIDE DEF runs, init
<1>6. /\ t \in Service /\ t.current = s.current /\ t.known = s.known /\ t.waiting = s.waiting
      /\ t.ability = s.ability /\ t.runs = runs /\ t.init = init
  BY <1>2, <1>5 DEF Service
<1> HIDE DEF t
<1>7. Fits(t, x, u)
  <2>1. \A j \in DOMAIN runs : RunOK(x, u, runs[j])
    BY <1>1, <1>2 DEF FitsAt, Fits, RunsOK
  <2> QED
    BY <1>1, <1>6, <2>1, FewerFit DEF FitsAt
<1>8. Initial(runs) => Initial(s.runs)
  BY <1>2, Zenon DEF Initial
<1>9. StartOK(t, ~c.loaded)
  <2>1. s.init = "initial" => s.waiting = <<>> /\ runs = <<>>
    <3> SUFFICES ASSUME s.init = "initial" PROVE s.waiting = <<>> /\ runs = <<>>
      OBVIOUS
    <3>1. Len(s.waiting) + Len(s.runs) <= 1
      BY DEF FitsAt, StartOK
    <3>2. Len(s.waiting) \in Nat /\ Len(s.runs) \in Nat
      BY <1>1
    <3>3. \A a, b \in Nat : a + b <= 1 /\ b >= 1 => a = 0 /\ b - 1 = 0
      OBVIOUS
    <3>4. Len(s.waiting) = 0 /\ Len(runs) = 0
      BY <1>1, <1>2, <3>1, <3>2, <3>3, Zenon
    <3> QED
      BY <1>1, <1>2, <3>4
  <2>2. ~Initial(<<>>) /\ Len(<<>>) = 0
    BY DEF Initial
  <2>3. CASE s.init = "initial"
    <3>1. t.waiting = <<>> /\ t.runs = <<>> /\ t.init \in {"initial", "dead"}
      BY <1>4, <1>6, <2>1, <2>3
    <3> QED
      BY <2>2, <3>1 DEF StartOK
  <2>4. CASE s.init # "initial"
    <3>1. t.init = s.init
      BY <1>4, <1>6, <2>4
    <3>2. s.init # "loading"
      BY <1>1 DEF FitsAt, StartOK
    <3> QED
      BY <1>6, <1>8, <2>4, <3>1, <3>2 DEF FitsAt, StartOK
  <2> QED
    BY <2>3, <2>4
<1>10. FitsAt(t, c, x, u) /\ Quiet(t)
  BY <1>6, <1>7, <1>9 DEF FitsAt, Quiet
<1> QED
  BY <1>3, <1>6, <1>10, ResumeFits

-----------------------------------------------------------------------------
(***************************************************************************)
(* What the page does on this device                                       *)
(***************************************************************************)

\* News of the rules reach the service.
LEMMA RulesUpdatedFits ==
  ASSUME NEW s \in Service, NEW c \in Context, NEW u \in Users, NEW x, NEW rules \in RuleVersion,
         FitsAt(s, c, x, u), rules[u] = x.server, x.legacy => LessForPublic(rules, u),
         Fine(x, x.db)
  PROVE  LET t == RulesUpdated(s, rules, c)
         IN FitsAt(t, c, x, u) /\ (Starting(s) => Starting(t))
<1> DEFINE t == [s EXCEPT !.current = rules, !.known = TRUE]
<1>1. /\ t \in Service /\ t.current = rules /\ t.known /\ t.init = s.init
      /\ t.waiting = s.waiting /\ t.runs = s.runs /\ t.ability = s.ability
  BY DEF Service
<1>2. RulesUpdated(s, rules, c) = React(t, c)
  BY DEF RulesUpdated
<1> HIDE DEF t
<1>3. Fine(x, rules[u])
  BY DEF Fine
<1>4. Fits(t, x, u)
  <2>1. CurrentOK(t, x, u)
    BY <1>1, <1>3 DEF FitsAt, Fits, CurrentOK, Okay
  <2>2. WaitingOK(t, x, u)
    BY <1>1, <1>3 DEF FitsAt, Fits, WaitingOK, WaitsOK
  <2>3. RunsOK(t, x, u)
    BY <1>1, <1>3 DEF FitsAt, Fits, RunsOK
  <2>4. BeforeOK(t, x, u)
    BY <1>1 DEF FitsAt, Fits, BeforeOK
  <2> QED
    BY <2>1, <2>2, <2>3, <2>4 DEF Fits
<1>5. FitsAt(t, c, x, u) /\ Quiet(t)
  BY <1>1, <1>4 DEF FitsAt, StartOK, Quiet
<1>6. /\ FitsAt(React(t, c), c, x, u) /\ React(t, c).init = s.init
      /\ s.init # "subscribed" => React(t, c) = t
  BY <1>1, <1>5, ReactFits, ReactDoes
<1>7. Starting(s) => Starting(React(t, c))
  BY <1>1, <1>6 DEF Starting
<1> QED
  BY <1>2, <1>6, <1>7

\* A service without derivations and enforcements that gets to know the rules
LEMMA KnownFits ==
  ASSUME NEW t \in Service, NEW x, NEW u, Okay(x, x.db), t.known,
         t.waiting = <<>>, t.runs = <<>>, x.legacy => LessForPublic(t.current, u),
         Okay(x, t.current[u]), Fine(x, x.db) \/ x.stored = {t.current[u]},
         x.before => x.stored = {x.server} /\ t.current[u] = x.server
  PROVE  Fits(t, x, u)
<1>1. CurrentOK(t, x, u)
  BY DEF CurrentOK
<1>2. WaitingOK(t, x, u) /\ RunsOK(t, x, u) /\ BeforeOK(t, x, u)
  BY DEF WaitingOK, RunsOK, BeforeOK
<1> QED
  BY <1>1, <1>2 DEF Fits

\* The rules have been found in the database.
LEMMA FoundFits ==
  ASSUME NEW s \in Service, NEW c \in Context, NEW u \in Users, NEW x, NEW rules \in RuleVersion,
         FitsAt(s, c, x, u), s.init = "loading", rules[u] = x.db,
         x.legacy => LessForPublic(rules, u), x.before => x.db = x.server
  PROVE  LET t == [s EXCEPT !.init = "initial", !.known = TRUE, !.current = rules]
             q == Resume(Derive(t, TRUE, c), c)
         IN FitsAt(q, c, x, u) /\ Starting(q)
<1> DEFINE t == [s EXCEPT !.init = "initial", !.known = TRUE, !.current = rules]
           d == Derive(t, TRUE, c)
<1>1. s.waiting = <<>> /\ s.runs = <<>>
  BY DEF FitsAt, StartOK
<1>2. /\ t \in Service /\ t.init = "initial" /\ t.known /\ t.current = rules
      /\ t.waiting = <<>> /\ t.runs = <<>>
  BY <1>1 DEF Service
<1> HIDE DEF t
<1>3. Fits(t, x, u)
  <2>1. Okay(x, x.db) /\ (x.before => x.stored = {x.server})
    BY DEF FitsAt, Fits, CurrentOK, BeforeOK
  <2>2. Fine(x, x.db) \/ x.stored = {x.db}
    BY <2>1 DEF Okay
  <2> QED
    BY <1>2, <2>1, <2>2, KnownFits
<1>4. StartOK(t, ~c.loaded)
  <2>1. Len(<<>>) + Len(<<>>) <= 1
    OBVIOUS
  <2> QED
    BY <1>2, <2>1 DEF StartOK
<1>5. Fits(d, x, u) /\ StartOK(d, ~c.loaded)
  BY <1>2, <1>3, <1>4, DeriveFits, DeriveStarts DEF FitsAt
<1>6. d \in Service /\ d.known
  BY <1>2, DeriveDoes
<1> HIDE DEF d
<1>7. FitsAt(d, c, x, u) /\ Quiet(d)
  BY <1>5, <1>6 DEF FitsAt, Quiet
<1>8. FitsAt(Resume(d, c), c, x, u) /\ Starting(Resume(d, c))
  BY <1>6, <1>7, ResumeFits
<1> QED
  BY <1>8 DEF d, t

\* There are none in the database.
LEMMA MissingFits ==
  ASSUME NEW s \in Service, NEW c \in Context, NEW u \in Users, NEW x,
         FitsAt(s, c, x, u), s.init = "loading", x.db = Docs, Fine(x, Docs), ~x.before
  PROVE  LET q == Subscribe([s EXCEPT !.known = TRUE, !.ability = Docs], c)
         IN FitsAt(q, c, x, u) /\ Starting(q)
<1> DEFINE t == [s EXCEPT !.known = TRUE, !.ability = Docs]
<1>1. s.waiting = <<>> /\ s.runs = <<>>
  BY DEF FitsAt, StartOK
<1>2. /\ t \in Service /\ t.init = "loading" /\ t.known /\ t.current = s.current
      /\ t.waiting = <<>> /\ t.runs = <<>>
  BY <1>1 DEF Service
<1> HIDE DEF t
<1>3. Okay(x, s.current[u]) /\ (x.legacy => LessForPublic(s.current, u))
  <2>1. AllowAll[u] = Docs
    BY DEF AllowAll
  <2> QED
    BY <2>1 DEF FitsAt, Fits, CurrentOK, Okay
<1>4. Fits(t, x, u)
  BY <1>2, <1>3, KnownFits DEF Okay
<1>5. StartOK(t, ~c.loaded) /\ Quiet(t) /\ ~Initial(t.waiting) /\ ~Initial(t.runs)
  BY <1>2 DEF StartOK, Quiet, Initial
<1>6. FitsAt(Subscribe(t, c), c, x, u) /\ Subscribe(t, c).init = "subscribed"
  BY <1>2, <1>4, <1>5, SubscribeFits DEF FitsAt
<1> QED
  BY <1>6 DEF t, Starting

\* The derivations that were waiting are taken out.
LEMMA WithoutWaiting ==
  ASSUME NEW s \in Service, NEW x, NEW u, NEW wait, NEW t, t = [s EXCEPT !.waiting = <<>>],
         Fits(s, x, u), StartOK(s, wait)
  PROVE  Fits(t, x, u) /\ StartOK(t, FALSE)
<1>1. /\ t.init = s.init /\ t.current = s.current /\ t.known = s.known
      /\ t.runs = s.runs /\ t.waiting = <<>> /\ t.ability = s.ability
  BY DEF Service
<1>2. CurrentOK(t, x, u)
  BY <1>1 DEF Fits, CurrentOK
<1>3. WaitingOK(t, x, u)
  BY <1>1 DEF WaitingOK
<1>4. RunsOK(t, x, u)
  BY <1>1 DEF Fits, RunsOK
<1>5. BeforeOK(t, x, u)
  BY <1>1 DEF Fits, BeforeOK
<1>6. t.init = "initial" => Len(t.waiting) + Len(t.runs) <= 1
  <2>1. Len(s.waiting) \in Nat /\ Len(s.runs) \in Nat /\ Len(t.waiting) = 0
    BY <1>1, ServiceFields
  <2>2. \A a, b \in Nat : a + b <= 1 => 0 + b <= 1
    OBVIOUS
  <2>3. t.init = "initial" => Len(s.waiting) + Len(s.runs) <= 1
    BY <1>1 DEF StartOK
  <2> QED
    BY <1>1, <2>1, <2>2, <2>3, Zenon
<1>7. ~Initial(<<>>)
  BY DEF Initial
<1>8. StartOK(t, FALSE)
  BY <1>1, <1>6, <1>7 DEF StartOK
<1> QED
  BY <1>2, <1>3, <1>4, <1>5, <1>8 DEF Fits

\* The user entity is loaded: the subscription reacts, and what was waiting is applied.
LEMMA LoadedFits ==
  ASSUME NEW s \in Service, NEW c \in Context, NEW u \in Users, NEW x, NEW wait,
         c.user = u, c.loaded, Reads(c, x, u), Fits(s, x, u), StartOK(s, wait), Quiet(s),
         s.init = "subscribed" /\ s.waiting # <<>>
            => s.waiting[Len(s.waiting)].rules = s.current[u]
  PROVE  LET q == Resume(ApplyAll(React([s EXCEPT !.waiting = <<>>], c), s.waiting, c), c)
         IN FitsAt(q, c, x, u) /\ Starting(q)
<1> DEFINE t == [s EXCEPT !.waiting = <<>>]
           first == React(t, c)
           last == ApplyAll(first, s.waiting, c)
<1>1. /\ t \in Service /\ t.init = s.init /\ t.current = s.current
      /\ t.known = s.known /\ t.runs = s.runs /\ t.waiting = <<>>
  BY WaitingGone
<1>2. Fits(t, x, u) /\ StartOK(t, FALSE) /\ Quiet(t)
  BY <1>1, WithoutWaiting DEF Quiet
<1> HIDE DEF t
<1>3. FitsAt(t, c, x, u)
  BY <1>2 DEF FitsAt
<1>4. /\ FitsAt(first, c, x, u) /\ (s.init # "subscribed" => first = t)
      /\ first \in Service /\ first.init = s.init /\ first.current = s.current
      /\ first.known = s.known /\ Quiet(first)
  BY <1>1, <1>2, <1>3, ReactFits, ReactDoes DEF ServiceOK
<1> HIDE DEF first
<1>5. Fits(first, x, u) /\ first.waiting = <<>>
  BY <1>4 DEF FitsAt, StartOK
<1>6. s.waiting \in Seq(Derivation) /\ s.runs \in Seq(Run) /\ first.runs \in Seq(Run)
  BY <1>4, ServiceFields
<1>7. FitsAt(last, c, x, u) /\ last \in Service /\ Quiet(last)
  <2>1. CASE s.waiting = <<>>
    <3>1. last = first
      BY <1>4, <2>1, <1>6, AllApplied
    <3> QED
      BY <3>1, <1>4
  <2>2. CASE s.waiting # <<>>
    <3>1. /\ KeepsRules(last, first) /\ last.ability = s.waiting[Len(s.waiting)].rules
          /\ Len(last.runs) <= Len(first.runs) + Len(s.waiting)
          /\ \A j \in 1..Len(last.runs) :
               IF j <= Len(first.runs) THEN last.runs[j] = first.runs[j]
               ELSE \E i \in 1..Len(s.waiting) : Starts(last.runs[j], s.waiting[i], c)
      BY <1>4, <1>6, <2>2, AllApplied
    <3> HIDE DEF last
    <3>2. /\ last \in Service /\ last.init = s.init /\ last.current = first.current /\ last.known
          /\ last.waiting = <<>> /\ s.known /\ first.known
      BY <1>4, <1>5, <2>2, <3>1 DEF KeepsRules, Quiet
    <3>3. last.runs \in Seq(Run) /\ Len(first.runs) \in Nat /\ Len(last.runs) \in Nat
      BY <1>6, <3>2, ServiceFields
    <3>4. \A j \in DOMAIN last.runs :
             \/ j \in DOMAIN first.runs /\ last.runs[j] = first.runs[j]
             \/ \E i \in DOMAIN s.waiting : Starts(last.runs[j], s.waiting[i], c)
      BY <1>6, <3>1, <3>3
    <3> DEFINE R == {s.waiting[i].rules : i \in DOMAIN s.waiting}
    <3>5. ASSUME NEW i \in DOMAIN s.waiting
          PROVE  /\ s.waiting[i].initial \in BOOLEAN
                 /\ WaitsOK(first, x, u, s.waiting[i].rules)
                 /\ x.before => s.waiting[i].rules = x.server
      <4>1. s.waiting[i] \in Derivation
        BY <1>6
      <4>2. WaitsOK(s, x, u, s.waiting[i].rules)
        BY DEF Fits, WaitingOK
      <4>3. x.before => s.waiting[i].rules = x.server
        BY DEF Fits, BeforeOK
      <4> QED
        BY <1>4, <4>1, <4>2, <4>3 DEF Derivation, WaitsOK
    <3>6. x.legacy = Legacy /\ x.legacy \in BOOLEAN /\ c.stored[c.user] = x.stored
      BY ReadsLegacy DEF Reads
    <3>7. \A j \in DOMAIN last.runs :
             \/ j \in DOMAIN first.runs /\ last.runs[j] = first.runs[j]
             \/ \E r \in R, b \in BOOLEAN :
                   last.runs[j] = Begun(x.legacy, r, b) /\ x.stored # {r}
      BY <3>4, <3>5, <3>6 DEF Starts
    <3>8. ASSUME last.runs # <<>> PROVE Fine(x, last.ability)
      <4> DEFINE l == Len(s.waiting)
      <4>1. 1 \in DOMAIN last.runs
        BY <3>3, <3>8
      <4>2. CASE s.init = "subscribed"
        <5>1. last.ability = first.current[u]
          BY <1>4, <2>2, <3>1, <4>2
        <5>2. CASE 1 \in DOMAIN first.runs
          <6>1. first.runs # <<>>
            BY <5>2
          <6> QED
            BY <1>5, <5>1, <6>1 DEF Fits, RunsOK
        <5>3. ASSUME NEW i \in DOMAIN s.waiting, Starts(last.runs[1], s.waiting[i], c)
              PROVE  Fine(x, last.ability)
          BY <3>5, <3>6, <5>1, <5>3 DEF WaitsOK, Starts
        <5> QED
          BY <3>4, <4>1, <5>2, <5>3
      <4>3. CASE s.init = "initial"
        <5>1. Len(s.waiting) + Len(s.runs) <= 1
          BY <4>3 DEF StartOK
        <5>2. l = 1 /\ s.runs = <<>>
          <6>1. l \in Nat /\ Len(s.runs) \in Nat /\ l # 0
            BY <1>6, <2>2
          <6>2. \A a, b \in Nat : a + b <= 1 /\ a # 0 => a = 1 /\ b = 0
            OBVIOUS
          <6>3. l = 1 /\ Len(s.runs) = 0
            BY <5>1, <6>1, <6>2, Zenon
          <6> QED
            BY <1>6, <6>3
        <5>3. first.runs = <<>>
          BY <1>1, <1>4, <4>3, <5>2
        <5>4. PICK i \in DOMAIN s.waiting : Starts(last.runs[1], s.waiting[i], c)
          BY <3>4, <4>1, <5>3
        <5>5. i = l
          BY <1>6, <5>2
        <5> QED
          BY <3>1, <3>5, <3>6, <5>4, <5>5 DEF Starts, WaitsOK, Okay
      <4>4. CASE s.init \in {"loading", "dead"}
        BY <2>2, <4>4 DEF StartOK
      <4> QED
        BY <4>2, <4>3, <4>4, ServiceFields
    <3>9. \A r \in R : WaitsOK(first, x, u, r) /\ (x.before => r = x.server)
      BY <3>5
    <3> HIDE DEF R
    <3>10. Fits(last, x, u)
      BY <1>4, <1>5, <3>2, <3>6, <3>7, <3>8, <3>9, AppliedFit
    <3>11. s.init # "initial" => ~Initial(last.runs)
      <4> SUFFICES ASSUME s.init # "initial", NEW j \in DOMAIN last.runs PROVE ~last.runs[j].initial
        BY DEF Initial
      <4>1. ~Initial(s.waiting) /\ ~Initial(first.runs)
        BY <1>4 DEF FitsAt, StartOK
      <4>2. CASE j \in DOMAIN first.runs /\ last.runs[j] = first.runs[j]
        BY <4>1, <4>2 DEF Initial
      <4>3. ASSUME NEW i \in DOMAIN s.waiting, Starts(last.runs[j], s.waiting[i], c)
            PROVE  ~last.runs[j].initial
        <5>1. last.runs[j].initial = s.waiting[i].initial
          BY <4>3 DEF Starts, Begun
        <5> QED
          BY <4>1, <5>1, Zenon DEF Initial
      <4> QED
        BY <3>4, <4>2, <4>3
    <3>12. s.init = "initial" => Len(last.waiting) + Len(last.runs) <= 1
      <4> SUFFICES ASSUME s.init = "initial" PROVE Len(last.waiting) + Len(last.runs) <= 1
        OBVIOUS
      <4>1. Len(s.waiting) + Len(s.runs) <= 1 /\ first.runs = s.runs
        BY <1>1, <1>4 DEF StartOK
      <4>2. Len(s.waiting) \in Nat /\ Len(last.waiting) = 0
        BY <1>6, <3>2
      <4>3. \A a, b, m \in Nat : a + b <= 1 /\ m <= b + a => 0 + m <= 1
        OBVIOUS
      <4> QED
        BY <3>1, <3>3, <4>1, <4>2, <4>3, Zenon
    <3>13. s.init # "loading"
      BY <2>2 DEF StartOK
    <3>14. StartOK(last, ~c.loaded)
      <4>1. ~Initial(last.waiting)
        BY <3>2 DEF Initial
      <4> QED
        BY <3>2, <3>11, <3>12, <3>13, <4>1 DEF StartOK
    <3> QED
      BY <3>2, <3>10, <3>14 DEF FitsAt, Quiet
  <2> QED
    BY <2>1, <2>2
<1> HIDE DEF last
<1>8. FitsAt(Resume(last, c), c, x, u) /\ Starting(Resume(last, c))
  BY <1>7, ResumeFits
<1> QED
  BY <1>8 DEF last, first, t

-----------------------------------------------------------------------------
(***************************************************************************)
(* The steps on this device                                                *)
(***************************************************************************)

\* What nobody touches stays as it is.
LEMMA DeviceStays ==
  ASSUME NEW u, UNCHANGED <<serverRules, deviceVars, online, scenario, changes>>, DeviceOK(u),
         session' \in {u, NoUser}
  PROVE  Device(u)' = Device(u) /\ DeviceOK(u)'
<1>1. Device(u)' = Device(u)
  BY DEF Device, Legacy, deviceVars
<1>2. DeviceOK(u)'
  BY DEF DeviceOK, Legacy, deviceVars
<1> QED
  BY <1>1, <1>2

\* The service reads what this device has stored.
LEMMA NowFits ==
  ASSUME TypeOK, NEW u \in Users, EnforcedNow(u)
  PROVE  /\ FitsAt(svc, Now, Device(u), u) /\ Now.user = session /\ Now.loaded = loaded
         /\ Device(u).legacy = Legacy /\ Device(u).before = (changes = 0)
         /\ Device(u).server = serverRules[u] /\ Device(u).db = dbRules[u][u]
         /\ Device(u).local = local[u] /\ Device(u).stored = stored[u]
<1>1. Reads(Now, Device(u), u)
  BY NowTyped DEF EnforcedNow, DeviceOK, Reads, Device
<1> QED
  BY <1>1, NowTyped DEF FitsAt, EnforcedNow, Device

\* A step neither counts backwards nor undoes a failure.
LEMMA StillUndisturbed ==
  ASSUME TypeOK, Next, NEW u, Undisturbed(u)'
  PROVE  Undisturbed(u) /\ UNCHANGED <<scenario, faults>> /\ ~UseFault
<1>1. UNCHANGED scenario
  BY DEF Next
<1>2. UNCHANGED faults \/ UseFault
  <2>1. CASE Page
    BY <2>1 DEF Page, LoadRules, UserLoaded, LogIn, LogOut, PageLoad, budgetVars
  <2>2. CASE Environment \/ LiveSync
    BY <2>2 DEF Environment, ServerRulesChange, GoOffline, GoOnline, LiveSync, budgetVars
  <2>3. ASSUME NEW k \in DOMAIN svc.runs, RunStep(k) PROVE UNCHANGED faults \/ UseFault
    BY <2>3 DEF RunStep, PurgeType, ScanFails, CheckLegacy, StartResync, ResyncCompletes,
                ResyncFails, Store, budgetVars
  <2> QED
    BY <2>1, <2>2, <2>3 DEF Next
<1>3. UNCHANGED changes \/ changes' = changes + 1
  <2>1. CASE Page
    BY <2>1 DEF Page, LoadRules, UserLoaded, LogIn, LogOut, PageLoad, budgetVars
  <2>2. CASE Environment \/ LiveSync
    BY <2>2 DEF Environment, ServerRulesChange, GoOffline, GoOnline, LiveSync, budgetVars
  <2>3. ASSUME NEW k \in DOMAIN svc.runs, RunStep(k) PROVE UNCHANGED changes
    BY <2>3 DEF RunStep, PurgeType, ScanFails, CheckLegacy, StartResync, ResyncCompletes,
                ResyncFails, Store, RunOnly, budgetVars
  <2> QED
    BY <2>1, <2>2, <2>3 DEF Next
<1>4. faults' = 0 /\ changes' <= 1
  BY DEF Undisturbed
<1>5. faults \in Nat /\ changes \in Nat
  BY DEF TypeOK
<1>6. faults' # faults + 1
  BY <1>4, <1>5
<1>7. ~UseFault
  BY <1>6 DEF UseFault
<1>8. faults = 0 /\ changes <= 1
  BY <1>2, <1>3, <1>4, <1>5, <1>7
<1> QED
  BY <1>1, <1>2, <1>7, <1>8 DEF Undisturbed, Legacy

\* Page: the rules are loaded, the user entity is, somebody logs in or out.
LEMMA PageEnforced ==
  ASSUME ServiceInv, NEW u \in Users, Undisturbed(u), EnforcedNow(u), UNCHANGED scenario,
         ~UseFault, Page
  PROVE  EnforcedNow(u)'
<1> DEFINE x == Device(u)
<1>1. /\ TypeOK /\ svc \in Service /\ Now \in Context /\ Quiet(svc) /\ Follows(svc, Now)
  BY NowTyped DEF ServiceInv, ServiceOK
<1>2. /\ FitsAt(svc, Now, x, u) /\ Now.user = session /\ Now.loaded = loaded
      /\ x.legacy = Legacy /\ x.before = (changes = 0)
      /\ x.server = serverRules[u] /\ x.db = dbRules[u][u]
      /\ x.local = local[u] /\ x.stored = stored[u]
  BY <1>1, NowFits
<1>3. DeviceOK(u) /\ Starting(svc) /\ u # NoUser /\ session \in {u, NoUser}
  BY RulesAssumption DEF EnforcedNow, DeviceOK
<1>4. UNCHANGED <<serverRules, deviceVars, online, changes>>
  BY DEF Page, LoadRules, UserLoaded, LogIn, LogOut, PageLoad, budgetVars
<1>5. ASSUME session' \in {u, NoUser}, Fits(svc', x, u), StartOK(svc', ~loaded'), Starting(svc')
      PROVE  EnforcedNow(u)'
  <2>1. Device(u)' = x /\ DeviceOK(u)'
    BY <1>3, <1>4, <1>5, DeviceStays
  <2> HIDE DEF x
  <2> QED
    BY <1>5, <2>1 DEF EnforcedNow
<1>6. CASE LoadRules
  <2>1. svc.init = "loading" /\ session = u
    BY <1>3, <1>6 DEF LoadRules
  <2> DEFINE rules == dbRules[session]
             s == [svc EXCEPT !.init = "initial", !.known = TRUE, !.current = rules]
             t == [svc EXCEPT !.known = TRUE, !.ability = Docs]
  <2>2. \/ svc' = Resume(Derive(s, TRUE, Now), Now)
        \/ rules = AllowAll /\ svc' = Subscribe(t, Now)
    BY <1>6 DEF LoadRules, Becomes
  <2>3. rules \in RuleVersion
    BY <1>1, <2>1 DEF TypeOK
  <2>4. rules[u] = x.db /\ (x.legacy => LessForPublic(rules, u))
        /\ (x.before => rules = serverRules)
    BY <1>2, <1>3, <2>1 DEF DeviceOK
  <2>5. FitsAt(svc', Now, x, u) /\ Starting(svc')
    <3>1. CASE svc' = Resume(Derive(s, TRUE, Now), Now)
      <4>1. x.before => x.db = x.server
        BY <1>2, <2>4
      <4> HIDE DEF x, rules
      <4>2. FitsAt(Resume(Derive(s, TRUE, Now), Now), Now, x, u)
            /\ Starting(Resume(Derive(s, TRUE, Now), Now))
        BY <1>1, <1>2, <2>1, <2>3, <2>4, <4>1, FoundFits
      <4> HIDE DEF s
      <4> QED
        BY <3>1, <4>2
    <3>2. CASE rules = AllowAll /\ svc' = Subscribe(t, Now)
      <4>1. x.db = Docs /\ Fine(x, Docs)
        BY <1>2, <1>3, <2>1, <3>2 DEF AllowAll, DeviceOK, Fine
      <4>2. ~x.before
        BY <1>1, <1>2, <2>4, <3>2, RulesAssumption DEF TypeOK
      <4> HIDE DEF x
      <4>3. FitsAt(Subscribe(t, Now), Now, x, u) /\ Starting(Subscribe(t, Now))
        BY <1>1, <1>2, <2>1, <4>1, <4>2, MissingFits
      <4> HIDE DEF t
      <4> QED
        BY <3>2, <4>3
    <3> QED
      BY <2>2, <3>1, <3>2
  <2>6. UNCHANGED <<session, loaded>>
    BY <1>6 DEF LoadRules, pageVars
  <2> HIDE DEF x
  <2> QED
    BY <1>2, <1>3, <1>5, <2>5, <2>6 DEF FitsAt
<1>7. CASE UserLoaded
  <2> DEFINE c == [Now EXCEPT !.loaded = TRUE]
             q == Resume(ApplyAll(React([svc EXCEPT !.waiting = <<>>], c), svc.waiting, c), c)
  <2>1. session = u /\ ~loaded /\ loaded' = TRUE /\ UNCHANGED session /\ svc' = q
    BY <1>3, <1>7 DEF UserLoaded, Becomes
  <2>2. c \in Context /\ c.user = u /\ c.loaded /\ c.stored = Now.stored
    BY <1>1, <1>2, <2>1 DEF Context
  <2>3. svc.init = "subscribed" /\ svc.waiting # <<>>
           => svc.waiting[Len(svc.waiting)].rules = svc.current[u]
    <3>1. svc.waiting # <<>> => svc.known
      BY <1>1 DEF Quiet
    <3> QED
      BY <1>1, <1>2, <1>3, <2>1, <3>1 DEF Follows
  <2>4. Reads(c, x, u) /\ Fits(svc, x, u) /\ StartOK(svc, ~loaded)
    BY <1>2, <2>2 DEF FitsAt, Reads
  <2> HIDE DEF x, c
  <2>5. FitsAt(q, c, x, u) /\ Starting(q)
    BY <1>1, <2>2, <2>3, <2>4, LoadedFits
  <2> HIDE DEF q
  <2> QED
    BY <1>3, <1>5, <2>1, <2>2, <2>5 DEF FitsAt
<1>8. ASSUME NEW v \in scenario.users, LogIn(v) PROVE EnforcedNow(u)'
  <2> DEFINE c == [Now EXCEPT !.user = u]
  <2>1. v = u
    BY DEF Undisturbed
  <2>2. session' = u /\ UNCHANGED loaded /\ svc' = React(svc, c)
    BY <1>8, <2>1 DEF LogIn, Becomes
  <2>3. c \in Context /\ c.user = u /\ c.loaded = loaded /\ c.stored = Now.stored
    BY <1>1, <1>2 DEF Context
  <2>4. FitsAt(svc, c, x, u)
    BY <1>2, <2>3 DEF FitsAt, Reads
  <2> HIDE DEF x, c
  <2>5. FitsAt(React(svc, c), c, x, u) /\ React(svc, c).init = svc.init
        /\ (svc.init # "subscribed" => React(svc, c) = svc)
    BY <1>1, <2>3, <2>4, ReactFits, ReactDoes
  <2>6. Starting(svc')
    BY <1>3, <2>2, <2>5 DEF Starting
  <2> QED
    BY <1>5, <2>2, <2>3, <2>5, <2>6 DEF FitsAt
<1>9. CASE LogOut
  <2> DEFINE c == [Now EXCEPT !.user = NoUser]
  <2>2. session' = NoUser /\ loaded' = FALSE /\ svc' = React(svc, c)
    BY <1>9 DEF LogOut, Becomes
  <2>3. c \in Context /\ c.user = NoUser /\ c.loaded = loaded /\ c.stored = Now.stored
    BY <1>1, <1>2 DEF Context
  <2>4. FitsAt(svc, c, x, u)
    BY <1>2, <2>3 DEF FitsAt, Reads
  <2> HIDE DEF x, c
  <2>5. FitsAt(React(svc, c), c, x, u) /\ React(svc, c).init = svc.init
        /\ (svc.init # "subscribed" => React(svc, c) = svc)
    BY <1>1, <2>3, <2>4, ReactFits, ReactDoes
  <2>6. Starting(svc')
    BY <1>3, <2>2, <2>5 DEF Starting
  <2>7. StartOK(svc', ~loaded')
    BY <2>2, <2>5 DEF FitsAt, StartOK
  <2> QED
    BY <1>5, <2>2, <2>5, <2>6, <2>7 DEF FitsAt
<1>10. CASE PageLoad
  <2>1. session' = NoUser /\ loaded' = FALSE /\ svc' = NewPage
    BY <1>10 DEF PageLoad
  <2>2. Okay(x, x.db) /\ (x.before => x.stored = {x.server})
    BY <1>2 DEF FitsAt, Fits, CurrentOK, BeforeOK
  <2> HIDE DEF x
  <2>3. Fits(NewPage, x, u)
    BY <2>2 DEF Fits, CurrentOK, WaitingOK, RunsOK, BeforeOK, NewPage, LessForPublic, AllowAll
  <2>4. StartOK(NewPage, TRUE) /\ Starting(NewPage)
    BY DEF StartOK, Starting, NewPage, Initial
  <2> QED
    BY <1>5, <2>1, <2>3, <2>4
<1> QED
  BY <1>6, <1>7, <1>8, <1>9, <1>10 DEF Page

\* The rules of the server change: what has been enforced are the old ones.
LEMMA RulesChangeEnforced ==
  ASSUME ServiceInv, NEW u \in Users, Undisturbed(u)', EnforcedNow(u), UNCHANGED scenario,
         ServerRulesChange
  PROVE  EnforcedNow(u)'
<1> DEFINE x == Device(u)
           y == [legacy |-> Legacy, before |-> FALSE, server |-> serverRules'[u],
                 db |-> dbRules[u][u], local |-> local[u], stored |-> stored[u]]
<1>1. /\ TypeOK /\ svc \in Service /\ changes \in Nat
  BY DEF ServiceInv, ServiceOK, TypeOK
<1>2. /\ FitsAt(svc, Now, x, u)
      /\ x.legacy = Legacy /\ x.before = (changes = 0)
      /\ x.server = serverRules[u] /\ x.db = dbRules[u][u]
      /\ x.local = local[u] /\ x.stored = stored[u]
  BY <1>1, NowFits
<1>3. DeviceOK(u) /\ Starting(svc) /\ StartOK(svc, ~loaded)
  BY DEF EnforcedNow
<1>4. /\ UNCHANGED <<local, dbRules, synced, stored, session, loaded, online, svc>>
      /\ changes' = changes + 1 /\ serverRules' \in scenario.rules
  BY DEF ServerRulesChange, deviceVars, pageVars
<1>5. changes = 0 /\ changes' # 0
  <2>1. changes' <= 1
    BY DEF Undisturbed
  <2> QED
    BY <1>1, <1>4, <2>1
<1>6. /\ Device(u)' = y /\ y.legacy = Legacy /\ y.before = FALSE /\ y.db = dbRules[u][u]
      /\ y.local = local[u] /\ y.stored = stored[u] /\ y.server = serverRules'[u]
  BY <1>4, <1>5 DEF Device, Legacy
<1> HIDE DEF x, y
<1>7. /\ stored[u] = {x.db} /\ synced[u] /\ dbRules[u] = serverRules /\ serverRules # AllowAll
      /\ svc.runs = <<>> /\ (svc.known => svc.current[u] = x.db)
      /\ \A i \in DOMAIN svc.waiting : svc.waiting[i].rules = x.db
  BY <1>1, <1>2, <1>3, <1>5, RulesAssumption DEF DeviceOK, FitsAt, Fits, BeforeOK, TypeOK
<1>8. Okay(y, x.db) /\ y.db = x.db /\ y.stored = {x.db}
  BY <1>2, <1>6, <1>7 DEF Okay
<1>9. CurrentOK(svc, y, u)
  BY <1>2, <1>6, <1>7, <1>8 DEF FitsAt, Fits, CurrentOK
<1>10. WaitingOK(svc, y, u) /\ RunsOK(svc, y, u) /\ BeforeOK(svc, y, u)
  BY <1>6, <1>7, <1>8 DEF WaitingOK, WaitsOK, RunsOK, BeforeOK
<1>11. DeviceOK(u)'
  <2>1. synced[u] /\ stored[u] = {serverRules'[u]} => local[u] = serverRules'[u]
    BY <1>2, <1>3, <1>7 DEF DeviceOK
  <2> QED
    BY <1>3, <1>4, <1>5, <1>7, <2>1 DEF DeviceOK, Legacy
<1>12. Fits(svc', Device(u)', u)
  BY <1>4, <1>6, <1>9, <1>10 DEF Fits
<1> QED
  BY <1>3, <1>4, <1>11, <1>12 DEF EnforcedNow

\* The live sync brings the new rules.
LEMMA LiveSyncEnforced ==
  ASSUME ServiceInv, NEW u \in Users, Undisturbed(u), EnforcedNow(u), UNCHANGED scenario,
         LiveSync
  PROVE  EnforcedNow(u)'
<1> DEFINE x == Device(u)
           y == [legacy |-> Legacy, before |-> changes = 0, server |-> serverRules[u],
                 db |-> serverRules[u], local |-> local'[u], stored |-> stored[u]]
<1>1. /\ TypeOK /\ svc \in Service /\ Now \in Context /\ Quiet(svc)
  BY NowTyped DEF ServiceInv, ServiceOK
<1>2. /\ FitsAt(svc, Now, x, u) /\ Now.user = session /\ Now.loaded = loaded
      /\ x.legacy = Legacy /\ x.before = (changes = 0)
      /\ x.server = serverRules[u] /\ x.db = dbRules[u][u]
      /\ x.local = local[u] /\ x.stored = stored[u]
  BY <1>1, NowFits
<1>3. DeviceOK(u) /\ Starting(svc) /\ session = u
  BY DEF EnforcedNow, DeviceOK, LiveSync
<1>4. /\ UNCHANGED <<serverRules, stored, session, loaded, online, changes>>
      /\ dbRules' = [dbRules EXCEPT ![u] = serverRules]
      /\ synced' = [synced EXCEPT ![u] = TRUE]
      /\ svc' = RulesUpdated(svc, serverRules, Now)
      /\ ~synced[u] \/ dbRules[u] # serverRules
      /\ local' = IF synced[u] THEN local
                  ELSE [local EXCEPT ![u] = local[u] \cup serverRules[u]]
  BY <1>3 DEF LiveSync, pageVars, budgetVars, Becomes
<1>5. serverRules \in RuleVersion /\ serverRules \in scenario.rules /\ serverRules # AllowAll
  BY <1>1, <1>3, RulesAssumption DEF TypeOK, RuleVersion, DeviceOK
<1>6. /\ dbRules'[u] = serverRules /\ synced'[u]
      /\ IF synced[u] THEN local'[u] = local[u] ELSE local'[u] = serverRules[u]
  <2>1. ~synced[u] => local[u] \cup serverRules[u] = serverRules[u]
    BY <1>3 DEF DeviceOK
  <2> QED
    BY <1>1, <1>4, <2>1 DEF TypeOK
<1>7. ~x.before
  BY <1>2, <1>3, <1>4 DEF DeviceOK
<1>8. /\ Device(u)' = y /\ y.legacy = Legacy /\ y.before = x.before /\ y.server = x.server
      /\ y.local = local'[u] /\ y.stored = x.stored /\ y.db = x.server
  BY <1>2, <1>4, <1>6 DEF Device, Legacy
<1> HIDE DEF x, y
<1>9. Fine(y, y.db)
  BY <1>8 DEF Fine
<1>10. Fits(svc, y, u)
  BY <1>2, <1>6, <1>8, <1>9, DeviceFits DEF FitsAt
<1>11. FitsAt(svc, Now, y, u) /\ (y.legacy => LessForPublic(serverRules, u))
       /\ serverRules[u] = y.server
  BY <1>2, <1>5, <1>8, <1>10 DEF FitsAt, Reads, Undisturbed
<1>12. FitsAt(svc', Now, y, u) /\ Starting(svc')
  BY <1>1, <1>3, <1>4, <1>5, <1>9, <1>11, RulesUpdatedFits
<1>13. DeviceOK(u)'
  <2>1. synced[u] /\ stored[u] = {serverRules[u]} => local'[u] = serverRules[u]
    BY <1>3, <1>6 DEF DeviceOK
  <2>2. changes # 0
    BY <1>2, <1>7
  <2> QED
    BY <1>3, <1>4, <1>5, <1>6, <1>8, <1>11, <2>1, <2>2 DEF DeviceOK, Legacy
<1> QED
  BY <1>2, <1>4, <1>8, <1>12, <1>13 DEF EnforcedNow, FitsAt

\* The environment changes nothing else, as long as nothing fails.
LEMMA EnvironmentEnforced ==
  ASSUME ServiceInv, NEW u \in Users, Undisturbed(u)', EnforcedNow(u), UNCHANGED scenario,
         ~UseFault, Environment
  PROVE  EnforcedNow(u)'
<1>1. ~GoOffline /\ ~GoOnline
  BY DEF GoOffline, GoOnline, EnforcedNow, DeviceOK
<1> QED
  BY <1>1, RulesChangeEnforced DEF Environment

-----------------------------------------------------------------------------
(***************************************************************************)
(* The steps of an enforcement on this device                              *)
(***************************************************************************)

\* An enforcement is under way: the rules have changed, and the news have arrived.
LEMMA UnderWay ==
  ASSUME ServiceInv, NEW u \in Users, EnforcedNow(u), NEW k \in DOMAIN svc.runs
  PROVE  LET x == Device(u)
         IN /\ TypeOK /\ svc \in Service /\ Now \in Context /\ svc.known /\ svc.runs[k] \in Run
            /\ FitsAt(svc, Now, x, u) /\ Now.user = session /\ Now.loaded = loaded
            /\ x.legacy = Legacy /\ x.before = (changes = 0)
            /\ x.server = serverRules[u] /\ x.db = dbRules[u][u]
            /\ x.local = local[u] /\ x.stored = stored[u]
            /\ DeviceOK(u) /\ StartOK(svc, ~loaded) /\ Starting(svc)
            /\ session \in {u, NoUser} /\ u # NoUser /\ online /\ changes # 0
            /\ RunOK(x, u, svc.runs[k]) /\ Fine(x, x.db) /\ Fine(x, svc.current[u])
            /\ \A i \in DOMAIN svc.waiting : Fine(x, svc.waiting[i].rules)
            /\ Legacy => svc.ability \subseteq x.server \/ x.local \subseteq x.server
<1>1. /\ TypeOK /\ svc \in Service /\ Now \in Context /\ svc.known /\ svc.runs[k] \in Run
  BY RunFacts
<1>2. /\ FitsAt(svc, Now, Device(u), u) /\ Now.user = session /\ Now.loaded = loaded
      /\ Device(u).legacy = Legacy /\ Device(u).before = (changes = 0)
      /\ Device(u).server = serverRules[u] /\ Device(u).db = dbRules[u][u]
      /\ Device(u).local = local[u] /\ Device(u).stored = stored[u]
  BY <1>1, NowFits
<1>3. DeviceOK(u) /\ StartOK(svc, ~loaded) /\ Starting(svc) /\ session \in {u, NoUser}
      /\ u # NoUser /\ online
  BY RulesAssumption DEF EnforcedNow, DeviceOK
<1>4. svc.runs # <<>>
  BY <1>1, ServiceFields
<1>5. RunsOK(svc, Device(u), u) /\ ~Device(u).before
  BY <1>2, <1>4 DEF FitsAt, Fits, BeforeOK
<1> QED
  BY <1>1, <1>2, <1>3, <1>4, <1>5 DEF RunsOK

\* A scan takes away only what the user may not read.
LEMMA PurgeTypeEnforced ==
  ASSUME ServiceInv, NEW u \in Users, Undisturbed(u), EnforcedNow(u), UNCHANGED scenario,
         ~UseFault, NEW k \in DOMAIN svc.runs, NEW d \in Docs, PurgeType(k, d)
  PROVE  EnforcedNow(u)'
<1> DEFINE x == Device(u)
           y == [legacy |-> Legacy, before |-> changes = 0, server |-> serverRules[u],
                 db |-> dbRules[u][u], local |-> local'[u], stored |-> stored[u]]
           todo == svc.runs[k].todo \ {d}
           run == [svc.runs[k] EXCEPT !.todo = todo]
<1>1. /\ TypeOK /\ svc \in Service /\ svc.runs[k] \in Run
      /\ FitsAt(svc, Now, x, u) /\ Now.loaded = loaded
      /\ x.legacy = Legacy /\ x.before = (changes = 0)
      /\ x.server = serverRules[u] /\ x.db = dbRules[u][u]
      /\ x.local = local[u] /\ x.stored = stored[u]
      /\ DeviceOK(u) /\ StartOK(svc, ~loaded) /\ Starting(svc) /\ session \in {u, NoUser}
      /\ changes # 0 /\ RunOK(x, u, svc.runs[k])
  BY UnderWay
<1>2. /\ UNCHANGED <<serverRules, dbRules, synced, stored, session, loaded, online, changes>>
      /\ session # NoUser /\ d \in svc.runs[k].todo /\ svc.runs[k].pc \in {"first", "second"}
      /\ svc' = [svc EXCEPT !.runs[k].todo = todo]
      /\ local' = local \/ local' = [local EXCEPT ![session] = local[session] \ {d}]
  BY DEF PurgeType, Scanning, RunOnly, pageVars
<1>3. ~Legacy /\ d \notin serverRules[u] /\ svc.runs[k].todo \cap serverRules[u] = {}
  BY <1>1, <1>2 DEF RunOK
<1>4. local'[u] = local[u] \/ local'[u] = local[u] \ {d}
  BY <1>1, <1>2 DEF TypeOK
<1>5. /\ Device(u)' = y /\ y.legacy = Legacy /\ y.before = x.before /\ y.server = x.server
      /\ y.local = local'[u] /\ y.stored = x.stored /\ y.db = x.db
  BY <1>1, <1>2 DEF Device, Legacy
<1>6. /\ run \in Run /\ run.rules = svc.runs[k].rules /\ run.pc = svc.runs[k].pc
      /\ run.db = svc.runs[k].db /\ run.todo = todo /\ run.initial = svc.runs[k].initial
  BY <1>1 DEF Run
<1>7. svc' = [svc EXCEPT !.runs = [svc.runs EXCEPT ![k] = run]]
  BY <1>1, <1>2 DEF Service, Run
<1>8. todo \cap serverRules[u] = {}
  BY <1>3
<1> HIDE DEF x, y, todo, run
<1>9. Fits(svc, y, u)
  <2>1. x.local \subseteq x.server => y.local \subseteq y.server
    BY <1>1, <1>4, <1>5
  <2>2. x.local = x.server => y.local = y.server
    BY <1>1, <1>3, <1>4, <1>5
  <2> QED
    BY <1>1, <1>5, <2>1, <2>2, DeviceFits DEF FitsAt
<1>10. RunOK(y, u, run)
  BY <1>1, <1>2, <1>3, <1>4, <1>5, <1>6, <1>8 DEF RunOK, Fine
<1>11. Fits(svc', y, u) /\ StartOK(svc', ~loaded) /\ Starting(svc')
  BY <1>1, <1>6, <1>7, <1>9, <1>10, RunFits
<1>12. DeviceOK(u)'
  <2>1. local[u] = serverRules[u] => local'[u] = serverRules[u]
    BY <1>3, <1>4
  <2> QED
    BY <1>1, <1>2, <1>3, <2>1 DEF DeviceOK, Legacy
<1> QED
  BY <1>2, <1>5, <1>11, <1>12 DEF EnforcedNow

\* The legacy adapter: the check either finds nothing the user may not read, or the
\* database is destroyed, and everything starts from the beginning.
LEMMA CheckLegacyEnforced ==
  ASSUME ServiceInv, NEW u \in Users, Undisturbed(u), EnforcedNow(u), UNCHANGED scenario,
         NEW k \in DOMAIN svc.runs, CheckLegacy(k)
  PROVE  EnforcedNow(u)'
<1> DEFINE x == Device(u)
           r == svc.runs[k]
<1>1. /\ TypeOK /\ svc \in Service /\ r \in Run
      /\ FitsAt(svc, Now, x, u) /\ Now.loaded = loaded
      /\ x.legacy = Legacy /\ x.before = (changes = 0)
      /\ x.server = serverRules[u] /\ x.db = dbRules[u][u]
      /\ x.local = local[u] /\ x.stored = stored[u]
      /\ DeviceOK(u) /\ StartOK(svc, ~loaded) /\ Starting(svc) /\ session \in {u, NoUser}
      /\ changes # 0 /\ RunOK(x, u, r)
      /\ Legacy => svc.ability \subseteq x.server \/ x.local \subseteq x.server
  BY UnderWay
<1>2. /\ UNCHANGED <<serverRules, online, changes>> /\ r.pc = "check" /\ session = u
  BY <1>1 DEF CheckLegacy, budgetVars
<1>3. Legacy /\ r.todo = Docs \ r.rules /\ Fine(x, r.rules)
  BY <1>1, <1>2 DEF RunOK
<1>4. CASE \E d \in r.todo : d \in local[session] \ svc.ability
  <2>1. /\ local' = [local EXCEPT ![u] = {}] /\ dbRules' = [dbRules EXCEPT ![u] = AllowAll]
        /\ synced' = [synced EXCEPT ![u] = FALSE] /\ session' = NoUser /\ loaded' = FALSE
        /\ svc' = NewPage
    BY <1>2, <1>4 DEF CheckLegacy
  <2>2. local'[u] = {} /\ dbRules'[u] = AllowAll /\ ~synced'[u] /\ AllowAll[u] = Docs
        /\ AllowAll[NoUser] = Docs
    BY <1>1, <2>1 DEF TypeOK, AllowAll
  <2> DEFINE y == [legacy |-> Legacy, before |-> FALSE, server |-> serverRules[u],
                   db |-> Docs, local |-> {}, stored |-> stored'[u]]
  <2>3. Device(u)' = y
    BY <1>1, <1>2, <2>2 DEF Device, Legacy
  <2>4. Fine(y, y.db) /\ ~y.before
    BY <1>3 DEF Fine
  <2> HIDE DEF y
  <2>5. Fits(NewPage, y, u) /\ StartOK(NewPage, TRUE) /\ Starting(NewPage)
    BY <2>2, <2>4 DEF Fits, CurrentOK, WaitingOK, RunsOK, BeforeOK, StartOK, Starting, Initial,
                      NewPage, Okay, LessForPublic
  <2>6. DeviceOK(u)'
    BY <1>1, <1>2, <1>3, <2>1, <2>2 DEF DeviceOK, Legacy, LessForPublic
  <2> QED
    BY <2>1, <2>3, <2>5, <2>6 DEF EnforcedNow
<1>5. CASE ~\E d \in r.todo : d \in local[session] \ svc.ability
  <2>1. /\ svc' = [svc EXCEPT !.runs[k].pc = "first", !.runs[k].todo = {}]
        /\ UNCHANGED <<deviceVars, pageVars>>
    BY <1>5 DEF CheckLegacy
  <2>2. UNCHANGED <<deviceVars, session, loaded>>
    BY <2>1 DEF pageVars
  <2>3. Device(u)' = x /\ DeviceOK(u)'
    BY <1>1, <1>2, <2>2, DeviceStays
  <2>4. local[u] \subseteq serverRules[u]
    <3>1. local[u] \subseteq Docs
      BY <1>1 DEF TypeOK
    <3>2. CASE r.rules = serverRules[u]
      <4>1. \A d \in local[u] : d \in serverRules[u] \/ d \in svc.ability
        BY <1>2, <1>3, <1>5, <3>1, <3>2
      <4> QED
        BY <1>1, <1>3, <4>1
    <3> QED
      BY <1>1, <1>3, <3>2 DEF Fine
  <2> DEFINE none == {}
             run == [r EXCEPT !.pc = "first", !.todo = none]
  <2>5. /\ run \in Run /\ run.rules = r.rules /\ run.pc = "first"
        /\ run.todo = {} /\ run.initial = r.initial
    BY <1>1 DEF Run
  <2>6. svc' = [svc EXCEPT !.runs = [svc.runs EXCEPT ![k] = run]]
    BY <1>1, <2>1 DEF Service, Run
  <2> HIDE DEF x, run, none, r
  <2>7. RunOK(x, u, run)
    BY <1>1, <1>3, <2>4, <2>5 DEF RunOK
  <2>8. run.initial = svc.runs[k].initial /\ Fits(svc, x, u)
    BY <1>1, <2>5 DEF r, FitsAt
  <2>9. Fits(svc', x, u) /\ StartOK(svc', ~loaded) /\ Starting(svc')
    BY <1>1, <2>5, <2>6, <2>7, <2>8, RunFits
  <2> QED
    BY <2>2, <2>3, <2>9 DEF EnforcedNow
<1> QED
  BY <1>4, <1>5

\* The re-sync starts.
LEMMA StartResyncEnforced ==
  ASSUME ServiceInv, NEW u \in Users, Undisturbed(u), EnforcedNow(u), UNCHANGED scenario,
         NEW k \in DOMAIN svc.runs, StartResync(k)
  PROVE  EnforcedNow(u)'
<1> DEFINE x == Device(u)
           r == svc.runs[k]
<1>1. /\ TypeOK /\ svc \in Service /\ r \in Run
      /\ FitsAt(svc, Now, x, u) /\ Now.loaded = loaded /\ online
      /\ DeviceOK(u) /\ StartOK(svc, ~loaded) /\ Starting(svc) /\ session \in {u, NoUser}
      /\ RunOK(x, u, r)
  BY UnderWay
<1>2. /\ UNCHANGED <<serverRules, deviceVars, online, changes, session, loaded>>
      /\ r.pc = "first" /\ session = u
      /\ svc' = [svc EXCEPT !.runs[k].pc = "syncing", !.runs[k].db = u]
  BY <1>1 DEF StartResync, budgetVars, pageVars
<1>3. Device(u)' = x /\ DeviceOK(u)'
  BY <1>1, <1>2, DeviceStays
<1> DEFINE run == [r EXCEPT !.pc = "syncing", !.db = u]
<1>4. /\ run \in Run /\ run.rules = r.rules /\ run.pc = "syncing" /\ run.db = u
      /\ run.todo = r.todo /\ run.initial = r.initial
  BY <1>1 DEF Run
<1>5. svc' = [svc EXCEPT !.runs = [svc.runs EXCEPT ![k] = run]]
  BY <1>1, <1>2 DEF Service, Run
<1> HIDE DEF x, run, r
<1>6. RunOK(x, u, run)
  BY <1>1, <1>2, <1>4 DEF RunOK
<1>7. run.initial = svc.runs[k].initial /\ Fits(svc, x, u)
  BY <1>1, <1>4 DEF r, FitsAt
<1>8. Fits(svc', x, u) /\ StartOK(svc', ~loaded) /\ Starting(svc')
  BY <1>1, <1>4, <1>5, <1>6, <1>7, RunFits
<1> QED
  BY <1>2, <1>3, <1>8 DEF EnforcedNow

\* When it is complete, the database has exactly what the user may read.
LEMMA ResyncCompletesEnforced ==
  ASSUME ServiceInv, NEW u \in Users, Undisturbed(u), EnforcedNow(u), UNCHANGED scenario,
         ~UseFault, NEW k \in DOMAIN svc.runs, ResyncCompletes(k)
  PROVE  EnforcedNow(u)'
<1> DEFINE x == Device(u)
           y == [legacy |-> Legacy, before |-> changes = 0, server |-> serverRules[u],
                 db |-> serverRules[u], local |-> serverRules[u], stored |-> stored[u]]
           r == svc.runs[k]
           todo == IF Legacy THEN {} ELSE Docs \ r.rules
           run == [r EXCEPT !.pc = "second", !.todo = todo]
           s == [svc EXCEPT !.runs[k].pc = "second", !.runs[k].todo = todo]
<1>1. /\ TypeOK /\ svc \in Service /\ Now \in Context /\ svc.known /\ r \in Run
      /\ FitsAt(svc, Now, x, u) /\ Now.user = session /\ Now.loaded = loaded
      /\ x.legacy = Legacy /\ x.before = (changes = 0)
      /\ x.server = serverRules[u] /\ x.db = dbRules[u][u]
      /\ x.local = local[u] /\ x.stored = stored[u]
      /\ DeviceOK(u) /\ StartOK(svc, ~loaded) /\ Starting(svc) /\ session \in {u, NoUser}
      /\ changes # 0 /\ RunOK(x, u, r)
  BY UnderWay
<1>2. r.pc = "syncing" /\ r.db = u
  BY <1>1 DEF ResyncCompletes, RunOK
<1>3. /\ UNCHANGED <<serverRules, stored, session, loaded, online, changes>>
      /\ local' = [local EXCEPT ![u] = IF Legacy THEN local[u] \cup serverRules[u]
                                       ELSE serverRules[u]]
      /\ dbRules' = [dbRules EXCEPT ![u] = serverRules]
      /\ synced' = [synced EXCEPT ![u] = TRUE]
      /\ svc' = RulesUpdated(s, serverRules, Now) \/ svc' = s
  BY <1>2 DEF ResyncCompletes, RunOnly, pageVars, Becomes
<1>4. Legacy => local[u] \subseteq serverRules[u]
  BY <1>1, <1>2 DEF RunOK
<1>5. local'[u] = serverRules[u] /\ dbRules'[u] = serverRules /\ synced'[u]
  <2>1. Legacy => local[u] \cup serverRules[u] = serverRules[u]
    BY <1>4
  <2> QED
    BY <1>1, <1>3, <2>1 DEF TypeOK
<1>6. /\ Device(u)' = y /\ y.legacy = Legacy /\ y.before = x.before /\ y.server = x.server
      /\ y.local = y.server /\ y.stored = x.stored /\ y.db = y.server
  BY <1>1, <1>3, <1>5 DEF Device, Legacy
<1>7. serverRules \in RuleVersion /\ serverRules \in scenario.rules /\ serverRules # AllowAll
  BY <1>1, RulesAssumption DEF TypeOK, RuleVersion, DeviceOK
<1>8. r.rules \in SUBSET Docs /\ todo \in SUBSET Docs
  BY <1>1 DEF Run
<1> HIDE DEF todo
<1>9. /\ run \in Run /\ run.rules = r.rules /\ run.pc = "second" /\ run.todo = todo
      /\ run.initial = r.initial /\ run.db = r.db
  BY <1>1, <1>8 DEF Run
<1>10. s = [svc EXCEPT !.runs = [svc.runs EXCEPT ![k] = run]]
  BY <1>1 DEF Service, Run
<1>11. s \in Service
  <2>1. ServiceOK(s, Now)
    BY <1>1, <1>8, GoesOn, RunFacts
  <2> QED
    BY <2>1 DEF ServiceOK
<1> HIDE DEF x, y, run, s
<1>12. Fine(y, y.db)
  BY <1>6 DEF Fine
<1>13. Fits(svc, y, u)
  BY <1>1, <1>6, <1>12, DeviceFits DEF FitsAt
<1>14. RunOK(y, u, run)
  <2>1. Fine(y, run.rules)
    BY <1>1, <1>6, <1>9 DEF RunOK, Fine
  <2>2. IF Legacy THEN todo = {} ELSE todo \cap y.server = {}
    BY <1>9, <2>1, <1>6 DEF todo, Fine
  <2> QED
    BY <1>6, <1>9, <2>1, <2>2 DEF RunOK
<1>15. Fits(s, y, u) /\ StartOK(s, ~loaded) /\ Starting(s)
  BY <1>1, <1>9, <1>10, <1>13, <1>14, RunFits
<1>16. FitsAt(s, Now, y, u) /\ (y.legacy => LessForPublic(serverRules, u))
       /\ serverRules[u] = y.server
  BY <1>1, <1>6, <1>7, <1>15 DEF FitsAt, Reads, Undisturbed
<1>17. Fits(svc', y, u) /\ StartOK(svc', ~loaded) /\ Starting(svc')
  <2>1. CASE svc' = s
    BY <1>15, <2>1
  <2>2. CASE svc' = RulesUpdated(s, serverRules, Now)
    BY <1>1, <1>7, <1>11, <1>12, <1>15, <1>16, <2>2, RulesUpdatedFits DEF FitsAt
  <2> QED
    BY <1>3, <2>1, <2>2
<1>18. DeviceOK(u)'
  BY <1>1, <1>3, <1>5, <1>6, <1>7, <1>16 DEF DeviceOK, Legacy
<1> QED
  BY <1>3, <1>6, <1>17, <1>18 DEF EnforcedNow

\* The rules are stored when the database has exactly what the user may read.
LEMMA StoreEnforced ==
  ASSUME ServiceInv, NEW u \in Users, Undisturbed(u), EnforcedNow(u), UNCHANGED scenario,
         NEW k \in DOMAIN svc.runs, Store(k)
  PROVE  EnforcedNow(u)'
<1> DEFINE x == Device(u)
           y == [legacy |-> Legacy, before |-> changes = 0, server |-> serverRules[u],
                 db |-> dbRules[u][u], local |-> local[u], stored |-> stored'[u]]
           c == [Now EXCEPT !.stored = stored']
           thrown == session = NoUser
<1>1. /\ TypeOK /\ svc \in Service /\ Now \in Context /\ svc.known /\ svc.runs[k] \in Run
      /\ FitsAt(svc, Now, x, u) /\ Now.user = session /\ Now.loaded = loaded
      /\ x.legacy = Legacy /\ x.before = (changes = 0)
      /\ x.server = serverRules[u] /\ x.db = dbRules[u][u]
      /\ x.local = local[u] /\ x.stored = stored[u]
      /\ DeviceOK(u) /\ StartOK(svc, ~loaded) /\ Starting(svc) /\ session \in {u, NoUser}
      /\ changes # 0 /\ RunOK(x, u, svc.runs[k]) /\ Fine(x, x.db) /\ Fine(x, svc.current[u])
      /\ \A i \in DOMAIN svc.waiting : Fine(x, svc.waiting[i].rules)
  BY UnderWay
<1>2. /\ UNCHANGED <<serverRules, local, dbRules, synced, session, loaded, online, changes>>
      /\ svc.runs[k].pc = "second"
      /\ stored' = IF session = NoUser THEN stored
                   ELSE [stored EXCEPT ![session] = {svc.runs[k].rules}]
      /\ svc' = Over(svc, k, thrown, c)
  BY DEF Store, RunOnly, pageVars, Becomes
<1>3. local[u] = serverRules[u]
  BY <1>1, <1>2 DEF RunOK
<1>4. stored' \in Stored
  BY <1>1, <1>2 DEF TypeOK, Stored, Run
<1>5. c \in Context /\ c.user = session /\ c.loaded = loaded /\ c.stored = stored'
  BY <1>1, <1>4 DEF Context
<1>6. /\ Device(u)' = y /\ y.legacy = x.legacy /\ y.before = FALSE /\ y.server = x.server
      /\ y.local = x.local /\ y.db = x.db /\ y.stored = stored'[u]
  BY <1>1, <1>2 DEF Device, Legacy
<1>7. thrown \in BOOLEAN
  OBVIOUS
<1> HIDE DEF x, y, c, thrown
<1>8. /\ \A r : Fine(x, r) => Fine(y, r)
      /\ \A r : RunOK(x, u, r) => RunOK(y, u, r)
  BY <1>6 DEF Fine, RunOK
<1>9. Fits(svc, y, u)
  <2>1. CurrentOK(svc, y, u)
    BY <1>1, <1>6, <1>8 DEF FitsAt, Fits, CurrentOK, Okay
  <2>2. WaitingOK(svc, y, u)
    BY <1>1, <1>8 DEF WaitingOK, WaitsOK, Okay
  <2>3. RunsOK(svc, y, u)
    BY <1>1, <1>6, <1>8 DEF FitsAt, Fits, RunsOK
  <2>4. BeforeOK(svc, y, u)
    BY <1>6 DEF BeforeOK
  <2> QED
    BY <2>1, <2>2, <2>3, <2>4 DEF Fits
<1>10. FitsAt(svc, c, y, u)
  BY <1>1, <1>5, <1>6, <1>9 DEF FitsAt, Reads
<1>11. FitsAt(svc', c, y, u) /\ Starting(svc')
  BY <1>1, <1>2, <1>5, <1>7, <1>10, OverFits
<1>12. DeviceOK(u)'
  BY <1>1, <1>2, <1>3 DEF DeviceOK, Legacy
<1> QED
  BY <1>2, <1>5, <1>6, <1>11, <1>12 DEF EnforcedNow, FitsAt

\* No step of an enforcement spoils it, as long as nothing fails.
LEMMA RunEnforced ==
  ASSUME ServiceInv, NEW u \in Users, Undisturbed(u), EnforcedNow(u), UNCHANGED scenario,
         ~UseFault, NEW k \in DOMAIN svc.runs, RunStep(k)
  PROVE  EnforcedNow(u)'
<1>1. online
  BY DEF EnforcedNow, DeviceOK
<1>2. ~ScanFails(k) /\ ~ResyncFails(k)
  BY <1>1 DEF ScanFails, ResyncFails
<1> QED
  BY <1>2, PurgeTypeEnforced, CheckLegacyEnforced, StartResyncEnforced,
     ResyncCompletesEnforced, StoreEnforced DEF RunStep

\* It holds of every state.
LEMMA EnforcedInvariant ==
  ASSUME NEW u \in Users
  PROVE  Spec => []EnforcedInv(u)
<1>1. Init => EnforcedInv(u)
  <2> SUFFICES ASSUME Init, Undisturbed(u) PROVE EnforcedNow(u)
    BY DEF EnforcedInv
  <2> DEFINE x == Device(u)
  <2>1. /\ synced[u] /\ local[u] = serverRules[u] /\ dbRules[u] = serverRules
        /\ stored[u] = {serverRules[u]} /\ online /\ session = NoUser /\ loaded = FALSE
        /\ svc = NewPage /\ serverRules \in scenario.rules /\ scenario \in Scenarios
    BY DEF Init, Undisturbed
  <2>2. serverRules # AllowAll
    BY <2>1, ScenarioAssumption, RulesAssumption DEF Scenario
  <2>3. x.db = x.server /\ x.stored = {x.server}
    BY <2>1 DEF Device
  <2> HIDE DEF x
  <2>4. Fits(NewPage, x, u)
    BY <2>3 DEF Fits, CurrentOK, WaitingOK, RunsOK, BeforeOK, NewPage, LessForPublic, AllowAll,
                Okay
  <2>5. StartOK(NewPage, TRUE) /\ Starting(NewPage)
    BY DEF StartOK, Starting, NewPage, Initial
  <2>6. DeviceOK(u)
    BY <2>1, <2>2 DEF DeviceOK, Undisturbed
  <2> QED
    BY <2>1, <2>4, <2>5, <2>6 DEF EnforcedNow, x
<1>2. ServiceInv /\ EnforcedInv(u) /\ [Next]_vars => EnforcedInv(u)'
  <2> SUFFICES ASSUME ServiceInv, EnforcedInv(u), [Next]_vars, Undisturbed(u)'
               PROVE  EnforcedNow(u)'
    BY DEF EnforcedInv
  <2>1. CASE UNCHANGED vars
    <3>1. UNCHANGED <<serverRules, deviceVars, online, scenario, changes, faults, session, loaded,
                      svc>>
      BY <2>1 DEF vars, pageVars, budgetVars
    <3>2. EnforcedNow(u)
      BY <3>1 DEF EnforcedInv, Undisturbed, Legacy
    <3>3. Device(u)' = Device(u) /\ DeviceOK(u)'
      BY <3>1, <3>2, DeviceStays DEF EnforcedNow, DeviceOK
    <3> QED
      BY <3>1, <3>2, <3>3 DEF EnforcedNow
  <2>2. CASE Next
    <3>1. Undisturbed(u) /\ UNCHANGED scenario /\ ~UseFault
      BY <2>2, StillUndisturbed DEF ServiceInv
    <3>2. EnforcedNow(u)
      BY <3>1 DEF EnforcedInv
    <3> QED
      BY <2>2, <3>1, <3>2, PageEnforced, EnvironmentEnforced, LiveSyncEnforced, RunEnforced
         DEF Next
  <2> QED
    BY <2>1, <2>2
<1> QED
  BY <1>1, <1>2, ServiceInvariant, PTL DEF Spec

\* The rules change once on a device with one user, and no request fails: when the rules
\* stored as enforced are those in force, the database holds exactly what they permit,
\* however often pages are loaded and sessions end meanwhile, for any rules, any number
\* of documents and enforcements, on both adapters.
THEOREM EnforcedCorrect ==
  Spec => [](\A u \in Users : Undisturbed(u) /\ session = u => EnforcedMeansEnforced)
<1> DEFINE P(u) == Undisturbed(u) /\ session = u => EnforcedMeansEnforced
<1>1. ASSUME NEW u \in Users PROVE Spec => []P(u)
  <2>1. EnforcedInv(u) => P(u)
    BY DEF EnforcedInv, EnforcedNow, DeviceOK, EnforcedMeansEnforced, Settled
  <2> QED
    BY <2>1, EnforcedInvariant, PTL
<1> QED
  BY <1>1
=============================================================================
