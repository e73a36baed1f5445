----------------------- MODULE CascadingActions_proofs -----------------------
(***************************************************************************)
(* Proofs about CascadingActions, for any records and references between   *)
(* them, any selection, depth of the recursion, edits and failures.        *)
(*                                                                         *)
(* What each step does is stated first, once for all proofs; the           *)
(* invariants are then about the frames of the recursion, one at a time.   *)
(***************************************************************************)
EXTENDS CascadingActions, SequenceTheorems, FiniteSetTheorems, TLAPS

-----------------------------------------------------------------------------
(***************************************************************************)
(* Records, frames and the stack                                           *)
(***************************************************************************)

\* The fields of a record
LEMMA RecordFields ==
  ASSUME NEW r \in Record
  PROVE  /\ r.exists \in BOOLEAN /\ r.rev \in Nat /\ r.refs \in [FieldNames -> SUBSET Entities]
         /\ r.personal \in BOOLEAN /\ r.anonymized \in BOOLEAN
  BY DEF Record

\* A record that does not exist
LEMMA MissingTyped == Missing \in Record /\ ~Missing.exists /\ ~Missing.personal /\ ~Missing.anonymized
  BY DEF Missing, NoRefs, Record

\* What is known of the results
LEMMA ResultFields ==
  ASSUME NEW r \in Result
  PROVE  r.originals \in [Entities -> Record] /\ r.retaining \subseteq Entities
  BY DEF Result

\* No record has been changed, and none is to be reported.
LEMMA NoResultTyped ==
  /\ NoResult \in Result /\ NoResult.retaining = {}
  /\ \A e \in Entities : ~NoResult.originals[e].exists
  BY MissingTyped DEF NoResult, Result

\* One record has been changed.
LEMMA ChangedTyped ==
  ASSUME NEW e \in Entities, NEW original \in Record
  PROVE  /\ Changed(e, original) \in Result /\ Changed(e, original).retaining = {}
         /\ Changed(e, original).originals[e] = original
         /\ \A x \in Entities \ {e} : ~Changed(e, original).originals[x].exists
<1> DEFINE originals == [[x \in Entities |-> Missing] EXCEPT ![e] = original]
<1>1. /\ originals \in [Entities -> Record] /\ originals[e] = original
      /\ \A x \in Entities \ {e} : originals[x] = Missing
  BY MissingTyped
<1>2. Changed(e, original) = [originals |-> originals, retaining |-> {}]
  BY DEF Changed, NoResult
<1> HIDE DEF originals
<1> QED
  BY <1>1, <1>2, MissingTyped DEF Result

\* mergeResults() keeps what was found first, and reports all records.
LEMMA MergedTyped ==
  ASSUME NEW r \in Result, NEW other \in Result
  PROVE  /\ MergeResults(r, other) \in Result
         /\ MergeResults(r, other).retaining = r.retaining \cup other.retaining
         /\ \A e \in Entities :
               MergeResults(r, other).originals[e] =
                  IF r.originals[e].exists THEN r.originals[e] ELSE other.originals[e]
<1> DEFINE originals == [e \in Entities |-> IF r.originals[e].exists
                                            THEN r.originals[e] ELSE other.originals[e]]
           retaining == r.retaining \cup other.retaining
<1>1. originals \in [Entities -> Record] /\ retaining \subseteq Entities
  BY ResultFields
<1>2. MergeResults(r, other) = [originals |-> originals, retaining |-> retaining]
  BY DEF MergeResults
<1>3. \A e \in Entities : originals[e] = IF r.originals[e].exists
                                         THEN r.originals[e] ELSE other.originals[e]
  OBVIOUS
<1> HIDE DEF originals
<1> QED
  BY <1>1, <1>2, <1>3 DEF Result

\* The fields of a frame
LEMMA FrameFields ==
  ASSUME NEW x \in Frame
  PROVE  /\ x.id \in Entities /\ x.entity \in Record /\ x.pc \in {"begin", "load", "cascade"}
         /\ x.affected \in [Entities -> Record] /\ x.todo \subseteq Step /\ x.result \in Result
  BY DEF Frame

\* The fields of the action
LEMMA ActionFields ==
  ASSUME NEW a \in Action
  PROVE  /\ a.kind \in {"none", "delete", "anonymize"}
         /\ a.state \in {"idle", "running", "done", "failed", "aborted",
                         "undoing", "overwriting", "undone", "undoFailed"}
         /\ a.selected \in Seq([id : Entities, entity : Record]) /\ a.result \in Result
  BY DEF Action

\* The innermost frame, and the one that called it
LEMMA TopTyped ==
  ASSUME TypeOK, stack # <<>>
  PROVE  /\ Len(stack) \in Nat \ {0} /\ Top \in Frame
         /\ \A i \in 1..Len(stack) : stack[i] \in Frame
         /\ Len(stack) # 1 => Caller \in Frame
<1>1. stack \in Seq(Frame)
  BY DEF TypeOK
<1>2. Len(stack) \in Nat \ {0} /\ \A i \in 1..Len(stack) : stack[i] \in Frame
  <2>1. ASSUME NEW S, NEW s \in Seq(S), s # <<>>
        PROVE  Len(s) \in Nat \ {0} /\ \A i \in 1..Len(s) : s[i] \in S
    BY <2>1
  <2> QED
    BY <1>1, <2>1
<1>3. Top \in Frame
  BY <1>2 DEF Top
<1>4. Len(stack) # 1 => Caller \in Frame
  <2> SUFFICES ASSUME Len(stack) # 1 PROVE stack[Len(stack) - 1] \in Frame
    BY DEF Caller
  <2>1. \A n \in Nat \ {0} : n # 1 => n - 1 \in 1..n
    OBVIOUS
  <2> QED
    BY <1>2, <2>1
<1> QED
  BY <1>2, <1>3, <1>4

-----------------------------------------------------------------------------
(***************************************************************************)
(* What the steps do to the stack                                          *)
(***************************************************************************)

\* Only the innermost frame changes, to this one.
ReplacesTop(x) ==
    /\ stack' \in Seq(Frame) /\ Len(stack') = Len(stack)
    /\ \A i \in 1..(Len(stack) - 1) : stack'[i] = stack[i]
    /\ stack'[Len(stack)] = x

\* Replacing the innermost frame by one that is typed leaves the others as they are.
LEMMA TopReplaced ==
  ASSUME TypeOK, stack # <<>>, NEW x \in Frame, stack' = SetTop(x)
  PROVE  ReplacesTop(x)
  BY DEF TypeOK, SetTop, ReplacesTop

\* A frame that begins
Begins(x, e, instance) ==
    /\ x \in Frame /\ x.id = e /\ x.entity = instance /\ x.todo = {} /\ x.result = NoResult
    /\ x.pc = IF action.kind = "delete" /\ e \notin AccountHolders THEN "load" ELSE "begin"

\* Entering a record puts a frame that begins on top of the others.
LEMMA Pushed ==
  ASSUME NEW frames \in Seq(Frame), NEW e \in Entities, NEW instance \in Record,
         Push(e, instance, frames)
  PROVE  /\ stack' \in Seq(Frame) /\ Len(stack') = Len(frames) + 1
         /\ \A i \in 1..Len(frames) : stack'[i] = frames[i]
         /\ Begins(stack'[Len(frames) + 1], e, instance)
<1> DEFINE pc == IF action.kind = "delete" /\ e \notin AccountHolders THEN "load" ELSE "begin"
           none == [x \in Entities |-> Missing]
           frame == [id |-> e, entity |-> instance, pc |-> pc, affected |-> none, todo |-> {},
                     result |-> NoResult]
<1>1. pc \in {"begin", "load"} /\ none \in [Entities -> Record]
  BY MissingTyped
<1>2. stack' = Append(frames, frame)
  BY DEF Push
<1>3. pc = IF action.kind = "delete" /\ e \notin AccountHolders THEN "load" ELSE "begin"
  OBVIOUS
<1> HIDE DEF pc, none
<1>4. /\ frame \in Frame /\ frame.id = e /\ frame.entity = instance /\ frame.todo = {}
      /\ frame.result = NoResult /\ frame.pc = pc
  BY <1>1, NoResultTyped DEF Frame
<1> HIDE DEF frame
<1> QED
  BY <1>2, <1>3, <1>4 DEF Begins

\* The innermost frame is gone, and the one that called it has this instance and this
\* result of it; or the action has the result.
Returns(instance, result) ==
    /\ stack' \in Seq(Frame) /\ Len(stack') = Len(stack) - 1
    /\ \A i \in 1..(Len(stack) - 2) : stack'[i] = stack[i]
    /\ action' \in Action
    /\ action'.kind = action.kind /\ action'.state = action.state
    /\ action'.selected = action.selected
    /\ action'.result = IF Len(stack) = 1 THEN MergeResults(action.result, result)
                                          ELSE action.result
    /\ Len(stack) # 1 =>
          LET x == stack'[Len(stack) - 1]
          IN /\ x.id = Caller.id /\ x.entity = Caller.entity /\ x.pc = Caller.pc
             /\ x.todo = Caller.todo
             /\ \A e \in Entities :
                   x.affected[e] = IF e = Top.id THEN instance ELSE Caller.affected[e]
             /\ x.result = MergeResults(Caller.result, result)

\* Returning merges the result into the frame that called, or into the action.
LEMMA Returned ==
  ASSUME TypeOK, stack # <<>>, NEW instance \in Record, NEW result \in Result,
         Return(instance, result)
  PROVE  Returns(instance, result)
<1>1. CASE Len(stack) = 1
  <2> DEFINE merged == MergeResults(action.result, result)
  <2>1. action' = [action EXCEPT !.result = merged] /\ stack' = <<>>
    BY <1>1 DEF Return
  <2>2. action \in Action /\ merged \in Result
    BY ActionFields, MergedTyped DEF TypeOK
  <2> HIDE DEF merged
  <2>3. /\ action' \in Action /\ action'.kind = action.kind /\ action'.state = action.state
        /\ action'.selected = action.selected /\ action'.result = merged
    BY <2>1, <2>2 DEF Action
  <2> QED
    BY <1>1, <2>1, <2>3 DEF Returns, merged
<1>2. CASE Len(stack) # 1
  <2> DEFINE merged == MergeResults(Caller.result, result)
             affected == [Caller.affected EXCEPT ![Top.id] = instance]
             frame == [Caller EXCEPT !.affected = affected, !.result = merged]
             n == Len(stack)
  <2>1. Caller \in Frame /\ Top.id \in Entities /\ n \in Nat /\ n > 1
    <3>1. Caller \in Frame /\ Top \in Frame /\ n \in Nat \ {0}
      BY <1>2, TopTyped
    <3>2. Top.id \in Entities
      BY <3>1, FrameFields
    <3>3. \A k \in Nat \ {0} : k # 1 => k \in Nat /\ k > 1
      OBVIOUS
    <3> HIDE DEF n
    <3>4. n # 1
      BY <1>2 DEF n
    <3> QED
      BY <3>1, <3>2, <3>3, <3>4
  <2>2. merged \in Result
    BY <2>1, FrameFields, MergedTyped
  <2>3. /\ affected \in [Entities -> Record]
        /\ \A e \in Entities : affected[e] = IF e = Top.id THEN instance ELSE Caller.affected[e]
    BY <2>1, FrameFields
  <2>4. stack' = [Front(stack) EXCEPT ![n - 1] = frame] /\ action' = action
    BY <1>2, <2>1 DEF Return, Frame
  <2> HIDE DEF merged, affected
  <2>5. /\ frame \in Frame /\ frame.id = Caller.id /\ frame.entity = Caller.entity
        /\ frame.pc = Caller.pc /\ frame.todo = Caller.todo /\ frame.affected = affected
        /\ frame.result = merged
    BY <2>1, <2>2, <2>3 DEF Frame
  <2> HIDE DEF frame
  <2>6. /\ Front(stack) \in Seq(Frame) /\ Len(Front(stack)) = n - 1
        /\ \A i \in 1..(n - 1) : Front(stack)[i] = stack[i]
    BY <2>1 DEF Front, TypeOK
  <2>7. /\ stack' \in Seq(Frame) /\ Len(stack') = n - 1 /\ stack'[n - 1] = frame
        /\ \A i \in 1..(n - 2) : stack'[i] = stack[i]
    BY <2>1, <2>4, <2>5, <2>6
  <2> QED
    BY <1>2, <2>3, <2>4, <2>5, <2>7 DEF Returns, merged, TypeOK
<1> QED
  BY <1>1, <1>2

-----------------------------------------------------------------------------
(***************************************************************************)
(* The next affected record and field                                      *)
(***************************************************************************)

\* Induction over a set of numbers: were n the least number outside, the numbers up
\* to n outside would be as many as those without n, which precede them.
LEMMA SetInduction ==
  ASSUME NEW T, 0 \in T, \A n \in Nat : n \in T => n + 1 \in T
  PROVE  Nat \subseteq T
<1> SUFFICES ASSUME NEW n \in Nat, n \notin T PROVE FALSE
  OBVIOUS
<1> DEFINE U == {k \in 0..n : k \notin T}
           pred == [k \in U |-> k - 1]
<1>1. IsFiniteSet(U) /\ Cardinality(U) \in Nat
  <2>1. IsFiniteSet(0..n) /\ U \subseteq 0..n
    BY FS_Interval
  <2> HIDE DEF U
  <2>2. IsFiniteSet(U)
    BY <2>1, FS_Subset
  <2> QED
    BY <2>2, FS_CardinalityType
<1>2. n \in U /\ U \subseteq Nat
  OBVIOUS
<1>3. \A k \in U : k - 1 \in U \ {n}
  <2> SUFFICES ASSUME NEW k \in U PROVE k - 1 \in U \ {n}
    OBVIOUS
  <2>1. k # 0
    OBVIOUS
  <2>2. k - 1 \in Nat /\ (k - 1) + 1 = k
    BY <2>1
  <2>3. k - 1 \notin T
    BY <2>2
  <2> QED
    BY <2>2, <2>3
<1>4. IsFiniteSet(U \ {n}) /\ Cardinality(U \ {n}) = Cardinality(U) - 1
  <2> HIDE DEF U
  <2> QED
    BY <1>1, <1>2, FS_RemoveElement
<1>5. pred \in [U -> U \ {n}]
  BY <1>3
<1> HIDE DEF pred
<1>6. PICK x, y \in U : x # y /\ pred[x] = pred[y]
  <2> HIDE DEF U
  <2> QED
    BY <1>1, <1>4, <1>5, FS_PigeonHole
<1> QED
  BY <1>6, <1>2 DEF pred

\* Natural numbers have a least one among them.
LEMMA LeastNumber ==
  ASSUME NEW S, S \subseteq Nat, S # {}
  PROVE  \E m \in S : \A k \in S : m <= k
<1> SUFFICES ASSUME \A m \in S : \E k \in S : k < m PROVE FALSE
  OBVIOUS
<1> DEFINE T == {n \in Nat : \A k \in S : ~(k <= n)}
<1>1. 0 \in T
  <2>1. \A k \in S : k <= 0 => \E l \in S : l < 0
    OBVIOUS
  <2> QED
    BY <2>1
<1>2. \A n \in Nat : n \in T => n + 1 \in T
  <2> SUFFICES ASSUME NEW n \in Nat, n \in T, NEW k \in S, k <= n + 1 PROVE FALSE
    OBVIOUS
  <2>1. PICK l \in S : l < k
    OBVIOUS
  <2>2. l <= n
    BY <2>1
  <2> QED
    BY <2>2
<1>3. Nat \subseteq T
  <2> HIDE DEF T
  <2> QED
    BY <1>1, <1>2, SetInduction
<1>4. PICK k \in S : TRUE
  OBVIOUS
<1>5. k \in Nat /\ k <= k
  OBVIOUS
<1>6. k \in T
  BY <1>3, <1>5
<1> QED
  BY <1>5, <1>6

\* A step of a cascade
LEMMA StepFields ==
  ASSUME NEW s \in Step
  PROVE  s.id \in Entities /\ s.field \in FieldNames /\ s = [id |-> s.id, field |-> s.field]
  BY DEF Step

\* There is a first one among the steps that are left, whatever the order of the fields.
LEMMA NextTyped ==
  ASSUME TypeOK, stack # <<>>, Top.todo # {}
  PROVE  /\ Next1 \in Top.todo /\ Next1 \in Step
         /\ Next1.id \in Entities /\ Next1.field \in FieldNames
         /\ Affected \in Record
<1>1. Top.todo \subseteq Step /\ Top.affected \in [Entities -> Record]
  BY TopTyped, FrameFields
<1>2. \E s \in Top.todo : \A r \in Top.todo : Precedes(s, r)
  <2> DEFINE ids == {s.id : s \in Top.todo}
  <2>1. ids \subseteq Nat /\ ids # {}
    BY <1>1, StepFields, EntitiesAssumption
  <2>2. PICK id \in ids : \A k \in ids : id <= k
    <3> HIDE DEF ids
    <3> QED
      BY <2>1, LeastNumber
  <2> DEFINE same == {s \in Top.todo : s.id = id}
             positions == {Position(s.field) : s \in same}
  <2>3. \A f \in FieldNames : Position(f) \in Nat
    BY FieldsAssumption DEF FieldNames, Position
  <2>4. positions \subseteq Nat /\ positions # {}
    BY <1>1, <2>2, <2>3, StepFields
  <2>5. PICK p \in positions : \A k \in positions : p <= k
    <3> HIDE DEF positions
    <3> QED
      BY <2>4, LeastNumber
  <2>6. PICK s \in same : Position(s.field) = p
    BY <2>5
  <2>7. \A r \in Top.todo : s.id <= r.id
    BY <2>2, <2>6
  <2>8. \A r \in Top.todo : r.id = s.id => Position(s.field) <= Position(r.field)
    BY <2>5, <2>6
  <2>9. \A r \in Top.todo : s.id \in Nat /\ r.id \in Nat
    BY <1>1, <2>6, StepFields, EntitiesAssumption
  <2>10. \A i, j \in Nat : i <= j => i < j \/ i = j
    OBVIOUS
  <2> QED
    BY <2>6, <2>7, <2>8, <2>9, <2>10 DEF Precedes
<1>3. Next1 \in Top.todo
  BY <1>2 DEF Next1
<1> QED
  BY <1>1, <1>3, StepFields DEF Affected

-----------------------------------------------------------------------------
(***************************************************************************)
(* What each step does                                                     *)
(***************************************************************************)

\* Steps that leave the database alone, as others see it
OnlyTheAction == UNCHANGED <<composite, db, before, edited, raced>>

\* Steps that end the action or take it to its next state, with nothing under way
EndsWith(state) ==
    /\ stack' = <<>> /\ action' \in Action
    /\ action'.kind = action.kind /\ action'.state = state
    /\ action'.selected = action.selected /\ action'.result = action.result

\* A step that changes the state of the action only
LEMMA StateSet ==
  ASSUME NEW a \in Action, NEW s \in {"done", "undoing", "undone", "undoFailed", "failed", "aborted"}
  PROVE  LET b == [a EXCEPT !.state = s]
         IN b \in Action /\ b.kind = a.kind /\ b.state = s /\ b.selected = a.selected
            /\ b.result = a.result
  BY DEF Action

\* The records that are selected when an action starts
LEMMA StartDoes ==
  ASSUME TypeOK, NEW kind \in {"delete", "anonymize"}, Start(kind)
  PROVE  /\ action.state = "idle" /\ UNCHANGED <<composite, db, stack, accounts, edits, faults>>
         /\ before' = db /\ edited' = {} /\ raced' = {}
         /\ action' \in Action
         /\ action'.kind = kind /\ action'.state = "running" /\ action'.result = action.result
         /\ \A i \in DOMAIN action'.selected :
               action'.selected[i].entity = db[action'.selected[i].id]
<1>1. PICK ids \in SeqOf(Entities, MaxSelected) :
        action' = [action EXCEPT !.kind = kind, !.state = "running", !.selected =
                [i \in DOMAIN ids |-> [id |-> ids[i], entity |-> db[ids[i]]]]]
  BY DEF Start
<1>2. ids \in Seq(Entities)
  BY LimitsAssumption DEF SeqOf
<1> DEFINE selected == [i \in DOMAIN ids |-> [id |-> ids[i], entity |-> db[ids[i]]]]
<1>3. /\ selected \in Seq([id : Entities, entity : Record])
      /\ \A i \in DOMAIN selected : selected[i].entity = db[selected[i].id]
  <2>1. \A i \in DOMAIN ids : ids[i] \in Entities /\ db[ids[i]] \in Record
    BY <1>2 DEF TypeOK
  <2>2. \A i \in DOMAIN ids : /\ selected[i] \in [id : Entities, entity : Record]
                              /\ selected[i].entity = db[selected[i].id]
    BY <2>1
  <2>3. DOMAIN selected = 1..Len(ids) /\ Len(ids) \in Nat
    BY <1>2
  <2>4. selected \in [1..Len(ids) -> [id : Entities, entity : Record]]
    BY <2>2, <2>3
  <2>5. ASSUME NEW S, NEW n \in Nat, NEW f \in [1..n -> S] PROVE f \in Seq(S)
    OBVIOUS
  <2>6. selected \in Seq([id : Entities, entity : Record])
    <3> HIDE DEF selected
    <3> QED
      BY <2>3, <2>4, <2>5
  <2> QED
    BY <2>2, <2>3, <2>6
<1> HIDE DEF selected
<1>4. action' = [action EXCEPT !.kind = kind, !.state = "running", !.selected = selected]
  BY <1>1 DEF selected
<1>5. action \in Action
  BY DEF TypeOK
<1>6. /\ action' \in Action /\ action'.kind = kind /\ action'.state = "running"
      /\ action'.result = action.result /\ action'.selected = selected
  BY <1>3, <1>4, <1>5 DEF Action
<1> QED
  BY <1>3, <1>6 DEF Start

\* The first selected record is processed next.
LEMMA ProcessNextDoes ==
  ASSUME TypeOK, ProcessNext
  PROVE  /\ action.state = "running" /\ stack = <<>> /\ OnlyTheAction
         /\ \E i \in DOMAIN action.selected :
               /\ stack' \in Seq(Frame) /\ Len(stack') = 1
               /\ Begins(stack'[1], action.selected[i].id, action.selected[i].entity)
         /\ action' \in Action
         /\ action'.kind = action.kind /\ action'.state = "running"
         /\ action'.result = action.result
         /\ \A i \in DOMAIN action'.selected :
               \E j \in DOMAIN action.selected : action'.selected[i] = action.selected[j]
<1> DEFINE S == [id : Entities, entity : Record]
           next == Head(action.selected)
<1>1. action \in Action /\ action.selected \in Seq(S) /\ action.selected # <<>>
  BY ActionFields DEF ProcessNext, TypeOK
<1>2. \A s \in Seq(S) : s # <<>> =>
        /\ Head(s) \in S /\ Tail(s) \in Seq(S) /\ 1 \in DOMAIN s /\ s[1] = Head(s)
        /\ \A i \in DOMAIN Tail(s) : i + 1 \in DOMAIN s /\ Tail(s)[i] = s[i + 1]
  <2> HIDE DEF S
  <2> QED
    OBVIOUS
<1>3. next \in S /\ 1 \in DOMAIN action.selected /\ action.selected[1] = next
  BY <1>1, <1>2
<1>4. next.id \in Entities /\ next.entity \in Record
  BY <1>3
<1>5. Push(next.id, next.entity, <<>>)
  BY DEF ProcessNext
<1> HIDE DEF next
<1>6. /\ stack' \in Seq(Frame) /\ Len(stack') = 1 /\ Begins(stack'[1], next.id, next.entity)
  <2>1. <<>> \in Seq(Frame) /\ Len(<<>>) = 0 /\ 0 + 1 = 1
    OBVIOUS
  <2>2. /\ stack' \in Seq(Frame) /\ Len(stack') = Len(<<>>) + 1
        /\ Begins(stack'[Len(<<>>) + 1], next.id, next.entity)
    BY <1>4, <1>5, <2>1, Pushed
  <2> QED
    BY <2>1, <2>2
<1> DEFINE tail == Tail(action.selected)
<1>7. /\ tail \in Seq(S)
      /\ \A i \in DOMAIN tail : i + 1 \in DOMAIN action.selected /\ tail[i] = action.selected[i + 1]
  BY <1>1, <1>2
<1>8. action' = [action EXCEPT !.selected = tail]
  BY DEF ProcessNext
<1> HIDE DEF tail
<1>9. /\ action' \in Action /\ action'.kind = action.kind /\ action'.state = action.state
      /\ action'.result = action.result /\ action'.selected = tail
  BY <1>1, <1>7, <1>8 DEF Action
<1>10. action.state = "running" /\ stack = <<>> /\ OnlyTheAction
  BY DEF ProcessNext, OnlyTheAction, envVars
<1>11. \E i \in DOMAIN action.selected :
               /\ stack' \in Seq(Frame) /\ Len(stack') = 1
               /\ Begins(stack'[1], action.selected[i].id, action.selected[i].entity)
  BY <1>3, <1>6
<1>12. \A i \in DOMAIN action'.selected :
               \E j \in DOMAIN action.selected : action'.selected[i] = action.selected[j]
  BY <1>7, <1>9
<1> QED
  BY <1>9, <1>10, <1>11, <1>12

\* The action is complete, ends with an exception, or its undo goes on.
LEMMA CompleteDoes ==
  ASSUME TypeOK, Complete
  PROVE  action.state = "running" /\ stack = <<>> /\ OnlyTheAction /\ EndsWith("done")
  BY StateSet DEF Complete, EndsWith, OnlyTheAction, envVars, TypeOK

\* An exception ends the action where it is.
LEMMA ThrowDoes ==
  ASSUME TypeOK, AccountEndsDeletion \/ Fail
  PROVE  /\ action.state = "running" /\ stack # <<>> /\ OnlyTheAction
         /\ EndsWith("failed") \/ EndsWith("aborted")
<1>1. ASSUME NEW s \in {"failed", "aborted"}, Throw(s) PROVE EndsWith(s)
  <2>1. stack' = <<>> /\ action' = [action EXCEPT !.state = s] /\ action \in Action
    BY <1>1 DEF Throw, TypeOK
  <2> DEFINE b == [action EXCEPT !.state = s]
  <2>2. b \in Action /\ b.kind = action.kind /\ b.state = s /\ b.selected = action.selected
        /\ b.result = action.result
    BY <2>1 DEF Action
  <2> HIDE DEF b
  <2>3. action' = b
    BY <2>1 DEF b
  <2> QED
    BY <2>1, <2>2, <2>3 DEF EndsWith
<1> QED
  BY <1>1 DEF AccountEndsDeletion, Fail, Running, OnlyTheAction

\* What can be undone
LEMMA UndoDoes ==
  ASSUME TypeOK, Undo
  PROVE  /\ action.state = "done" /\ UNCHANGED stack /\ OnlyTheAction
         /\ action' \in Action /\ action'.kind = action.kind /\ action'.state = "undoing"
         /\ action'.result = action.result /\ action'.selected = action.selected
  BY StateSet DEF Undo, OnlyTheAction, envVars, TypeOK

\* Undoing is over when everything is written, or when a write fails.
LEMMA UndoEnds ==
  ASSUME TypeOK, UndoCompletes \/ UndoFails
  PROVE  /\ \/ action.state = "overwriting" /\ Originals = {} /\ action'.state = "undone"
            \/ action.state \in {"undoing", "overwriting"} /\ action'.state = "undoFailed"
         /\ UNCHANGED stack /\ OnlyTheAction
         /\ action' \in Action /\ action'.kind = action.kind
         /\ action'.result = action.result /\ action'.selected = action.selected
<1>1. action \in Action
  BY DEF TypeOK
<1>2. CASE UndoCompletes
  BY <1>1, <1>2, StateSet DEF UndoCompletes, OnlyTheAction, envVars
<1>3. CASE UndoFails
  BY <1>1, <1>3, StateSet DEF UndoFails, OnlyTheAction
<1> QED
  BY <1>2, <1>3

\* A record that is brought back
LEMMA RestoreFields ==
  ASSUME TypeOK, NEW e \in Entities
  PROVE  LET o == action.result.originals[e]
         IN /\ Restore(e) \in Record /\ Restore(e).rev = db[e].rev + 1
            /\ Restore(e).exists = o.exists /\ Restore(e).refs = o.refs
            /\ Restore(e).personal = o.personal /\ Restore(e).anonymized = o.anonymized
<1>1. action.result.originals[e] \in Record /\ db[e] \in Record
  BY ActionFields, ResultFields DEF TypeOK
<1>2. db[e].rev + 1 \in Nat
  BY <1>1, RecordFields
<1>3. ASSUME NEW o \in Record, NEW n \in Nat
      PROVE  LET r == [o EXCEPT !.rev = n]
             IN r \in Record /\ r.rev = n /\ r.exists = o.exists /\ r.refs = o.refs
                /\ r.personal = o.personal /\ r.anonymized = o.anonymized
  BY DEF Record
<1> QED
  BY <1>1, <1>2, <1>3 DEF Restore

\* The originals of these records are written, and then they are done.
Undoes(E) ==
    /\ E \subseteq Originals /\ UNCHANGED <<composite, before, edited, raced, stack>>
    /\ db' \in [Entities -> Record]
    /\ \A e \in Entities : db'[e] = IF e \in E THEN Restore(e) ELSE db[e]
    /\ action' \in Action /\ action'.kind = action.kind /\ action'.selected = action.selected
    /\ action'.result.retaining = action.result.retaining
    /\ \A e \in Entities : action'.result.originals[e] =
          IF e \in E THEN Missing ELSE action.result.originals[e]

\* The first writes of the undo bring the deleted records back.
LEMMA UndoBulkDoes ==
  ASSUME TypeOK, UndoBulk
  PROVE  /\ action.state = "undoing" /\ action'.state = "overwriting"
         /\ Undoes({e \in Originals : ~db[e].exists})
<1> DEFINE stored == {e \in Originals : ~db[e].exists}
           originals == [e \in Entities |-> IF e \in stored THEN Missing
                                            ELSE action.result.originals[e]]
           result == [action.result EXCEPT !.originals = originals]
<1>1. action \in Action /\ action.result \in Result
  BY ActionFields DEF TypeOK
<1>2. originals \in [Entities -> Record]
  BY <1>1, ResultFields, MissingTyped
<1>3. \A e \in Entities : originals[e] = IF e \in stored THEN Missing ELSE action.result.originals[e]
  OBVIOUS
<1>4. /\ db' = [e \in Entities |-> IF e \in stored THEN Restore(e) ELSE db[e]]
      /\ action' = [action EXCEPT !.state = "overwriting", !.result = result]
  BY <1>1 DEF UndoBulk, Action, Result
<1>5. stored \subseteq Originals
  OBVIOUS
<1> HIDE DEF originals, stored
<1>6. result \in Result /\ result.originals = originals
      /\ result.retaining = action.result.retaining
  BY <1>1, <1>2 DEF Result
<1> HIDE DEF result
<1>7. /\ action' \in Action /\ action'.kind = action.kind /\ action'.selected = action.selected
      /\ action'.result = result /\ action'.state = "overwriting"
  BY <1>1, <1>4, <1>6 DEF Action
<1>8. \A e \in Entities : Restore(e) \in Record /\ db[e] \in Record
  BY RestoreFields DEF TypeOK
<1>9. db' \in [Entities -> Record]
  BY <1>4, <1>8
<1>10. \A e \in Entities : db'[e] = IF e \in stored THEN Restore(e) ELSE db[e]
  BY <1>4
<1>11. action.state = "undoing" /\ UNCHANGED <<composite, before, edited, raced, stack>>
  BY DEF UndoBulk, envVars
<1>12. Undoes(stored)
  BY <1>3, <1>5, <1>6, <1>7, <1>9, <1>10, <1>11 DEF Undoes
<1> QED
  BY <1>7, <1>11, <1>12 DEF stored

\* The others are overwritten one by one.
LEMMA UndoOverwriteDoes ==
  ASSUME TypeOK, NEW x \in Entities, UndoOverwrite(x)
  PROVE  /\ action.state = "overwriting" /\ action'.state = "overwriting"
         /\ Undoes({x})
<1> DEFINE originals == [action.result.originals EXCEPT ![x] = Missing]
           result == [action.result EXCEPT !.originals = originals]
<1>1. action \in Action /\ action.result \in Result
  BY ActionFields DEF TypeOK
<1>2. action.result.originals \in [Entities -> Record]
  BY <1>1, ResultFields
<1>3. /\ originals \in [Entities -> Record]
      /\ \A e \in Entities : originals[e] = IF e \in {x} THEN Missing ELSE action.result.originals[e]
  BY <1>2, MissingTyped
<1>4. /\ db' = [db EXCEPT ![x] = Restore(x)]
      /\ action' = [action EXCEPT !.result = result]
  BY <1>1 DEF UndoOverwrite, Action, Result
<1>5. {x} \subseteq Originals
  BY DEF UndoOverwrite
<1> HIDE DEF originals
<1>6. result \in Result /\ result.originals = originals
      /\ result.retaining = action.result.retaining
  BY <1>1, <1>3 DEF Result
<1> HIDE DEF result
<1>7. /\ action' \in Action /\ action'.kind = action.kind /\ action'.selected = action.selected
      /\ action'.result = result /\ action'.state = action.state
  BY <1>1, <1>4, <1>6 DEF Action
<1>8. Restore(x) \in Record /\ db \in [Entities -> Record]
  BY RestoreFields DEF TypeOK
<1>9. /\ db' \in [Entities -> Record]
      /\ \A e \in Entities : db'[e] = IF e \in {x} THEN Restore(e) ELSE db[e]
  BY <1>4, <1>8
<1>10. action.state = "overwriting" /\ UNCHANGED <<composite, before, edited, raced, stack>>
  BY DEF UndoOverwrite, envVars
<1>11. Undoes({x})
  BY <1>3, <1>5, <1>6, <1>7, <1>9, <1>10 DEF Undoes
<1> QED
  BY <1>7, <1>10, <1>11

\* Nothing but frames and records changes.
Keeps == UNCHANGED <<composite, before, edited, raced>>

\* The records that refer to this one are loaded.
LEMMA LoadLinkingDoes ==
  ASSUME TypeOK, LoadLinking
  PROVE  /\ action.state = "running" /\ stack # <<>> /\ Top.pc = "load"
         /\ Keeps /\ UNCHANGED <<db, action>>
         /\ \E x \in Frame :
               /\ ReplacesTop(x) /\ x.id = Top.id /\ x.entity = Top.entity /\ x.pc = "cascade"
               /\ x.affected = db /\ x.result = Top.result
               /\ x.todo = {s \in Step : Refers(db, s.id, Top.id, s.field)}
<1>1. action.state = "running" /\ stack # <<>> /\ Top.pc = "load" /\ UNCHANGED <<db, action>>
  BY DEF LoadLinking
<1>2. Top \in Frame
  BY <1>1, TopTyped
<1> DEFINE todo == {s \in Step : Refers(db, s.id, Top.id, s.field)}
           x == [Top EXCEPT !.pc = "cascade", !.affected = db, !.todo = todo]
<1>3. todo \in SUBSET Step
  OBVIOUS
<1>4. stack' = SetTop(x)
  BY DEF LoadLinking
<1> HIDE DEF todo
<1>5. db \in [Entities -> Record]
  BY DEF TypeOK
<1>6. /\ x \in Frame /\ x.id = Top.id /\ x.entity = Top.entity /\ x.pc = "cascade"
      /\ x.affected = db /\ x.result = Top.result /\ x.todo = todo
  BY <1>2, <1>3, <1>5 DEF Frame
<1> HIDE DEF x
<1>7. ReplacesTop(x)
  BY <1>1, <1>4, <1>6, TopReplaced
<1>8. Keeps
  BY DEF LoadLinking, envVars, Keeps
<1> QED
  BY <1>1, <1>6, <1>7, <1>8 DEF todo

\* The recursion enters the next affected record.
LEMMA CompositeActionDoes ==
  ASSUME TypeOK, CompositeAction
  PROVE  /\ action.state = "running" /\ stack # <<>> /\ Cascading /\ IsOnlyComposite
         /\ Keeps /\ UNCHANGED <<db, action>>
         /\ stack' \in Seq(Frame) /\ Len(stack') = Len(stack) + 1
         /\ \A i \in 1..(Len(stack) - 1) : stack'[i] = stack[i]
         /\ LET x == stack'[Len(stack)]
            IN /\ x \in Frame /\ x.id = Top.id /\ x.entity = Top.entity /\ x.pc = "cascade"
               /\ x.affected = Top.affected /\ x.result = Top.result
               /\ x.todo = Top.todo \ {Next1}
         /\ Begins(stack'[Len(stack) + 1], Next1.id, Affected)
<1>1. /\ action.state = "running" /\ stack # <<>> /\ Cascading /\ IsOnlyComposite
      /\ UNCHANGED <<db, action>>
  BY DEF CompositeAction
<1>2. Top \in Frame /\ stack \in Seq(Frame) /\ Len(stack) \in Nat \ {0}
  BY <1>1, TopTyped DEF TypeOK
<1>3. Next1.id \in Entities /\ Affected \in Record
  BY <1>1, NextTyped DEF Cascading
<1> DEFINE todo == Top.todo \ {Next1}
           x == [Top EXCEPT !.todo = todo]
           frames == SetTop(x)
<1>4. todo \in SUBSET Step
  BY <1>2, FrameFields
<1>5. Push(Next1.id, Affected, frames)
  BY <1>2 DEF CompositeAction, Frame
<1> HIDE DEF todo
<1>6. /\ x \in Frame /\ x.id = Top.id /\ x.entity = Top.entity /\ x.pc = Top.pc
      /\ x.affected = Top.affected /\ x.result = Top.result /\ x.todo = todo
  BY <1>2, <1>4 DEF Frame
<1> HIDE DEF x
<1>7. /\ frames \in Seq(Frame) /\ Len(frames) = Len(stack)
      /\ \A i \in 1..(Len(stack) - 1) : frames[i] = stack[i]
      /\ frames[Len(stack)] = x
  BY <1>2, <1>6 DEF SetTop
<1> HIDE DEF frames
<1>8. /\ stack' \in Seq(Frame) /\ Len(stack') = Len(frames) + 1
      /\ \A i \in 1..Len(frames) : stack'[i] = frames[i]
      /\ Begins(stack'[Len(frames) + 1], Next1.id, Affected)
  BY <1>3, <1>5, <1>7, Pushed
<1>9. /\ \A i \in 1..(Len(stack) - 1) : stack'[i] = stack[i]
      /\ stack'[Len(stack)] = x
  BY <1>2, <1>7, <1>8
<1>10. Keeps
  BY DEF CompositeAction, envVars, Keeps
<1>11. Top.pc = "cascade"
  BY <1>1 DEF Cascading
<1> QED
  BY <1>1, <1>6, <1>7, <1>8, <1>9, <1>10, <1>11 DEF todo

\* The account of the record is dealt with.
LEMMA HandleAccountDoes ==
  ASSUME TypeOK, HandleAccount
  PROVE  /\ Running("delete") /\ Top.pc = "begin"
         /\ Keeps /\ UNCHANGED <<db, action>>
         /\ \E x \in Frame :
               /\ ReplacesTop(x) /\ x.id = Top.id /\ x.entity = Top.entity /\ x.pc = "load"
               /\ x.affected = Top.affected /\ x.todo = Top.todo /\ x.result = Top.result
<1>1. Running("delete") /\ Top.pc = "begin" /\ UNCHANGED <<db, action>> /\ stack # <<>>
  BY DEF HandleAccount, Running
<1>2. Top \in Frame
  BY <1>1, TopTyped
<1> DEFINE x == [Top EXCEPT !.pc = "load"]
<1>3. stack' = SetTop(x)
  BY DEF HandleAccount
<1>4. /\ x \in Frame /\ x.id = Top.id /\ x.entity = Top.entity /\ x.pc = "load"
      /\ x.affected = Top.affected /\ x.todo = Top.todo /\ x.result = Top.result
  BY <1>2 DEF Frame
<1> HIDE DEF x
<1>5. ReplacesTop(x)
  BY <1>1, <1>3, <1>4, TopReplaced
<1>6. Keeps
  BY DEF HandleAccount, envVars, Keeps
<1> QED
  BY <1>1, <1>4, <1>5, <1>6

\* A record that is saved
LEMMA SavedFields ==
  ASSUME NEW r \in Record
  PROVE  /\ Saved(r) \in Record /\ Saved(r).rev = r.rev + 1 /\ Saved(r).exists = r.exists
         /\ Saved(r).refs = r.refs /\ Saved(r).personal = r.personal
         /\ Saved(r).anonymized = r.anonymized
<1>1. r.rev + 1 \in Nat
  BY RecordFields
<1> QED
  BY <1>1 DEF Saved, Record

\* The next affected record loses its reference to this one.
Unlinked(changed) ==
    /\ changed \in Record /\ changed.rev = Affected.rev + 1 /\ changed.exists = Affected.exists
    /\ changed.personal = Affected.personal /\ changed.anonymized = Affected.anonymized
    /\ \A f \in FieldNames : changed.refs[f] =
          IF f = Next1.field THEN Affected.refs[f] \ {Top.id} ELSE Affected.refs[f]

\* The state of one more record, of those that have not been found before, is kept.
Finds(new, old, id, original) ==
    \A e \in Entities :
        /\ old.originals[e].exists => new.originals[e] = old.originals[e]
        /\ ~old.originals[e].exists =>
              IF e = id THEN new.originals[e] = original ELSE ~new.originals[e].exists

\* The affected record is saved without the reference, in its latest revision, and its
\* state before that is kept unless an earlier one is.
LEMMA RemoveReferenceDoes ==
  ASSUME TypeOK, RemoveReference
  PROVE  /\ Running("delete") /\ Cascading /\ ~IsOnlyComposite
         /\ Keeps /\ UNCHANGED action
         /\ Affected.rev = db[Next1.id].rev
         /\ \E changed \in Record, x \in Frame :
               /\ Unlinked(changed)
               /\ db' = [db EXCEPT ![Next1.id] = changed]
               /\ ReplacesTop(x) /\ x.id = Top.id /\ x.entity = Top.entity /\ x.pc = "cascade"
               /\ x.affected = [Top.affected EXCEPT ![Next1.id] = changed]
               /\ x.todo = Top.todo \ {Next1}
               /\ Finds(x.result, Top.result, Next1.id, Affected)
<1>1. /\ Running("delete") /\ Cascading /\ ~IsOnlyComposite /\ UNCHANGED action /\ stack # <<>>
      /\ Affected.rev = db[Next1.id].rev /\ Top.pc = "cascade" /\ Top.todo # {}
  BY DEF RemoveReference, Running, Saves, Cascading
<1>2. Top \in Frame
  BY <1>1, TopTyped
<1>3. /\ Next1.id \in Entities /\ Affected \in Record /\ Next1.field \in FieldNames
  BY <1>1, NextTyped
<1>4. /\ Top.affected \in [Entities -> Record] /\ Top.todo \subseteq Step /\ Top.result \in Result
  BY <1>2, FrameFields
<1> DEFINE refs == [Affected.refs EXCEPT ![Next1.field] = @ \ {Top.id}]
           unlinked == [Affected EXCEPT !.refs = refs]
           changed == Saved(unlinked)
           affected == [Top.affected EXCEPT ![Next1.id] = changed]
           todo == Top.todo \ {Next1}
           found == [Changed(Next1.id, Affected) EXCEPT !.retaining = {Next1.id} \cap HasPII]
           result == MergeResults(Top.result, found)
           x == [Top EXCEPT !.todo = todo, !.affected = affected, !.result = result]
<1>5. /\ db' = [db EXCEPT ![Next1.id] = changed] /\ stack' = SetTop(x)
  BY <1>2, <1>3 DEF RemoveReference, Frame, Record
<1>6. /\ refs \in [FieldNames -> SUBSET Entities]
      /\ \A f \in FieldNames : refs[f] = IF f = Next1.field THEN Affected.refs[f] \ {Top.id}
                                         ELSE Affected.refs[f]
  BY <1>3, RecordFields
<1> HIDE DEF refs
<1>7. /\ unlinked \in Record /\ unlinked.rev = Affected.rev /\ unlinked.exists = Affected.exists
      /\ unlinked.personal = Affected.personal /\ unlinked.anonymized = Affected.anonymized
      /\ unlinked.refs = refs
  BY <1>3, <1>6 DEF Record
<1> HIDE DEF unlinked
<1>8. Unlinked(changed)
  BY <1>6, <1>7, SavedFields DEF Unlinked
<1> HIDE DEF changed
<1>9. changed \in Record
  BY <1>8 DEF Unlinked
<1>10. /\ found \in Result /\ found.originals[Next1.id] = Affected
       /\ \A e \in Entities \ {Next1.id} : ~found.originals[e].exists
  <2> DEFINE c == Changed(Next1.id, Affected)
  <2>1. /\ c \in Result /\ c.originals[Next1.id] = Affected
        /\ \A e \in Entities \ {Next1.id} : ~c.originals[e].exists
    BY <1>3, ChangedTyped
  <2>2. {Next1.id} \cap HasPII \subseteq Entities
    BY EntitiesAssumption
  <2> HIDE DEF c
  <2>3. found = [c EXCEPT !.retaining = {Next1.id} \cap HasPII]
    BY DEF c
  <2>4. found \in Result /\ found.originals = c.originals
    BY <2>1, <2>2, <2>3 DEF Result
  <2> HIDE DEF found
  <2> QED
    BY <2>1, <2>4
<1> HIDE DEF found
<1>11. /\ result \in Result
       /\ \A e \in Entities : result.originals[e] =
             IF Top.result.originals[e].exists THEN Top.result.originals[e]
             ELSE found.originals[e]
  BY <1>4, <1>10, MergedTyped
<1> HIDE DEF result
<1>12. todo \in SUBSET Step /\ affected \in [Entities -> Record]
  BY <1>3, <1>4, <1>9
<1> HIDE DEF todo, affected
<1>13. /\ x \in Frame /\ x.id = Top.id /\ x.entity = Top.entity /\ x.pc = "cascade"
       /\ x.affected = affected /\ x.todo = todo /\ x.result = result
  BY <1>1, <1>2, <1>11, <1>12 DEF Frame
<1> HIDE DEF x
<1>14. ReplacesTop(x)
  BY <1>1, <1>5, <1>13, TopReplaced
<1>15. Finds(x.result, Top.result, Next1.id, Affected)
  BY <1>10, <1>11, <1>13 DEF Finds
<1>16. Keeps
  BY DEF RemoveReference, envVars, Keeps
<1> QED
  BY <1>1, <1>5, <1>8, <1>9, <1>13, <1>14, <1>15, <1>16 DEF affected, todo

\* A record is deleted.
LEMMA TombstoneFields ==
  ASSUME TypeOK, NEW e \in Entities
  PROVE  /\ Tombstone(e) \in Record /\ Tombstone(e).rev = db[e].rev + 1
         /\ ~Tombstone(e).exists /\ ~Tombstone(e).anonymized /\ ~Tombstone(e).personal
<1>1. db[e].rev + 1 \in Nat
  BY RecordFields DEF TypeOK
<1> QED
  BY <1>1 DEF Tombstone, Missing, NoRefs, Record

\* The record is deleted, and the recursion returns its state together with all that the
\* cascade has found.
LEMMA RemoveRecordDoes ==
  ASSUME TypeOK, RemoveRecord
  PROVE  /\ Running("delete") /\ Top.pc = "cascade" /\ Top.todo = {}
         /\ Top.entity.rev = db[Top.id].rev
         /\ Keeps
         /\ db' = [db EXCEPT ![Top.id] = Tombstone(Top.id)]
         /\ \E result \in Result :
               /\ Returns(Top.entity, result)
               /\ \A e \in Entities :
                     /\ e = Top.id /\ Top.entity.exists => result.originals[e] = Top.entity
                     /\ e # Top.id => result.originals[e] = Top.result.originals[e]
<1>1. /\ Running("delete") /\ Top.pc = "cascade" /\ Top.todo = {} /\ stack # <<>>
      /\ Top.entity.rev = db[Top.id].rev
      /\ db' = [db EXCEPT ![Top.id] = Tombstone(Top.id)]
  BY DEF RemoveRecord, Running, Saves
<1>2. Top \in Frame
  BY <1>1, TopTyped
<1>3. Top.id \in Entities /\ Top.entity \in Record /\ Top.result \in Result
  BY <1>2, FrameFields
<1> DEFINE own == Changed(Top.id, Top.entity)
           result == MergeResults(own, Top.result)
<1>4. /\ own \in Result /\ own.originals[Top.id] = Top.entity
      /\ \A e \in Entities \ {Top.id} : ~own.originals[e].exists
  BY <1>3, ChangedTyped
<1>5. Return(Top.entity, result)
  BY DEF RemoveRecord
<1> HIDE DEF own
<1>6. /\ result \in Result
      /\ \A e \in Entities : result.originals[e] =
            IF own.originals[e].exists THEN own.originals[e] ELSE Top.result.originals[e]
  BY <1>3, <1>4, MergedTyped
<1> HIDE DEF result
<1>7. Returns(Top.entity, result)
  BY <1>1, <1>3, <1>5, <1>6, Returned
<1>8. \A e \in Entities :
         /\ e = Top.id /\ Top.entity.exists => result.originals[e] = Top.entity
         /\ e # Top.id => result.originals[e] = Top.result.originals[e]
  BY <1>4, <1>6
<1>9. Keeps
  BY DEF RemoveRecord, envVars, Keeps
<1> QED
  BY <1>1, <1>6, <1>7, <1>8, <1>9

\* An anonymization returns: at once, or after its cascade.
LEMMA SkipAnonymizeDoes ==
  ASSUME TypeOK, SkipAnonymize
  PROVE  /\ Running("anonymize") /\ Top.pc = "begin" /\ NothingToAnonymize
         /\ Keeps /\ UNCHANGED db /\ Returns(Top.entity, NoResult)
<1>1. Running("anonymize") /\ stack # <<>> /\ Return(Top.entity, NoResult)
  BY DEF SkipAnonymize, Running
<1>2. Top.entity \in Record
  BY <1>1, TopTyped, FrameFields
<1>3. Returns(Top.entity, NoResult)
  BY <1>1, <1>2, NoResultTyped, Returned
<1> QED
  BY <1>1, <1>3 DEF SkipAnonymize, envVars, Keeps

\* After its cascade an anonymization returns all that the cascade has found.
LEMMA AnonymizeReturnsDoes ==
  ASSUME TypeOK, AnonymizeReturns
  PROVE  /\ Running("anonymize") /\ Top.pc = "cascade" /\ Top.todo = {}
         /\ Keeps /\ UNCHANGED db /\ Returns(Top.entity, Top.result)
<1>1. Running("anonymize") /\ stack # <<>> /\ Return(Top.entity, Top.result)
  BY DEF AnonymizeReturns, Running
<1>2. Top.entity \in Record /\ Top.result \in Result
  BY <1>1, TopTyped, FrameFields
<1>3. Returns(Top.entity, Top.result)
  BY <1>1, <1>2, Returned
<1> QED
  BY <1>1, <1>3 DEF AnonymizeReturns, envVars, Keeps

\* What is left of a record that is anonymized
Anonymized(changed) ==
    /\ changed \in Record /\ changed.rev = Top.entity.rev + 1
    /\ changed.exists = Top.entity.exists
    /\ changed.anonymized /\ ~changed.personal

\* The record is saved without personal data.
LEMMA AnonymizeDoes ==
  ASSUME TypeOK, Anonymize
  PROVE  /\ Running("anonymize") /\ Top.pc = "begin" /\ ~NothingToAnonymize
         /\ Top.entity.rev = db[Top.id].rev
         /\ Keeps /\ UNCHANGED action
         /\ \E changed \in Record, x \in Frame :
               /\ Anonymized(changed)
               /\ db' = [db EXCEPT ![Top.id] = changed]
               /\ ReplacesTop(x) /\ x.id = Top.id /\ x.entity = changed /\ x.pc = "load"
               /\ x.affected = Top.affected /\ x.todo = Top.todo
               /\ x.result = Changed(Top.id, Top.entity)
<1>1. /\ Running("anonymize") /\ Top.pc = "begin" /\ ~NothingToAnonymize /\ stack # <<>>
      /\ Top.entity.rev = db[Top.id].rev /\ UNCHANGED action
  BY DEF Anonymize, Running, Saves
<1>2. Top \in Frame
  BY <1>1, TopTyped
<1>3. Top.id \in Entities /\ Top.entity \in Record
  BY <1>2, FrameFields
<1> DEFINE refs == [f \in FieldNames |-> IF f \in Retained THEN Top.entity.refs[f] ELSE {}]
           anonymous == [Top.entity EXCEPT !.anonymized = TRUE, !.personal = FALSE,
                                           !.refs = refs]
           changed == Saved(anonymous)
           result == Changed(Top.id, Top.entity)
           x == [Top EXCEPT !.pc = "load", !.entity = changed, !.result = result]
<1>4. db' = [db EXCEPT ![Top.id] = changed] /\ stack' = SetTop(x)
  BY <1>3 DEF Anonymize, Record
<1>5. refs \in [FieldNames -> SUBSET Entities]
  BY <1>3, RecordFields
<1> HIDE DEF refs
<1>6. /\ anonymous \in Record /\ anonymous.rev = Top.entity.rev
      /\ anonymous.exists = Top.entity.exists
      /\ anonymous.anonymized = TRUE /\ anonymous.personal = FALSE
  BY <1>3, <1>5 DEF Record
<1> HIDE DEF anonymous
<1>7. Anonymized(changed)
  BY <1>6, SavedFields DEF Anonymized
<1> HIDE DEF changed
<1>8. changed \in Record
  BY <1>7 DEF Anonymized
<1>9. result \in Result
  BY <1>3, ChangedTyped
<1> HIDE DEF result
<1>10. /\ x \in Frame /\ x.id = Top.id /\ x.entity = changed /\ x.pc = "load"
       /\ x.affected = Top.affected /\ x.todo = Top.todo /\ x.result = result
  BY <1>2, <1>8, <1>9 DEF Frame
<1> HIDE DEF x
<1>11. ReplacesTop(x)
  BY <1>1, <1>4, <1>10, TopReplaced
<1>12. Keeps
  BY DEF Anonymize, envVars, Keeps
<1> QED
  BY <1>1, <1>4, <1>7, <1>8, <1>10, <1>11, <1>12 DEF result

\* The next affected record is left as it is, and reported if there is personal data in it.
LEMMA KeepUnchangedDoes ==
  ASSUME TypeOK, KeepUnchanged
  PROVE  /\ Running("anonymize") /\ Cascading /\ ~IsOnlyComposite
         /\ Keeps /\ UNCHANGED <<db, action>>
         /\ \E x \in Frame :
               /\ ReplacesTop(x) /\ x.id = Top.id /\ x.entity = Top.entity /\ x.pc = "cascade"
               /\ x.affected = Top.affected /\ x.todo = Top.todo \ {Next1}
               /\ x.result.originals = Top.result.originals
               /\ x.result.retaining = Top.result.retaining \cup ({Next1.id} \cap HasPII)
<1>1. /\ Running("anonymize") /\ Cascading /\ ~IsOnlyComposite /\ UNCHANGED <<db, action>>
      /\ stack # <<>> /\ Top.pc = "cascade" /\ Top.todo # {}
  BY DEF KeepUnchanged, Running, Cascading
<1>2. Top \in Frame
  BY <1>1, TopTyped
<1>3. Top.todo \subseteq Step /\ Top.result \in Result
  BY <1>2, FrameFields
<1> DEFINE todo == Top.todo \ {Next1}
           retaining == Top.result.retaining \cup ({Next1.id} \cap HasPII)
           result == [Top.result EXCEPT !.retaining = retaining]
           x == [Top EXCEPT !.todo = todo, !.result = result]
<1>4. stack' = SetTop(x)
  BY <1>2, <1>3 DEF KeepUnchanged, Frame, Result
<1>5. todo \in SUBSET Step /\ retaining \subseteq Entities
  BY <1>3, ResultFields, EntitiesAssumption
<1> HIDE DEF todo, retaining
<1>6. result \in Result /\ result.originals = Top.result.originals
      /\ result.retaining = retaining
  BY <1>3, <1>5 DEF Result
<1> HIDE DEF result
<1>7. /\ x \in Frame /\ x.id = Top.id /\ x.entity = Top.entity /\ x.pc = "cascade"
      /\ x.affected = Top.affected /\ x.todo = todo /\ x.result = result
  BY <1>1, <1>2, <1>5, <1>6 DEF Frame
<1> HIDE DEF x
<1>8. ReplacesTop(x)
  BY <1>1, <1>4, <1>7, TopReplaced
<1>9. Keeps
  BY DEF KeepUnchanged, envVars, Keeps
<1> QED
  BY <1>1, <1>6, <1>7, <1>8, <1>9 DEF todo, retaining

\* Another user's revision of a record: one reference may be added or removed.
EditsTo(e, changed) ==
    /\ changed \in Record /\ changed.rev = db[e].rev + 1 /\ changed.exists = db[e].exists
    /\ changed.personal = db[e].personal /\ changed.anonymized = db[e].anonymized

\* Another user edits a record: a record that is newly linked to exists, and is known as
\* raced.
LEMMA OtherEditDoes ==
  ASSUME TypeOK, NEW e \in Entities, OtherEdit(e)
  PROVE  /\ action.state \in {"running", "done"}
         /\ UNCHANGED <<composite, before, action, stack>>
         /\ edited' = edited \cup {e} /\ raced \subseteq raced' /\ raced' \subseteq Entities
         /\ db[e].exists
         /\ \E changed \in Record :
               /\ EditsTo(e, changed) /\ db' = [db EXCEPT ![e] = changed]
               /\ \A f \in FieldNames : \A x \in changed.refs[f] :
                     x \in db[e].refs[f] \/ (x \in raced' /\ db[x].exists)
<1>1. db[e] \in Record /\ db \in [Entities -> Record] /\ raced \subseteq Entities
  BY DEF TypeOK
<1>2. db[e].rev + 1 \in Nat /\ db[e].refs \in [FieldNames -> SUBSET Entities]
  BY <1>1, RecordFields
<1>3. /\ action.state \in {"running", "done"}
      /\ UNCHANGED <<composite, before, action, stack>>
      /\ edited' = edited \cup {e} /\ db[e].exists
  BY DEF OtherEdit
<1>4. CASE db' = [db EXCEPT ![e].rev = @ + 1] /\ UNCHANGED raced
  <2> DEFINE changed == [db[e] EXCEPT !.rev = @ + 1]
  <2>1. db' = [db EXCEPT ![e] = changed]
    BY <1>1, <1>4
  <2>2. EditsTo(e, changed) /\ changed.refs = db[e].refs
    BY <1>1, <1>2 DEF EditsTo, Record
  <2> HIDE DEF changed
  <2>3. changed \in Record
    BY <2>2 DEF EditsTo
  <2> QED
    BY <1>1, <1>3, <1>4, <2>1, <2>2, <2>3
<1>5. ASSUME NEW f \in FieldNames, NEW x \in Entities \ {e}, db[x].exists,
             db' = [db EXCEPT ![e].rev = @ + 1,
                          ![e].refs[f] = IF x \in @ THEN @ \ {x} ELSE @ \cup {x}],
             raced' = raced \cup {x}
      PROVE  /\ raced \subseteq raced' /\ raced' \subseteq Entities
             /\ \E changed \in Record :
                  /\ EditsTo(e, changed) /\ db' = [db EXCEPT ![e] = changed]
                  /\ \A g \in FieldNames : \A y \in changed.refs[g] :
                        y \in db[e].refs[g] \/ (y \in raced' /\ db[y].exists)
  <2> DEFINE linked == IF x \in db[e].refs[f] THEN db[e].refs[f] \ {x} ELSE db[e].refs[f] \cup {x}
             refs == [db[e].refs EXCEPT ![f] = linked]
             changed == [db[e] EXCEPT !.rev = @ + 1, !.refs = refs]
  <2>1. db' = [db EXCEPT ![e] = changed]
    BY <1>1, <1>2, <1>5 DEF Record
  <2>2. linked \subseteq Entities /\ \A y \in linked : y \in db[e].refs[f] \/ y = x
    BY <1>2
  <2> HIDE DEF linked
  <2>3. /\ refs \in [FieldNames -> SUBSET Entities]
        /\ \A g \in FieldNames : refs[g] = IF g = f THEN linked ELSE db[e].refs[g]
    BY <1>2, <2>2
  <2> HIDE DEF refs
  <2>4. EditsTo(e, changed) /\ changed.refs = refs
    BY <1>1, <1>2, <2>3 DEF EditsTo, Record
  <2> HIDE DEF changed
  <2>5. changed \in Record
    BY <2>4 DEF EditsTo
  <2>6. \A g \in FieldNames : \A y \in changed.refs[g] :
                        y \in db[e].refs[g] \/ (y \in raced' /\ db[y].exists)
    BY <1>5, <2>2, <2>3, <2>4
  <2>7. raced \subseteq raced' /\ raced' \subseteq Entities
    BY <1>1, <1>5
  <2> QED
    BY <2>1, <2>4, <2>5, <2>6, <2>7
<1>6. \/ db' = [db EXCEPT ![e].rev = @ + 1] /\ UNCHANGED raced
      \/ \E f \in FieldNames, x \in Entities \ {e} :
             /\ db[x].exists
             /\ db' = [db EXCEPT ![e].rev = @ + 1,
                          ![e].refs[f] = IF x \in @ THEN @ \ {x} ELSE @ \cup {x}]
             /\ raced' = raced \cup {x}
  BY DEF OtherEdit
<1> QED
  BY <1>3, <1>4, <1>5, <1>6

-----------------------------------------------------------------------------
(***************************************************************************)
(* Types, and the phases of an action                                      *)
(***************************************************************************)

\* At first every record exists, and nothing is under way.
LEMMA InitDoes ==
  ASSUME Init
  PROVE  /\ TypeOK
         /\ action = NoAction /\ stack = <<>> /\ db = before /\ edited = {} /\ raced = {}
         /\ \A e \in Entities : db[e].exists /\ ~db[e].anonymized
                                /\ (db[e].personal <=> e \in HasPII)
<1>1. PICK links : db = [e \in Entities |->
                  [Missing EXCEPT !.exists = TRUE, !.rev = 1, !.personal = e \in HasPII,
                     !.refs = [f \in FieldNames |->
                                 {x \in Entities : <<e, f, x>> \in links}]]]
  BY DEF Init
<1>2. ASSUME NEW e \in Entities
      PROVE  /\ db[e] \in Record /\ db[e].exists /\ ~db[e].anonymized
             /\ (db[e].personal <=> e \in HasPII)
  <2> DEFINE refs == [f \in FieldNames |-> {x \in Entities : <<e, f, x>> \in links}]
  <2>1. refs \in [FieldNames -> SUBSET Entities]
    OBVIOUS
  <2>2. db[e] = [Missing EXCEPT !.exists = TRUE, !.rev = 1, !.personal = e \in HasPII,
                                !.refs = refs]
    BY <1>1
  <2> HIDE DEF refs
  <2>3. ASSUME NEW p \in BOOLEAN, NEW r,
               r = [Missing EXCEPT !.exists = TRUE, !.rev = 1, !.personal = p, !.refs = refs]
        PROVE  r \in Record /\ r.exists /\ ~r.anonymized /\ r.personal = p
    BY <2>1, <2>3 DEF Missing, Record
  <2>4. (e \in HasPII) \in BOOLEAN
    OBVIOUS
  <2> QED
    BY <2>2, <2>3, <2>4
<1>3. db \in [Entities -> Record]
  BY <1>1, <1>2
<1>4. NoAction \in Action
  BY NoResultTyped DEF NoAction, Action
<1>5. 0 \in 0..MaxEdits /\ 0 \in 0..MaxFaults /\ <<>> \in Seq(Frame)
  BY LimitsAssumption
<1>6. TypeOK
  BY <1>3, <1>4, <1>5 DEF Init, TypeOK
<1> QED
  BY <1>2, <1>6 DEF Init

\* A step that leaves the counts and accounts alone, or changes them within their bounds
CountsTyped ==
    composite' \in Roles /\ accounts' \subseteq AccountHolders
    /\ edits' \in 0..MaxEdits /\ faults' \in 0..MaxFaults
    /\ before' \in [Entities -> Record] /\ edited' \subseteq Entities /\ raced' \subseteq Entities

\* The bounds and the history keep their types.
LEMMA CountsStayTyped ==
  ASSUME TypeOK, Next
  PROVE  CountsTyped
<1>1. UseFault => faults' \in 0..MaxFaults
  BY LimitsAssumption DEF TypeOK, UseFault
<1>2. UNCHANGED envVars /\ accounts' \subseteq accounts => CountsTyped
  BY DEF TypeOK, envVars, CountsTyped
<1>3. UNCHANGED <<composite, edits, before, edited, raced, accounts>>
      /\ (UseFault \/ UNCHANGED faults) => CountsTyped
  BY <1>1 DEF TypeOK, CountsTyped
<1>4. ASSUME NEW kind, Start(kind) PROVE CountsTyped
  BY <1>4 DEF Start, TypeOK, CountsTyped
<1>5. CASE Undo \/ UndoStep
  BY <1>2, <1>5 DEF Undo, UndoStep, UndoBulk, UndoOverwrite, UndoCompletes
<1>6. CASE ProcessNext \/ Complete \/ LoadLinking \/ CompositeAction
  BY <1>2, <1>6 DEF ProcessNext, Complete, LoadLinking, CompositeAction
<1>7. CASE HandleAccount \/ RemoveReference \/ RemoveRecord
  BY <1>2, <1>7 DEF HandleAccount, RemoveReference, RemoveRecord
<1>8. CASE SkipAnonymize \/ Anonymize \/ KeepUnchanged \/ AnonymizeReturns
  BY <1>2, <1>8 DEF SkipAnonymize, Anonymize, KeepUnchanged, AnonymizeReturns
<1>9. CASE AccountEndsDeletion \/ Fail \/ UndoFails
  BY <1>3, <1>9 DEF AccountEndsDeletion, Fail, UndoFails
<1>10. ASSUME NEW e \in Entities, OtherEdit(e) PROVE CountsTyped
  <2>1. edits' \in 0..MaxEdits
    BY <1>10, LimitsAssumption DEF OtherEdit, TypeOK
  <2>2. UNCHANGED <<composite, faults, before, accounts>>
    BY <1>10 DEF OtherEdit
  <2>3. edited' \subseteq Entities /\ raced' \subseteq Entities
    BY <1>10, OtherEditDoes DEF TypeOK
  <2> QED
    BY <2>1, <2>2, <2>3 DEF CountsTyped, TypeOK
<1> QED
  BY <1>4, <1>5, <1>6, <1>7, <1>8, <1>9, <1>10 DEF Next, ActionStep

\* The actions, one by one: what follows from each of them and from a stuttering step
\* follows from every step.
LEMMA TypeStays ==
  ASSUME TypeOK, [Next]_vars
  PROVE  TypeOK'
<1>1. CASE UNCHANGED vars
  BY <1>1 DEF TypeOK, vars, envVars
<1>2. CASE Next
  <2>1. CountsTyped
    BY <1>2, CountsStayTyped
  <2> DEFINE Rest == db' \in [Entities -> Record] /\ action' \in Action /\ stack' \in Seq(Frame)
  <2>2. SUFFICES Rest
    BY <2>1, <2>2 DEF CountsTyped, TypeOK
  <2>3. db \in [Entities -> Record] /\ action \in Action /\ stack \in Seq(Frame)
        /\ <<>> \in Seq(Frame)
    BY DEF TypeOK
  <2>4. ASSUME NEW kind \in {"delete", "anonymize"}, Start(kind) PROVE Rest
    BY <2>3, <2>4, StartDoes
  <2>5. CASE ProcessNext
    BY <2>3, <2>5, ProcessNextDoes DEF OnlyTheAction
  <2>6. CASE Complete
    BY <2>3, <2>6, CompleteDoes DEF OnlyTheAction, EndsWith
  <2>7. CASE AccountEndsDeletion \/ Fail
    BY <2>3, <2>7, ThrowDoes DEF OnlyTheAction, EndsWith
  <2>8. CASE Undo
    BY <2>3, <2>8, UndoDoes DEF OnlyTheAction
  <2>9. CASE UndoCompletes \/ UndoFails
    BY <2>3, <2>9, UndoEnds DEF OnlyTheAction
  <2>10. CASE UndoBulk
    BY <2>3, <2>10, UndoBulkDoes DEF Undoes
  <2>11. ASSUME NEW e \in Entities, UndoOverwrite(e) PROVE Rest
    BY <2>3, <2>11, UndoOverwriteDoes DEF Undoes
  <2>12. CASE LoadLinking
    BY <2>3, <2>12, LoadLinkingDoes DEF ReplacesTop
  <2>13. CASE CompositeAction
    BY <2>3, <2>13, CompositeActionDoes
  <2>14. CASE HandleAccount
    BY <2>3, <2>14, HandleAccountDoes DEF ReplacesTop
  <2>15. CASE RemoveReference
    BY <2>3, <2>15, RemoveReferenceDoes DEF ReplacesTop
  <2>16. CASE RemoveRecord
    <3>1. stack # <<>>
      BY <2>16 DEF RemoveRecord, Running
    <3>2. Top.id \in Entities
      BY <3>1, TopTyped, FrameFields
    <3> QED
      BY <2>3, <2>16, <3>2, RemoveRecordDoes, TombstoneFields DEF Returns
  <2>17. CASE SkipAnonymize
    BY <2>3, <2>17, SkipAnonymizeDoes DEF Returns
  <2>18. CASE Anonymize
    BY <2>3, <2>18, AnonymizeDoes DEF ReplacesTop
  <2>19. CASE KeepUnchanged
    BY <2>3, <2>19, KeepUnchangedDoes DEF ReplacesTop
  <2>20. CASE AnonymizeReturns
    BY <2>3, <2>20, AnonymizeReturnsDoes DEF Returns
  <2>21. ASSUME NEW e \in Entities, OtherEdit(e) PROVE Rest
    BY <2>3, <2>21, OtherEditDoes
  <2> HIDE DEF Rest
  <2> QED
    BY <1>2, <2>4, <2>5, <2>6, <2>7, <2>8, <2>9, <2>10, <2>11, <2>12, <2>13, <2>14,
       <2>15, <2>16, <2>17, <2>18, <2>19, <2>20, <2>21 DEF Next, ActionStep, UndoStep
<1> QED
  BY <1>1, <1>2

\* Every reachable state is well typed, whatever the records, the references among them
\* and the number of edits and failures.
THEOREM TypeCorrect == Spec => []TypeOK
<1>1. Init => TypeOK
  BY InitDoes
<1>2. TypeOK /\ [Next]_vars => TypeOK'
  BY TypeStays
<1> QED
  BY <1>1, <1>2, PTL DEF Spec

\* Nothing is on the stack unless the action is running; nothing has been found before
\* it is started, when no record is anonymous yet.
Phases ==
    /\ action.kind = "none" <=> action.state = "idle"
    /\ action.state = "idle" => action.result = NoResult /\ db = before
    /\ action.state # "running" => stack = <<>>
    /\ \A e \in Entities : before[e].exists /\ ~before[e].anonymized
                           /\ (before[e].personal <=> e \in HasPII)

\* Only the innermost record is not in its cascade yet; in an anonymization each record
\* that is past its beginning is anonymous.
FrameOK(x, innermost, kind) ==
    /\ ~innermost => x.pc = "cascade"
    /\ x.pc # "cascade" => x.todo = {}
    /\ x.pc = "begin" => x.result = NoResult
    /\ kind = "anonymize" /\ x.pc # "begin" => x.entity.anonymized

Frames == \A i \in 1..Len(stack) : FrameOK(stack[i], i = Len(stack), action.kind)

InPhase == TypeOK /\ Phases /\ Frames

\* The kind of an action does not change once it is started, and what was there before
\* is what was there when it was started.
LEMMA PhasesStay ==
  ASSUME TypeOK, Phases, [Next]_vars
  PROVE  Phases'
<1>1. CASE UNCHANGED vars
  BY <1>1 DEF Phases, vars, envVars
<1>2. ASSUME UNCHANGED before, UNCHANGED action.kind,
             action.kind # "none", action'.state # "idle",
             action'.state # "running" => stack' = <<>>
      PROVE  Phases'
  BY <1>2 DEF Phases
<1>3. ASSUME NEW kind \in {"delete", "anonymize"}, Start(kind) PROVE Phases'
  <2>1. /\ action.state = "idle" /\ UNCHANGED <<db, stack>> /\ before' = db
        /\ action'.kind = kind /\ action'.state = "running"
    BY <1>3, StartDoes
  <2>2. kind # "none" /\ db = before
    BY <2>1 DEF Phases
  <2> QED
    BY <2>1, <2>2 DEF Phases
<1>4. action.state # "idle" => action.kind # "none"
  BY DEF Phases
<1>5. CASE ProcessNext
  BY <1>2, <1>4, <1>5, ProcessNextDoes DEF OnlyTheAction
<1>6. CASE Complete
  BY <1>2, <1>4, <1>6, CompleteDoes DEF OnlyTheAction, EndsWith
<1>7. CASE AccountEndsDeletion \/ Fail
  BY <1>2, <1>4, <1>7, ThrowDoes DEF OnlyTheAction, EndsWith
<1>8. CASE Undo
  BY <1>2, <1>4, <1>8, UndoDoes DEF OnlyTheAction, Phases
<1>9. CASE UndoCompletes \/ UndoFails
  <2>1. /\ action.state # "idle" /\ action.state # "running" /\ action'.state # "idle"
        /\ UNCHANGED <<stack, before, action.kind>>
    BY <1>9, UndoEnds DEF OnlyTheAction
  <2> QED
    BY <1>2, <1>4, <2>1 DEF Phases
<1>10. CASE UndoBulk
  BY <1>2, <1>4, <1>10, UndoBulkDoes DEF Undoes, Phases
<1>11. ASSUME NEW e \in Entities, UndoOverwrite(e) PROVE Phases'
  BY <1>2, <1>4, <1>11, UndoOverwriteDoes DEF Undoes, Phases
<1>12. CASE LoadLinking
  BY <1>2, <1>4, <1>12, LoadLinkingDoes DEF Keeps
<1>13. CASE CompositeAction
  BY <1>2, <1>4, <1>13, CompositeActionDoes DEF Keeps
<1>14. CASE HandleAccount
  BY <1>2, <1>4, <1>14, HandleAccountDoes DEF Keeps, Running
<1>15. CASE RemoveReference
  BY <1>2, <1>4, <1>15, RemoveReferenceDoes DEF Keeps, Running
<1>16. CASE RemoveRecord
  BY <1>2, <1>4, <1>16, RemoveRecordDoes DEF Keeps, Running, Returns
<1>17. CASE SkipAnonymize
  BY <1>2, <1>4, <1>17, SkipAnonymizeDoes DEF Keeps, Running, Returns
<1>18. CASE Anonymize
  BY <1>2, <1>4, <1>18, AnonymizeDoes DEF Keeps, Running
<1>19. CASE KeepUnchanged
  BY <1>2, <1>4, <1>19, KeepUnchangedDoes DEF Keeps, Running
<1>20. CASE AnonymizeReturns
  BY <1>2, <1>4, <1>20, AnonymizeReturnsDoes DEF Keeps, Running, Returns
<1>21. ASSUME NEW e \in Entities, OtherEdit(e) PROVE Phases'
  <2>1. action.state \in {"running", "done"} /\ UNCHANGED <<before, action, stack>>
    BY <1>21, OtherEditDoes
  <2> QED
    BY <1>2, <1>4, <2>1 DEF Phases
<1> QED
  BY <1>1, <1>3, <1>5, <1>6, <1>7, <1>8, <1>9, <1>10, <1>11, <1>12, <1>13, <1>14,
     <1>15, <1>16, <1>17, <1>18, <1>19, <1>20, <1>21 DEF Next, ActionStep, UndoStep

\* The steps after which there is something on the stack
StackStep ==
    \/ ProcessNext \/ LoadLinking \/ CompositeAction
    \/ HandleAccount \/ RemoveReference \/ RemoveRecord
    \/ SkipAnonymize \/ Anonymize \/ KeepUnchanged \/ AnonymizeReturns
    \/ \E e \in Entities : OtherEdit(e)

\* Only the steps of a running action, and other users, leave something on the stack.
LEMMA StackSteps ==
  ASSUME TypeOK, Phases, [Next]_vars, stack' # <<>>
  PROVE  action.state = "running" /\ UNCHANGED action.kind /\ (StackStep \/ UNCHANGED vars)
<1>1. ASSUME action.state # "running", UNCHANGED stack PROVE FALSE
  BY <1>1 DEF Phases
<1>2. ~Complete /\ ~AccountEndsDeletion /\ ~Fail
  BY CompleteDoes, ThrowDoes DEF EndsWith
<1>3. ~Start("delete") /\ ~Start("anonymize") /\ ~Undo
  BY <1>1, StartDoes, UndoDoes
<1>4. ~UndoBulk /\ \A e \in Entities : ~UndoOverwrite(e)
  BY <1>1, UndoBulkDoes, UndoOverwriteDoes DEF Undoes
<1>5. ~UndoCompletes /\ ~UndoFails
  <2>1. UndoCompletes \/ UndoFails => action.state # "running" /\ UNCHANGED stack
    BY UndoEnds
  <2> QED
    BY <1>1, <2>1
<1>6. StackStep \/ UNCHANGED vars
  BY <1>2, <1>3, <1>4, <1>5 DEF Next, ActionStep, UndoStep, StackStep
<1>7. CASE UNCHANGED vars
  BY <1>1, <1>6, <1>7 DEF vars
<1>8. CASE ProcessNext
  BY <1>6, <1>8, ProcessNextDoes
<1>9. CASE LoadLinking \/ CompositeAction
  BY <1>6, <1>9, LoadLinkingDoes, CompositeActionDoes
<1>10. CASE HandleAccount \/ RemoveReference \/ RemoveRecord
  BY <1>6, <1>10, HandleAccountDoes, RemoveReferenceDoes, RemoveRecordDoes DEF Running, Returns
<1>11. CASE SkipAnonymize \/ AnonymizeReturns
  BY <1>6, <1>11, SkipAnonymizeDoes, AnonymizeReturnsDoes DEF Running, Returns
<1>12. CASE Anonymize \/ KeepUnchanged
  BY <1>6, <1>12, AnonymizeDoes, KeepUnchangedDoes DEF Running
<1>13. CASE \E e \in Entities : OtherEdit(e)
  BY <1>1, <1>6, <1>13, OtherEditDoes
<1> QED
  BY <1>6, <1>7, <1>8, <1>9, <1>10, <1>11, <1>12, <1>13 DEF StackStep

\* When the innermost frame returns, the others keep their places.
LEMMA ReturnLeaves ==
  ASSUME TypeOK, stack # <<>>, NEW instance, NEW result, Returns(instance, result),
         NEW i \in 1..Len(stack')
  PROVE  /\ i \in 1..Len(stack) /\ i < Len(stack) /\ Len(stack') = Len(stack) - 1
         /\ i < Len(stack') => stack'[i] = stack[i]
         /\ i = Len(stack') =>
               /\ stack[i] = Caller /\ stack[i] \in Frame /\ stack'[i] \in Frame
               /\ stack'[i].id = stack[i].id /\ stack'[i].entity = stack[i].entity
               /\ stack'[i].pc = stack[i].pc /\ stack'[i].todo = stack[i].todo
               /\ \A e \in Entities : stack'[i].affected[e] =
                     IF e = Top.id THEN instance ELSE stack[i].affected[e]
               /\ stack'[i].result = MergeResults(stack[i].result, result)
<1>1. Len(stack) \in Nat \ {0} /\ \A k \in 1..Len(stack) : stack[k] \in Frame
  BY TopTyped
<1>2. stack' \in Seq(Frame) /\ Len(stack') = Len(stack) - 1
  BY DEF Returns
<1>3. /\ i \in 1..Len(stack) /\ i < Len(stack)
      /\ i < Len(stack') => i \in 1..(Len(stack) - 2)
      /\ i = Len(stack') => Len(stack) # 1 /\ i = Len(stack) - 1
  BY <1>1, <1>2
<1>4. i < Len(stack') => stack'[i] = stack[i]
  BY <1>3 DEF Returns
<1>5. stack'[i] \in Frame
  BY <1>2
<1> QED
  BY <1>1, <1>2, <1>3, <1>4, <1>5 DEF Returns, Caller

\* When the innermost frame changes, the others stay.
LEMMA ReplaceLeaves ==
  ASSUME TypeOK, stack # <<>>, NEW x, ReplacesTop(x), NEW i \in 1..Len(stack')
  PROVE  /\ i \in 1..Len(stack) /\ Len(stack') = Len(stack)
         /\ i < Len(stack) => stack'[i] = stack[i]
         /\ i = Len(stack) => stack'[i] = x /\ stack[i] = Top
<1>1. Len(stack) \in Nat \ {0}
  BY TopTyped
<1> QED
  BY <1>1 DEF ReplacesTop, Top

\* When the recursion enters a record, its frame is the innermost.
LEMMA CompositeLeaves ==
  ASSUME TypeOK, CompositeAction, NEW i \in 1..Len(stack')
  PROVE  /\ Len(stack') = Len(stack) + 1 /\ Len(stack) \in Nat \ {0}
         /\ i < Len(stack) => i \in 1..Len(stack) /\ stack'[i] = stack[i]
         /\ i = Len(stack) => stack[i] = Top
         /\ i \in 1..Len(stack) \/ i = Len(stack) + 1
<1>1. Len(stack) \in Nat \ {0}
  BY CompositeActionDoes, TopTyped
<1>2. Len(stack') = Len(stack) + 1 /\ \A k \in 1..(Len(stack) - 1) : stack'[k] = stack[k]
  BY CompositeActionDoes
<1>3. /\ i < Len(stack) => i \in 1..(Len(stack) - 1) /\ i \in 1..Len(stack)
      /\ i \in 1..Len(stack) \/ i = Len(stack) + 1
  BY <1>1, <1>2
<1> QED
  BY <1>1, <1>2, <1>3 DEF Top

\* The frames keep their shape, whatever the innermost one does.
LEMMA FramesStay ==
  ASSUME InPhase, [Next]_vars
  PROVE  Frames'
<1>1. TypeOK /\ Phases /\ Frames
  BY DEF InPhase
<1>2. SUFFICES ASSUME stack' # <<>> PROVE Frames'
  <2>1. stack' = <<>> => 1..Len(stack') = {}
    OBVIOUS
  <2> QED
    BY <1>2, <2>1 DEF Frames
<1>3. action.state = "running" /\ UNCHANGED action.kind /\ (StackStep \/ UNCHANGED vars)
  BY <1>1, <1>2, StackSteps
<1>4. SUFFICES ASSUME NEW i \in 1..Len(stack') 
               PROVE  FrameOK(stack'[i], i = Len(stack'), action.kind)
  BY <1>3 DEF Frames
<1>5. ASSUME UNCHANGED stack PROVE FrameOK(stack'[i], i = Len(stack'), action.kind)
  BY <1>1, <1>3, <1>5 DEF Frames, FrameOK
<1>6. \A k \in 1..Len(stack) : FrameOK(stack[k], k = Len(stack), action.kind)
  BY <1>1 DEF Frames
<1>7. ASSUME stack # <<>>, NEW x, ReplacesTop(x), FrameOK(x, TRUE, action.kind)
      PROVE  FrameOK(stack'[i], i = Len(stack'), action.kind)
  BY <1>1, <1>3, <1>6, <1>7, ReplaceLeaves DEF FrameOK
<1>8. ASSUME stack # <<>>, NEW instance, NEW result, Returns(instance, result)
      PROVE  FrameOK(stack'[i], i = Len(stack'), action.kind)
  <2>1. /\ i \in 1..Len(stack) /\ i < Len(stack)
        /\ i < Len(stack') => stack'[i] = stack[i]
        /\ i = Len(stack') => /\ stack'[i].entity = stack[i].entity
                              /\ stack'[i].pc = stack[i].pc /\ stack'[i].todo = stack[i].todo
    BY <1>1, <1>8, ReturnLeaves
  <2>2. i < Len(stack') \/ i = Len(stack')
    BY <1>1, <1>8, ReturnLeaves
  <2> QED
    BY <1>3, <1>6, <2>1, <2>2 DEF FrameOK
<1>9. stack # <<>> => Len(stack) \in Nat \ {0} /\ Top \in Frame /\ FrameOK(Top, TRUE, action.kind)
  <2>1. stack # <<>> => Len(stack) \in Nat \ {0} /\ Top \in Frame
    BY <1>1, TopTyped
  <2> QED
    BY <1>6, <2>1 DEF Top, FrameOK
<1>10. CASE ProcessNext
  <2>1. Len(stack') = 1 /\ \E e, instance : Begins(stack'[1], e, instance)
    BY <1>1, <1>10, ProcessNextDoes
  <2>2. i = 1
    BY <2>1
  <2> QED
    BY <1>3, <2>1, <2>2 DEF Begins, FrameOK
<1>11. CASE LoadLinking
  BY <1>1, <1>7, <1>9, <1>11, LoadLinkingDoes DEF FrameOK
<1>12. CASE CompositeAction
  <2>1. /\ stack # <<>> /\ stack'[Len(stack)].pc = "cascade" /\ Top.pc = "cascade"
        /\ stack'[Len(stack)].entity = Top.entity
        /\ Begins(stack'[Len(stack) + 1], Next1.id, Affected)
    BY <1>1, <1>12, CompositeActionDoes DEF Cascading
  <2>2. /\ Len(stack') = Len(stack) + 1
        /\ i < Len(stack) => i \in 1..Len(stack) /\ stack'[i] = stack[i]
        /\ i < Len(stack) \/ i = Len(stack) \/ i = Len(stack) + 1
    BY <1>1, <1>12, CompositeLeaves
  <2>3. \A n \in Nat : n # n + 1 /\ \A k \in 1..n : k # n + 1
    OBVIOUS
  <2>4. CASE i < Len(stack)
    <3>1. ~(i = Len(stack'))
      BY <1>9, <2>1, <2>2, <2>3, <2>4
    <3> QED
      BY <1>3, <1>6, <2>2, <2>4, <3>1 DEF FrameOK
  <2>5. CASE i = Len(stack)
    BY <1>3, <1>9, <2>1, <2>2, <2>3, <2>5 DEF FrameOK
  <2>6. CASE i = Len(stack) + 1
    BY <1>3, <2>1, <2>2, <2>6 DEF Begins, FrameOK
  <2> QED
    BY <2>2, <2>4, <2>5, <2>6
<1>13. CASE HandleAccount
  BY <1>1, <1>7, <1>9, <1>13, HandleAccountDoes DEF FrameOK, Running
<1>14. CASE RemoveReference
  BY <1>1, <1>7, <1>9, <1>14, RemoveReferenceDoes DEF FrameOK, Running
<1>15. CASE RemoveRecord
  BY <1>1, <1>8, <1>15, RemoveRecordDoes DEF Running
<1>16. CASE SkipAnonymize
  BY <1>1, <1>8, <1>16, SkipAnonymizeDoes DEF Running
<1>17. CASE Anonymize
  BY <1>1, <1>7, <1>9, <1>17, AnonymizeDoes DEF FrameOK, Running, Anonymized
<1>18. CASE KeepUnchanged
  BY <1>1, <1>7, <1>9, <1>18, KeepUnchangedDoes DEF FrameOK, Running, Cascading
<1>19. CASE AnonymizeReturns
  BY <1>1, <1>8, <1>19, AnonymizeReturnsDoes DEF Running
<1>20. CASE \E e \in Entities : OtherEdit(e)
  BY <1>1, <1>5, <1>20, OtherEditDoes
<1>21. CASE UNCHANGED vars
  BY <1>5, <1>21 DEF vars
<1> QED
  BY <1>3, <1>10, <1>11, <1>12, <1>13, <1>14, <1>15, <1>16, <1>17, <1>18, <1>19, <1>20,
     <1>21 DEF StackStep

\* InPhase is inductive.
LEMMA InPhaseStays ==
  ASSUME InPhase, [Next]_vars
  PROVE  InPhase'
  BY TypeStays, PhasesStay, FramesStay DEF InPhase

\* Nothing is on the stack at first.
LEMMA InPhaseAtFirst ==
  ASSUME Init
  PROVE  InPhase
<1>1. TypeOK /\ action = NoAction /\ stack = <<>>
  BY InitDoes
<1>2. Phases
  BY InitDoes DEF Phases, NoAction
<1>3. Frames
  BY <1>1 DEF Frames
<1> QED
  BY <1>1, <1>2, <1>3 DEF InPhase

-----------------------------------------------------------------------------
(***************************************************************************)
(* Anonymizing                                                             *)
(***************************************************************************)

\* The record at i and those that led to it: past its beginning the record is anonymous
\* in the database; the records its cascade has loaded show all of them as anonymous; and
\* a record that is on the stack twice has been found anonymous, and goes no further.
MarkedAt(i) ==
    /\ stack[i].pc # "begin" => db[stack[i].id].anonymized
    /\ stack[i].pc = "cascade" => \A j \in 1..i : stack[i].affected[stack[j].id].anonymized
    /\ \A j \in 1..(i - 1) : stack[i].id = stack[j].id =>
          stack[i].entity.anonymized /\ stack[i].pc = "begin"

Marked == action.kind = "anonymize" => \A i \in 1..Len(stack) : MarkedAt(i)

\* The steps of an anonymization
LEMMA AnonymizeSteps ==
  ASSUME InPhase, [Next]_vars, stack' # <<>>, action'.kind = "anonymize"
  PROVE  /\ action.kind = "anonymize" /\ action.state = "running"
         /\ \/ ProcessNext \/ LoadLinking \/ CompositeAction
            \/ SkipAnonymize \/ Anonymize \/ KeepUnchanged \/ AnonymizeReturns
            \/ \E e \in Entities : OtherEdit(e)
            \/ UNCHANGED vars
<1>1. action.state = "running" /\ UNCHANGED action.kind /\ (StackStep \/ UNCHANGED vars)
  BY StackSteps DEF InPhase
<1>2. ~HandleAccount /\ ~RemoveReference /\ ~RemoveRecord
  BY <1>1 DEF HandleAccount, RemoveReference, RemoveRecord, Running
<1> QED
  BY <1>1, <1>2 DEF StackStep

\* What is anonymous stays so.
LEMMA AnonymousStays ==
  ASSUME InPhase, [Next]_vars, stack' # <<>>, action'.kind = "anonymize"
  PROVE  \A e \in Entities : db[e].anonymized => db'[e].anonymized
<1>1. TypeOK /\ db \in [Entities -> Record]
  BY DEF InPhase, TypeOK
<1>2. CASE Anonymize
  <2>1. PICK changed \in Record : changed.anonymized /\ db' = [db EXCEPT ![Top.id] = changed]
    BY <1>1, <1>2, AnonymizeDoes DEF Anonymized
  <2> QED
    BY <1>1, <2>1
<1>3. ASSUME NEW x \in Entities, OtherEdit(x)
      PROVE  \A e \in Entities : db[e].anonymized => db'[e].anonymized
  <2>1. PICK changed \in Record :
          changed.anonymized = db[x].anonymized /\ db' = [db EXCEPT ![x] = changed]
    BY <1>1, <1>3, OtherEditDoes DEF EditsTo
  <2> QED
    BY <1>1, <2>1
<1>4. CASE UNCHANGED db
  BY <1>4
<1>5. \/ Anonymize \/ \E e \in Entities : OtherEdit(e)
      \/ UNCHANGED db
  BY <1>1, AnonymizeSteps, ProcessNextDoes, LoadLinkingDoes, CompositeActionDoes, SkipAnonymizeDoes,
     KeepUnchangedDoes, AnonymizeReturnsDoes DEF OnlyTheAction, vars
<1> QED
  BY <1>2, <1>3, <1>4, <1>5

\* A frame keeps its place: the records on the stack are the same up to where it was.
LEMMA IdsOfReplaced ==
  ASSUME TypeOK, stack # <<>>, NEW x, ReplacesTop(x), x.id = Top.id
  PROVE  /\ Len(stack') = Len(stack) /\ Len(stack) \in Nat \ {0}
         /\ \A i \in 1..Len(stack) : stack'[i].id = stack[i].id
<1>1. Len(stack') = Len(stack) /\ Len(stack) \in Nat \ {0}
  BY TopTyped DEF ReplacesTop
<1>2. ASSUME NEW i \in 1..Len(stack) PROVE stack'[i].id = stack[i].id
  <2>1. i = Len(stack) \/ i < Len(stack)
    BY <1>1
  <2> QED
    BY <1>1, <2>1, ReplaceLeaves
<1> QED
  BY <1>1, <1>2

\* When the innermost frame returns, the records of the others are the same.
LEMMA IdsOfReturned ==
  ASSUME TypeOK, stack # <<>>, NEW instance, NEW result, Returns(instance, result)
  PROVE  /\ Len(stack') = Len(stack) - 1 /\ Len(stack) \in Nat \ {0}
         /\ \A i \in 1..Len(stack') : i \in 1..Len(stack) /\ stack'[i].id = stack[i].id
<1>1. Len(stack') = Len(stack) - 1 /\ Len(stack) \in Nat \ {0}
  BY TopTyped DEF Returns
<1>2. ASSUME NEW i \in 1..Len(stack') PROVE i \in 1..Len(stack) /\ stack'[i].id = stack[i].id
  <2>1. i = Len(stack') \/ i < Len(stack')
    BY <1>1
  <2> QED
    BY <1>1, <2>1, ReturnLeaves
<1> QED
  BY <1>1, <1>2

\* When the recursion enters a record, it is added to the records on the stack.
LEMMA IdsOfEntered ==
  ASSUME TypeOK, CompositeAction
  PROVE  /\ Len(stack') = Len(stack) + 1 /\ Len(stack) \in Nat \ {0}
         /\ \A i \in 1..Len(stack) : stack'[i].id = stack[i].id
         /\ stack'[Len(stack) + 1].id = Next1.id
<1>1. /\ Len(stack') = Len(stack) + 1 /\ Len(stack) \in Nat \ {0}
      /\ stack'[Len(stack)].id = Top.id
      /\ stack'[Len(stack) + 1].id = Next1.id
  BY CompositeActionDoes, TopTyped DEF Begins
<1>2. ASSUME NEW i \in 1..Len(stack) PROVE stack'[i].id = stack[i].id
  <2>1. i = Len(stack) \/ i < Len(stack)
    BY <1>1
  <2>2. i \in 1..Len(stack')
    BY <1>1
  <2> QED
    BY <1>1, <2>1, <2>2, CompositeLeaves
<1> QED
  BY <1>1, <1>2

\* In the cascade of an anonymization, a record that is processed already is found to
\* be anonymous, so that entering it goes no further.
LEMMA MarkedStays ==
  ASSUME InPhase, Marked, [Next]_vars
  PROVE  Marked'
<1>1. SUFFICES ASSUME action'.kind = "anonymize", NEW i \in 1..Len(stack') PROVE MarkedAt(i)'
  BY DEF Marked
<1>2. TypeOK /\ stack' \in Seq(Frame) /\ stack \in Seq(Frame)
  BY TypeStays DEF InPhase, TypeOK
<1>3. stack' # <<>>
  <2>1. Len(<<>>) = 0 /\ 1..0 = {}
    OBVIOUS
  <2> QED
    BY <2>1
<1>4. /\ action.kind = "anonymize" /\ action.state = "running"
      /\ \A e \in Entities : db[e].anonymized => db'[e].anonymized
  BY <1>1, <1>3, AnonymizeSteps, AnonymousStays
<1>5. /\ \A k \in 1..Len(stack) : MarkedAt(k) /\ stack[k] \in Frame /\ stack[k].id \in Entities
      /\ stack # <<>> => /\ Top \in Frame /\ Len(stack) \in 1..Len(stack)
                         /\ stack[Len(stack)] = Top /\ Len(stack) \in Nat \ {0}
  <2>1. stack # <<>> => Top \in Frame /\ Len(stack) \in Nat \ {0}
    BY <1>2, TopTyped
  <2>2. \A k \in 1..Len(stack) : stack[k] \in Frame
    BY <1>2
  <2> QED
    BY <1>4, <2>1, <2>2, FrameFields DEF Marked, Top
<1>6. i \in Nat /\ i <= Len(stack') /\ 1..(i - 1) \subseteq 1..i /\ i \in 1..i
      /\ \A j \in 1..i : j <= i /\ j \in 1..Len(stack')
  BY <1>2
<1>7. ASSUME i \in 1..Len(stack), stack'[i] = stack[i],
             \A j \in 1..i : stack'[j].id = stack[j].id
      PROVE  MarkedAt(i)'
  BY <1>4, <1>5, <1>6, <1>7 DEF MarkedAt
<1>8. CASE ProcessNext
  <2>1. Len(stack') = 1 /\ stack'[1].pc = "begin"
    BY <1>2, <1>4, <1>8, ProcessNextDoes DEF Begins
  <2>2. i = 1 /\ 1..(i - 1) = {}
    BY <2>1
  <2> QED
    BY <2>1, <2>2 DEF MarkedAt
<1>9. CASE LoadLinking
  <2>1. PICK x \in Frame :
           /\ ReplacesTop(x) /\ x.id = Top.id /\ x.pc = "cascade" /\ x.affected = db
           /\ stack # <<>> /\ Top.pc = "load" /\ UNCHANGED db
    BY <1>2, <1>9, LoadLinkingDoes
  <2>2. \A k \in 1..Len(stack) : stack'[k].id = stack[k].id
    BY <1>2, <2>1, IdsOfReplaced
  <2>3. /\ i \in 1..Len(stack) /\ i <= Len(stack)
        /\ i < Len(stack) => stack'[i] = stack[i]
        /\ i = Len(stack) => stack'[i] = x
    BY <1>2, <2>1, ReplaceLeaves
  <2>4. CASE i < Len(stack)
    BY <1>6, <1>7, <2>2, <2>3, <2>4, <2>1 DEF ReplacesTop
  <2>5. CASE i = Len(stack)
    <3>1. \A j \in 1..i : db[stack[j].id].anonymized
      <4>1. \A j \in 1..i : j = i \/ j < Len(stack)
        BY <2>5
      <4>2. \A j \in 1..Len(stack) : j < Len(stack) => stack[j].pc = "cascade"
        BY DEF InPhase, Frames, FrameOK
      <4>3. \A j \in 1..Len(stack) : stack[j].pc # "begin"
        BY <1>5, <2>1, <2>5, <4>1, <4>2
      <4> QED
        BY <1>5, <2>5, <4>3 DEF MarkedAt
    <3>2. \A j \in 1..(i - 1) : stack[i].id # stack[j].id
      BY <1>5, <2>1, <2>5 DEF MarkedAt
    <3> QED
      BY <1>6, <2>1, <2>2, <2>3, <2>5, <3>1, <3>2 DEF MarkedAt
  <2> QED
    BY <2>3, <2>4, <2>5
<1>10. CASE CompositeAction
  <2>1. /\ stack # <<>> /\ Top.pc = "cascade" /\ UNCHANGED db
        /\ LET x == stack'[Len(stack)]
           IN x.id = Top.id /\ x.pc = "cascade" /\ x.affected = Top.affected
        /\ Begins(stack'[Len(stack) + 1], Next1.id, Affected)
    BY <1>2, <1>10, CompositeActionDoes DEF Cascading
  <2>2. /\ Len(stack') = Len(stack) + 1
        /\ \A k \in 1..Len(stack) : stack'[k].id = stack[k].id
    BY <1>2, <1>10, IdsOfEntered
  <2>3. i < Len(stack) => i \in 1..Len(stack) /\ stack'[i] = stack[i]
    BY <1>2, <1>10, CompositeLeaves
  <2>4. CASE i < Len(stack)
    <3>1. \A j \in 1..i : j \in 1..Len(stack)
      BY <1>5, <2>4
    <3> QED
      BY <1>7, <2>2, <2>3, <2>4, <3>1
  <2>5. CASE i = Len(stack)
    <3>1. MarkedAt(i) /\ stack[i] = Top /\ \A j \in 1..i : stack'[j].id = stack[j].id
      BY <1>5, <2>1, <2>2, <2>5
    <3>2. stack'[i].pc = "cascade" /\ stack'[i].affected = Top.affected
      BY <2>1, <2>5
    <3> QED
      BY <1>4, <1>5, <1>6, <2>1, <2>5, <3>1, <3>2 DEF MarkedAt
  <2>6. CASE i = Len(stack) + 1
    <3>1. /\ stack'[i].id = Next1.id /\ stack'[i].entity = Top.affected[Next1.id]
          /\ stack'[i].pc = "begin"
      BY <1>4, <2>1, <2>6 DEF Begins, Affected
    <3>2. 1..(i - 1) = 1..Len(stack)
      BY <1>5, <2>1, <2>6
    <3>3. \A j \in 1..Len(stack) : Top.affected[stack[j].id].anonymized
      BY <1>5, <2>1 DEF MarkedAt
    <3> QED
      BY <2>2, <3>1, <3>2, <3>3 DEF MarkedAt
  <2>7. i < Len(stack) \/ i = Len(stack) \/ i = Len(stack) + 1
    BY <1>5, <1>6, <2>1, <2>2
  <2> QED
    BY <2>4, <2>5, <2>6, <2>7
\* A frame that returns an anonymous instance, or one that is not on the stack below
<1>11. ASSUME stack # <<>>, NEW result, Returns(Top.entity, result),
              UNCHANGED db
       PROVE  MarkedAt(i)'
  <2>1. /\ Len(stack') = Len(stack) - 1
        /\ \A k \in 1..Len(stack') : k \in 1..Len(stack) /\ stack'[k].id = stack[k].id
    BY <1>2, <1>11, IdsOfReturned
  <2>2. \A j \in 1..i : stack'[j].id = stack[j].id /\ j \in 1..(Len(stack) - 1) /\ j \in 1..Len(stack)
    BY <1>5, <1>6, <1>11, <2>1
  <2>3. CASE i < Len(stack')
    BY <1>2, <1>7, <1>11, <2>1, <2>2, <2>3, ReturnLeaves
  <2>4. CASE i = Len(stack')
    <3>1. /\ stack'[i].entity = stack[i].entity /\ stack'[i].pc = stack[i].pc
          /\ \A e \in Entities : stack'[i].affected[e] =
                     IF e = Top.id THEN Top.entity ELSE stack[i].affected[e]
      BY <1>2, <1>11, <2>4, ReturnLeaves
    <3>2. i \in 1..Len(stack) /\ MarkedAt(i)
      BY <1>5, <2>1
    <3>3. \A j \in 1..i : Top.id = stack[j].id => Top.entity.anonymized
      BY <1>5, <1>11, <2>2 DEF MarkedAt
    <3>4. \A j \in 1..i : stack[j].id \in Entities
      BY <1>5, <2>2
    <3>5. stack'[i].pc = "cascade" => \A j \in 1..i : stack'[i].affected[stack[j].id].anonymized
      BY <3>1, <3>2, <3>3, <3>4 DEF MarkedAt
    <3> QED
      BY <1>6, <1>11, <2>2, <3>1, <3>2, <3>5 DEF MarkedAt
  <2> QED
    BY <1>2, <1>6, <2>3, <2>4
<1>12. CASE SkipAnonymize
  BY <1>2, <1>11, <1>12, SkipAnonymizeDoes DEF Running
<1>13. CASE AnonymizeReturns
  BY <1>2, <1>11, <1>13, AnonymizeReturnsDoes DEF Running
\* A frame that stays in its cascade, or is anonymous now
<1>14. CASE KeepUnchanged
  <2>1. PICK x \in Frame :
           /\ ReplacesTop(x) /\ x.id = Top.id /\ x.pc = "cascade" /\ x.affected = Top.affected
           /\ stack # <<>> /\ Top.pc = "cascade" /\ UNCHANGED db
    BY <1>2, <1>14, KeepUnchangedDoes DEF Running, Cascading
  <2>2. \A k \in 1..Len(stack) : stack'[k].id = stack[k].id
    BY <1>2, <2>1, IdsOfReplaced
  <2>3. /\ i \in 1..Len(stack) /\ i <= Len(stack) /\ Len(stack') = Len(stack)
        /\ i < Len(stack) => stack'[i] = stack[i]
        /\ i = Len(stack) => stack'[i] = x
    BY <1>2, <2>1, ReplaceLeaves
  <2>4. CASE i < Len(stack)
    BY <1>6, <1>7, <2>2, <2>3, <2>4
  <2>5. CASE i = Len(stack)
    <3>1. MarkedAt(i) /\ stack[i] = Top /\ stack'[i] = x /\ \A j \in 1..i : stack'[j].id = stack[j].id
      BY <1>5, <1>6, <2>2, <2>3, <2>5
    <3> QED
      BY <1>6, <2>1, <2>5, <3>1 DEF MarkedAt
  <2> QED
    BY <2>3, <2>4, <2>5
<1>15. CASE Anonymize
  <2>1. PICK changed \in Record, x \in Frame :
           /\ Anonymized(changed) /\ db' = [db EXCEPT ![Top.id] = changed]
           /\ ReplacesTop(x) /\ x.id = Top.id /\ x.pc = "load"
           /\ stack # <<>> /\ Top.pc = "begin" /\ ~NothingToAnonymize
    BY <1>2, <1>15, AnonymizeDoes DEF Running
  <2>2. \A k \in 1..Len(stack) : stack'[k].id = stack[k].id
    BY <1>2, <2>1, IdsOfReplaced
  <2>3. /\ i \in 1..Len(stack) /\ i <= Len(stack) /\ Len(stack') = Len(stack)
        /\ i < Len(stack) => stack'[i] = stack[i]
        /\ i = Len(stack) => stack'[i] = x
    BY <1>2, <2>1, ReplaceLeaves
  <2>4. CASE i < Len(stack)
    BY <1>6, <1>7, <2>2, <2>3, <2>4
  <2>5. CASE i = Len(stack)
    <3>1. MarkedAt(i) /\ stack[i] = Top /\ stack'[i] = x /\ \A j \in 1..i : stack'[j].id = stack[j].id
      BY <1>5, <1>6, <2>2, <2>3, <2>5
    <3>2. ~Top.entity.anonymized
      BY <2>1 DEF NothingToAnonymize
    <3>3. db'[Top.id].anonymized
      <4>1. Top.id \in Entities /\ db \in [Entities -> Record]
        BY <1>2, <1>5, <2>1, FrameFields DEF TypeOK
      <4> QED
        BY <2>1, <4>1 DEF Anonymized
    <3> QED
      BY <1>6, <2>1, <2>5, <3>1, <3>2, <3>3 DEF MarkedAt
  <2> QED
    BY <2>3, <2>4, <2>5
<1>16. CASE UNCHANGED stack
  BY <1>6, <1>7, <1>16
<1>17. (\E e \in Entities : OtherEdit(e)) \/ UNCHANGED vars => UNCHANGED stack
  BY <1>2, OtherEditDoes DEF vars
<1> QED
  BY <1>1, <1>3, <1>8, <1>9, <1>10, <1>12, <1>13, <1>14, <1>15, <1>16, <1>17, AnonymizeSteps

\* An anonymization never gets back into a record that it is still processing.
THEOREM AnonymizingTerminates == Spec => []AnonymizingTerminatesOnCycles
<1>1. Init => InPhase /\ Marked
  <2>1. ASSUME Init PROVE Marked
    BY <2>1, InitDoes DEF NoAction, Marked
  <2> QED
    BY <2>1, InPhaseAtFirst
<1>2. InPhase /\ Marked /\ [Next]_vars => (InPhase /\ Marked)'
  BY InPhaseStays, MarkedStays
<1>3. InPhase /\ Marked => AnonymizingTerminatesOnCycles
  <2> SUFFICES ASSUME InPhase, Marked, action.kind = "anonymize",
                      NEW i \in DOMAIN stack, NEW j \in DOMAIN stack,
                      i < j, stack[i].id = stack[j].id, stack[j].pc # "begin"
               PROVE  FALSE
    BY DEF AnonymizingTerminatesOnCycles, Reentered
  <2>1. stack \in Seq(Frame)
    BY DEF InPhase, TypeOK
  <2>2. j \in 1..Len(stack) /\ i \in 1..(j - 1)
    BY <2>1
  <2> QED
    BY <2>2 DEF Marked, MarkedAt
<1> QED
  BY <1>1, <1>2, <1>3, PTL DEF Spec

\* An anonymization takes personal data away and nothing else; whoever holds an instance
\* that is anonymous has it from the database.
AnonymousAt(i) ==
    /\ stack[i].entity.anonymized => db[stack[i].id].anonymized
    /\ stack[i].pc = "cascade" =>
          \A e \in Entities : stack[i].affected[e].anonymized => db[e].anonymized

AnonymousOnly ==
    action.kind = "anonymize" /\ action.state \in {"running", "done"} =>
        /\ \A e \in Entities :
              /\ db[e].personal => e \in HasPII
              /\ db[e].anonymized => ~db[e].personal
              /\ edited = {} => db[e].anonymized \/ db[e] = before[e]
        /\ action.state = "running" =>
              \A k \in DOMAIN action.selected : action.selected[k].entity.anonymized =>
                  db[action.selected[k].id].anonymized
        /\ \A i \in 1..Len(stack) : AnonymousAt(i)

\* The steps of an anonymization that has not failed, with the last of them
AnonymizeStep ==
    \/ ProcessNext \/ Complete \/ LoadLinking \/ CompositeAction
    \/ SkipAnonymize \/ Anonymize \/ KeepUnchanged \/ AnonymizeReturns
    \/ \E e \in Entities : OtherEdit(e)
    \/ UNCHANGED vars

\* An anonymization that is running or done has just been started, or has made a step.
LEMMA AnonymizeMoves ==
  ASSUME InPhase, [Next]_vars,
         action'.kind = "anonymize", action'.state \in {"running", "done"}
  PROVE  \/ Start("anonymize")
         \/ AnonymizeStep /\ action.kind = "anonymize" /\ action.state \in {"running", "done"}
<1>1. TypeOK
  BY DEF InPhase
<1>2. ~Start("delete") /\ ~AccountEndsDeletion /\ ~Fail /\ ~Undo
  BY <1>1, StartDoes, ThrowDoes, UndoDoes DEF EndsWith
<1>3. ~UndoCompletes /\ ~UndoFails /\ ~UndoBulk /\ \A e \in Entities : ~UndoOverwrite(e)
  BY <1>1, UndoEnds, UndoBulkDoes, UndoOverwriteDoes
<1>4. ~HandleAccount /\ ~RemoveReference /\ ~RemoveRecord
  <2>1. HandleAccount \/ RemoveReference \/ RemoveRecord => action'.kind = "delete"
    BY <1>1, HandleAccountDoes, RemoveReferenceDoes, RemoveRecordDoes DEF Running, Returns
  <2> QED
    BY <2>1
<1>5. Start("anonymize") \/ AnonymizeStep
  BY <1>2, <1>3, <1>4 DEF Next, ActionStep, UndoStep, AnonymizeStep
<1>6. ProcessNext \/ Complete \/ LoadLinking \/ CompositeAction
      => action'.kind = action.kind /\ action.state = "running"
  BY <1>1, ProcessNextDoes, CompleteDoes, LoadLinkingDoes, CompositeActionDoes DEF EndsWith
<1>7. SkipAnonymize \/ Anonymize \/ KeepUnchanged \/ AnonymizeReturns
      => action'.kind = action.kind /\ action.state = "running"
  BY <1>1, SkipAnonymizeDoes, AnonymizeDoes, KeepUnchangedDoes, AnonymizeReturnsDoes
     DEF Running, Returns
<1>8. (\E e \in Entities : OtherEdit(e)) \/ UNCHANGED vars => UNCHANGED action
  BY <1>1, OtherEditDoes DEF vars
<1> QED
  BY <1>5, <1>6, <1>7, <1>8 DEF AnonymizeStep

\* What the steps do to the records: one is made anonymous, or another user changes one,
\* or none changes.
LEMMA AnonymizeWrites ==
  ASSUME InPhase, AnonymizeStep
  PROVE  /\ UNCHANGED before
         /\ \/ UNCHANGED <<db, edited>>
            \/ \E e \in Entities, changed \in Record :
                  /\ db' = [db EXCEPT ![e] = changed]
                  /\ \/ changed.anonymized /\ ~changed.personal /\ UNCHANGED edited
                        /\ Anonymize /\ e = Top.id
                     \/ changed.anonymized = db[e].anonymized
                        /\ changed.personal = db[e].personal /\ edited' # {}
<1>1. TypeOK
  BY DEF InPhase
<1>2. CASE Anonymize
  <2>1. PICK changed \in Record :
           /\ changed.anonymized /\ ~changed.personal
           /\ db' = [db EXCEPT ![Top.id] = changed] /\ UNCHANGED <<edited, before>>
    BY <1>1, <1>2, AnonymizeDoes DEF Anonymized, Keeps
  <2>2. Top.id \in Entities
    BY <1>1, <1>2, TopTyped, FrameFields DEF Anonymize, Running
  <2> QED
    BY <1>2, <2>1, <2>2
<1>3. ASSUME NEW x \in Entities, OtherEdit(x)
      PROVE  /\ UNCHANGED before /\ edited' # {}
             /\ \E changed \in Record :
                  /\ changed.anonymized = db[x].anonymized /\ changed.personal = db[x].personal
                  /\ db' = [db EXCEPT ![x] = changed]
  BY <1>1, <1>3, OtherEditDoes DEF EditsTo
<1>4. LoadLinking \/ CompositeAction \/ SkipAnonymize \/ KeepUnchanged \/ AnonymizeReturns
              => Keeps /\ UNCHANGED db
  BY <1>1, LoadLinkingDoes, CompositeActionDoes, SkipAnonymizeDoes,
     KeepUnchangedDoes, AnonymizeReturnsDoes
<1>5. ProcessNext \/ Complete => OnlyTheAction
  BY <1>1, ProcessNextDoes, CompleteDoes
<1> QED
  BY <1>2, <1>3, <1>4, <1>5 DEF AnonymizeStep, OnlyTheAction, Keeps, vars, envVars

\* What the steps do to the stack
LEMMA AnonymizeFrames ==
  ASSUME InPhase, AnonymizeStep, action.kind = "anonymize", AnonymousOnly,
         \A e \in Entities : db[e].anonymized => db'[e].anonymized,
         action.state \in {"running", "done"}, NEW i \in 1..Len(stack')
  PROVE  AnonymousAt(i)'
<1>1. TypeOK /\ stack \in Seq(Frame)
  BY DEF InPhase, TypeOK
<1>2. /\ \A k \in 1..Len(stack) : AnonymousAt(k) /\ stack[k] \in Frame /\ stack[k].id \in Entities
      /\ stack # <<>> => /\ Top \in Frame /\ Len(stack) \in 1..Len(stack)
                         /\ stack[Len(stack)] = Top /\ Len(stack) \in Nat \ {0}
                         /\ AnonymousAt(Len(stack))
  <2>1. stack # <<>> => Top \in Frame /\ Len(stack) \in Nat \ {0}
    BY <1>1, TopTyped
  <2>2. \A k \in 1..Len(stack) : stack[k] \in Frame
    BY <1>1
  <2> QED
    BY <2>1, <2>2, FrameFields DEF AnonymousOnly, Top
<1>3. ASSUME i \in 1..Len(stack), stack'[i] = stack[i] PROVE AnonymousAt(i)'
  BY <1>2, <1>3 DEF AnonymousAt
<1>4. CASE UNCHANGED stack
  BY <1>3, <1>4
<1>5. CASE Complete
  <2>1. stack' = <<>>
    BY <1>1, <1>5, CompleteDoes DEF EndsWith
  <2>2. FALSE
    BY <2>1
  <2> QED
    BY <2>2
<1>6. CASE ProcessNext
  <2>1. PICK k \in DOMAIN action.selected :
           /\ Len(stack') = 1 /\ action.state = "running"
           /\ Begins(stack'[1], action.selected[k].id, action.selected[k].entity)
    BY <1>1, <1>6, ProcessNextDoes
  <2>2. i = 1 /\ stack'[1].pc = "begin"
    BY <2>1 DEF Begins
  <2>3. action.selected[k].entity.anonymized => db[action.selected[k].id].anonymized
    BY <2>1 DEF AnonymousOnly
  <2>4. stack'[1].id \in Entities /\ stack'[1].id = action.selected[k].id
        /\ stack'[1].entity = action.selected[k].entity
    BY <2>1, FrameFields DEF Begins
  <2> QED
    BY <2>2, <2>3, <2>4 DEF AnonymousAt
<1>7. CASE LoadLinking
  <2>1. PICK x \in Frame :
           /\ ReplacesTop(x) /\ x.id = Top.id /\ x.entity = Top.entity /\ x.affected = db
           /\ stack # <<>>
    BY <1>1, <1>7, LoadLinkingDoes
  <2>2. /\ i \in 1..Len(stack) /\ (i < Len(stack) \/ i = Len(stack))
        /\ i < Len(stack) => stack'[i] = stack[i]
        /\ i = Len(stack) => stack'[i] = x
    BY <1>1, <2>1, ReplaceLeaves
  <2> QED
    BY <1>2, <1>3, <2>1, <2>2, FrameFields DEF AnonymousAt
<1>8. CASE CompositeAction
  <2>1. /\ stack # <<>> /\ Top.pc = "cascade"
        /\ LET x == stack'[Len(stack)]
           IN x.id = Top.id /\ x.entity = Top.entity /\ x.affected = Top.affected
        /\ Begins(stack'[Len(stack) + 1], Next1.id, Affected) /\ Next1.id \in Entities
    BY <1>1, <1>8, CompositeActionDoes, NextTyped DEF Cascading
  <2>2. /\ i < Len(stack) => i \in 1..Len(stack) /\ stack'[i] = stack[i]
        /\ i < Len(stack) \/ i = Len(stack) \/ i = Len(stack) + 1
    BY <1>1, <1>8, CompositeLeaves
  <2>3. CASE i = Len(stack)
    BY <1>2, <2>1, <2>3, FrameFields DEF AnonymousAt
  <2>4. CASE i = Len(stack) + 1
    <3>1. stack'[i].id = Next1.id /\ stack'[i].entity = Top.affected[Next1.id]
          /\ stack'[i].pc = "begin"
      BY <2>1, <2>4 DEF Begins, Affected
    <3> QED
      BY <1>2, <2>1, <3>1 DEF AnonymousAt
  <2> QED
    BY <1>3, <2>2, <2>3, <2>4
<1>9. ASSUME stack # <<>>, NEW result, Returns(Top.entity, result)
      PROVE  AnonymousAt(i)'
  <2>1. /\ i \in 1..Len(stack) /\ (i < Len(stack') \/ i = Len(stack'))
        /\ i < Len(stack') => stack'[i] = stack[i]
        /\ i = Len(stack') =>
               /\ stack'[i].id = stack[i].id /\ stack'[i].entity = stack[i].entity
               /\ stack'[i].pc = stack[i].pc
               /\ \A e \in Entities : stack'[i].affected[e] =
                     IF e = Top.id THEN Top.entity ELSE stack[i].affected[e]
    BY <1>1, <1>9, ReturnLeaves
  <2>2. CASE i = Len(stack')
    <3>1. AnonymousAt(i) /\ AnonymousAt(Len(stack)) /\ stack[i].id \in Entities
      BY <1>2, <1>9, <2>1
    <3>2. stack[i].pc = "cascade" =>
            \A e \in Entities : stack'[i].affected[e].anonymized => db'[e].anonymized
      BY <1>2, <1>9, <2>1, <2>2, <3>1 DEF AnonymousAt
    <3>3. stack[i].entity.anonymized => db'[stack[i].id].anonymized
      BY <3>1 DEF AnonymousAt
    <3> QED
      BY <2>1, <2>2, <3>2, <3>3 DEF AnonymousAt
  <2> QED
    BY <1>3, <2>1, <2>2
<1>10. CASE SkipAnonymize
  BY <1>1, <1>9, <1>10, SkipAnonymizeDoes DEF Running
<1>11. CASE AnonymizeReturns
  BY <1>1, <1>9, <1>11, AnonymizeReturnsDoes DEF Running
<1>12. CASE KeepUnchanged
  <2>1. PICK x \in Frame :
           /\ ReplacesTop(x) /\ x.id = Top.id /\ x.entity = Top.entity /\ x.affected = Top.affected
           /\ stack # <<>> /\ Top.pc = "cascade"
    BY <1>1, <1>12, KeepUnchangedDoes DEF Running, Cascading
  <2>2. /\ i \in 1..Len(stack) /\ (i < Len(stack) \/ i = Len(stack))
        /\ i < Len(stack) => stack'[i] = stack[i]
        /\ i = Len(stack) => stack'[i] = x
    BY <1>1, <2>1, ReplaceLeaves
  <2> QED
    BY <1>2, <1>3, <2>1, <2>2, FrameFields DEF AnonymousAt
<1>13. CASE Anonymize
  <2>1. PICK changed \in Record, x \in Frame :
           /\ Anonymized(changed) /\ db' = [db EXCEPT ![Top.id] = changed]
           /\ ReplacesTop(x) /\ x.id = Top.id /\ x.pc = "load"
           /\ stack # <<>>
    BY <1>1, <1>13, AnonymizeDoes DEF Running
  <2>2. /\ i \in 1..Len(stack) /\ (i < Len(stack) \/ i = Len(stack))
        /\ i < Len(stack) => stack'[i] = stack[i]
        /\ i = Len(stack) => stack'[i] = x
    BY <1>1, <2>1, ReplaceLeaves
  <2>3. db'[Top.id].anonymized
    <3>1. Top.id \in Entities /\ db \in [Entities -> Record]
      BY <1>1, <1>2, <2>1, FrameFields DEF TypeOK
    <3> QED
      BY <2>1, <3>1 DEF Anonymized
  <2> QED
    BY <1>3, <2>1, <2>2, <2>3 DEF AnonymousAt
<1>14. (\E e \in Entities : OtherEdit(e)) \/ UNCHANGED vars => UNCHANGED stack
  BY <1>1, OtherEditDoes DEF vars
<1> QED
  BY <1>4, <1>5, <1>6, <1>7, <1>8, <1>10, <1>11, <1>12, <1>13, <1>14 DEF AnonymizeStep

\* As long as nobody else edits it, a record is changed by being anonymized only.
LEMMA AnonymousOnlyStays ==
  ASSUME InPhase, AnonymousOnly, [Next]_vars
  PROVE  AnonymousOnly'
<1>1. SUFFICES ASSUME action'.kind = "anonymize", action'.state \in {"running", "done"}
               PROVE  AnonymousOnly'
  BY DEF AnonymousOnly
<1>2. TypeOK /\ db \in [Entities -> Record] /\ Phases
  BY DEF InPhase, TypeOK
<1>3. CASE Start("anonymize")
  <2>1. /\ action.state = "idle" /\ UNCHANGED <<db, stack>> /\ before' = db /\ stack = <<>>
        /\ \A k \in DOMAIN action'.selected :
               action'.selected[k].entity = db[action'.selected[k].id]
    BY <1>2, <1>3, StartDoes DEF Phases
  <2>2. \A e \in Entities : (db[e].personal <=> e \in HasPII) /\ ~db[e].anonymized
    BY <1>2, <2>1 DEF Phases
  <2>3. stack' = <<>> => 1..Len(stack') = {}
    OBVIOUS
  <2> QED
    BY <2>1, <2>2, <2>3 DEF AnonymousOnly
<1>4. CASE AnonymizeStep /\ action.kind = "anonymize" /\ action.state \in {"running", "done"}
  <2>1. \A e \in Entities :
              /\ db[e].personal => e \in HasPII
              /\ db[e].anonymized => ~db[e].personal
              /\ edited = {} => db[e].anonymized \/ db[e] = before[e]
    BY <1>4 DEF AnonymousOnly
  <2>2. /\ \A e \in Entities :
              /\ db'[e].personal => e \in HasPII
              /\ db'[e].anonymized => ~db'[e].personal
              /\ edited' = {} => db'[e].anonymized \/ db'[e] = before'[e]
        /\ \A e \in Entities : db[e].anonymized => db'[e].anonymized
    BY <1>2, <1>4, <2>1, AnonymizeWrites
  <2>3. \A i \in 1..Len(stack') : AnonymousAt(i)'
    BY <1>4, <2>2, AnonymizeFrames
  <2>4. action'.state = "running" =>
           /\ action.state = "running"
           /\ \A k \in DOMAIN action'.selected :
                 \E j \in DOMAIN action.selected : action'.selected[k] = action.selected[j]
    <3>1. Complete => action'.state = "done"
      BY <1>2, CompleteDoes DEF EndsWith
    <3>2. ProcessNext => /\ action.state = "running"
                         /\ \A k \in DOMAIN action'.selected :
                              \E j \in DOMAIN action.selected : action'.selected[k] = action.selected[j]
      BY <1>2, ProcessNextDoes
    <3>3. LoadLinking \/ CompositeAction \/ SkipAnonymize \/ Anonymize \/ KeepUnchanged
          \/ AnonymizeReturns
          => action.state = "running" /\ action'.selected = action.selected
      BY <1>2, LoadLinkingDoes, CompositeActionDoes, SkipAnonymizeDoes, AnonymizeDoes,
         KeepUnchangedDoes, AnonymizeReturnsDoes DEF Running, Returns
    <3>4. (\E e \in Entities : OtherEdit(e)) \/ UNCHANGED vars => UNCHANGED action
      BY <1>2, OtherEditDoes DEF vars
    <3> QED
      BY <1>4, <3>1, <3>2, <3>3, <3>4 DEF AnonymizeStep
  <2>5. action'.state = "running" =>
           \A k \in DOMAIN action'.selected : action'.selected[k].entity.anonymized =>
              db'[action'.selected[k].id].anonymized
    <3>1. \A k \in DOMAIN action.selected : action.selected[k].id \in Entities
      <4>1. action.selected \in Seq([id : Entities, entity : Record])
        BY <1>2, ActionFields DEF TypeOK
      <4>2. \A S, s : s \in Seq(S) => \A k \in DOMAIN s : s[k] \in S
        OBVIOUS
      <4>3. \A k \in DOMAIN action.selected : action.selected[k] \in [id : Entities, entity : Record]
        BY <4>1, <4>2
      <4> QED
        BY <4>3
    <3> QED
      BY <1>4, <2>2, <2>4, <3>1 DEF AnonymousOnly
  <2> QED
    BY <2>2, <2>3, <2>5 DEF AnonymousOnly
<1> QED
  BY <1>1, <1>3, <1>4, AnonymizeMoves

\* The user is or will be told of a record when the action or a frame holds it.
Reported(e) ==
    \/ e \in action.result.retaining
    \/ \E i \in 1..Len(stack) : e \in stack[i].result.retaining

\* A frame has yet to find a record that refers to its own, or is about to process it.
PendingAt(i, e, f) ==
    \/ stack[i].pc = "load"
    \/ stack[i].pc = "cascade" /\ [id |-> e, field |-> f] \in stack[i].todo
    \/ i < Len(stack) /\ stack[i + 1].id = e

Pending(a, e, f) == \E i \in 1..Len(stack) : stack[i].id = a /\ PendingAt(i, e, f)

\* As long as nobody else edits records, each that holds personal data and referred to an
\* anonymous one is reported, or a frame will still get to it.
Noted ==
    action.kind = "anonymize" /\ action.state \in {"running", "done"} /\ edited = {} =>
        \A a, e \in Entities, f \in FieldNames :
            db[a].anonymized /\ Refers(before, e, a, f) /\ db[e].personal
                => Reported(e) \/ Pending(a, e, f)

\* What is reported stays so when a frame changes, enters a record or returns.
LEMMA ReportsReplaced ==
  ASSUME TypeOK, stack # <<>>, NEW x, ReplacesTop(x), UNCHANGED action,
         Top.result.retaining \subseteq x.result.retaining, NEW e, Reported(e)
  PROVE  Reported(e)'
<1>1. CASE e \in action.result.retaining
  BY <1>1 DEF Reported
<1>2. ASSUME NEW i \in 1..Len(stack), e \in stack[i].result.retaining PROVE Reported(e)'
  <2>1. Len(stack') = Len(stack) /\ i \in 1..Len(stack')
    BY DEF ReplacesTop
  <2>2. i < Len(stack) \/ i = Len(stack)
    BY TopTyped
  <2>3. e \in stack'[i].result.retaining
    BY <1>2, <2>1, <2>2, ReplaceLeaves
  <2> QED
    BY <2>1, <2>3 DEF Reported
<1> QED
  BY <1>1, <1>2 DEF Reported

\* What is reported stays reported when the recursion enters a record,
LEMMA ReportsEntered ==
  ASSUME TypeOK, CompositeAction, NEW e, Reported(e)
  PROVE  Reported(e)'
<1>1. CASE e \in action.result.retaining
  BY <1>1, CompositeActionDoes DEF Reported
<1>2. ASSUME NEW i \in 1..Len(stack), e \in stack[i].result.retaining PROVE Reported(e)'
  <2>1. Len(stack') = Len(stack) + 1 /\ Len(stack) \in Nat \ {0}
        /\ stack'[Len(stack)].result = Top.result
    BY CompositeActionDoes, TopTyped
  <2>2. (i < Len(stack) \/ i = Len(stack)) /\ i \in 1..Len(stack')
    BY <2>1
  <2>3. e \in stack'[i].result.retaining
    BY <1>2, <2>1, <2>2, CompositeLeaves DEF Top
  <2> QED
    BY <2>2, <2>3 DEF Reported
<1> QED
  BY <1>1, <1>2 DEF Reported

\* and when a frame returns, with its result merged into the one that called.
LEMMA ReportsReturned ==
  ASSUME TypeOK, stack # <<>>, NEW instance, NEW result \in Result, Returns(instance, result),
         Top.result.retaining \subseteq result.retaining, NEW e, Reported(e)
  PROVE  Reported(e)'
<1>1. /\ Len(stack) \in Nat \ {0} /\ Len(stack') = Len(stack) - 1
      /\ action.result \in Result /\ action'.result =
            IF Len(stack) = 1 THEN MergeResults(action.result, result) ELSE action.result
  BY TopTyped, ActionFields DEF Returns, TypeOK
<1>2. action.result.retaining \subseteq action'.result.retaining
  BY <1>1, MergedTyped
<1>3. \A i \in 1..Len(stack') : /\ i < Len(stack') => stack'[i] = stack[i]
                                /\ i = Len(stack') =>
                                     /\ stack[i] \in Frame
                                     /\ stack'[i].result = MergeResults(stack[i].result, result)
  BY ReturnLeaves
<1>4. \A i \in 1..Len(stack') : i = Len(stack') =>
         stack'[i].result.retaining = stack[i].result.retaining \cup result.retaining
  BY <1>3, FrameFields, MergedTyped
<1>5. CASE e \in action.result.retaining
  BY <1>2, <1>5 DEF Reported
<1>6. ASSUME NEW i \in 1..Len(stack), e \in stack[i].result.retaining PROVE Reported(e)'
  <2>1. CASE i = Len(stack)
    <3>1. e \in result.retaining
      BY <1>6, <2>1 DEF Top
    <3>2. CASE Len(stack) = 1
      <4>1. e \in action'.result.retaining
        BY <1>1, <3>1, <3>2, MergedTyped
      <4> QED
        BY <4>1 DEF Reported
    <3>3. CASE Len(stack) # 1
      <4>1. Len(stack') \in 1..Len(stack')
        BY <1>1, <3>3
      <4>2. e \in stack'[Len(stack')].result.retaining
        BY <1>4, <3>1, <4>1
      <4> QED
        BY <4>1, <4>2 DEF Reported
    <3> QED
      BY <3>2, <3>3
  <2>2. CASE i # Len(stack)
    <3>1. i \in 1..Len(stack') /\ (i < Len(stack') \/ i = Len(stack'))
      BY <1>1, <2>2
    <3>2. e \in stack'[i].result.retaining
      BY <1>3, <1>4, <1>6, <3>1
    <3> QED
      BY <3>1, <3>2 DEF Reported
  <2> QED
    BY <2>1, <2>2
<1> QED
  BY <1>5, <1>6 DEF Reported

\* Frames below keep what is pending for them.
LEMMA PendingBelow ==
  ASSUME NEW i \in 1..Len(stack), NEW e, NEW f, PendingAt(i, e, f),
         Len(stack) \in Nat, Len(stack') \in Nat,
         i < Len(stack), i < Len(stack'), stack'[i] = stack[i], stack'[i + 1].id = stack[i + 1].id
  PROVE  i \in 1..Len(stack') /\ stack'[i].id = stack[i].id /\ PendingAt(i, e, f)'
<1>1. i \in 1..Len(stack')
  OBVIOUS
<1> QED
  BY <1>1 DEF PendingAt

\* A record that refers to an anonymized one stays reported, or stays to be visited.
LEMMA NotedStays ==
  ASSUME InPhase, Marked, AnonymousOnly, Noted, [Next]_vars
  PROVE  Noted'
<1>1. SUFFICES ASSUME action'.kind = "anonymize", action'.state \in {"running", "done"},
                      edited' = {},
                      NEW a \in Entities, NEW e \in Entities, NEW f \in FieldNames,
                      db'[a].anonymized, Refers(before', e, a, f), db'[e].personal
               PROVE  Reported(e)' \/ Pending(a, e, f)'
  BY DEF Noted, Refers
<1>2. TypeOK /\ db \in [Entities -> Record] /\ Phases /\ stack \in Seq(Frame)
  BY DEF InPhase, TypeOK
<1>3. CASE Start("anonymize")
  <2>1. action.state = "idle" /\ UNCHANGED db
    BY <1>2, <1>3, StartDoes
  <2>2. ~db'[a].anonymized
    BY <1>2, <2>1 DEF Phases
  <2> QED
    BY <1>1, <2>2
<1>4. SUFFICES ASSUME AnonymizeStep, action.kind = "anonymize", action.state \in {"running", "done"}
               PROVE  Reported(e)' \/ Pending(a, e, f)'
  BY <1>1, <1>3, AnonymizeMoves
\* Nothing but the step of this action has changed anything.
<1>5. /\ edited = {} /\ Refers(before, e, a, f) /\ db[e].personal /\ ~db[e].anonymized
      /\ db[e] = before[e] /\ e \in HasPII /\ Refers(db, e, a, f)
      /\ db[a].anonymized \/ (Anonymize /\ a = Top.id)
  <2>1. UNCHANGED before
    BY <1>4, AnonymizeWrites
  <2>2. CASE UNCHANGED <<db, edited>>
    BY <1>1, <1>4, <2>1, <2>2 DEF AnonymousOnly, Refers
  <2>3. ASSUME NEW x \in Entities, NEW changed \in Record,
               db' = [db EXCEPT ![x] = changed], changed.anonymized, ~changed.personal,
               UNCHANGED edited, Anonymize, x = Top.id
        PROVE  /\ edited = {} /\ db[e].personal
               /\ db[a].anonymized \/ (Anonymize /\ a = Top.id)
    BY <1>1, <1>2, <2>3
  <2>4. /\ edited = {} /\ db[e].personal
        /\ db[a].anonymized \/ (Anonymize /\ a = Top.id)
    BY <1>1, <1>4, <2>2, <2>3, AnonymizeWrites
  <2> QED
    BY <1>1, <1>4, <2>1, <2>4 DEF AnonymousOnly, Refers
<1>6. db[a].anonymized => Reported(e) \/ Pending(a, e, f)
  BY <1>1, <1>4, <1>5 DEF Noted
<1>7. /\ \A k \in 1..Len(stack) : stack[k] \in Frame /\ stack[k].id \in Entities
      /\ stack # <<>> => /\ Top \in Frame /\ Len(stack) \in 1..Len(stack)
                         /\ stack[Len(stack)] = Top /\ Len(stack) \in Nat \ {0}
                         /\ Top.id \in Entities
                         /\ FrameOK(Top, TRUE, action.kind)
                         /\ MarkedAt(Len(stack)) /\ AnonymousAt(Len(stack))
  <2>1. stack # <<>> => Top \in Frame /\ Len(stack) \in Nat \ {0}
    BY <1>2, TopTyped
  <2>2. \A k \in 1..Len(stack) : stack[k] \in Frame
    BY <1>2
  <2>3. \A k \in 1..Len(stack) : FrameOK(stack[k], k = Len(stack), action.kind)
    BY DEF InPhase, Frames
  <2>4. stack # <<>> => FrameOK(Top, TRUE, action.kind)
    BY <2>1, <2>3 DEF Top, FrameOK
  <2>5. \A k \in 1..Len(stack) : MarkedAt(k) /\ AnonymousAt(k)
    BY <1>4 DEF AnonymousOnly, Marked
  <2>6. stack # <<>> => Len(stack) \in 1..Len(stack) /\ stack[Len(stack)] = Top
    BY <2>1 DEF Top
  <2> QED
    BY <2>1, <2>2, <2>4, <2>5, <2>6, FrameFields
<1>8. CASE UNCHANGED <<stack, action>> /\ db[a].anonymized
  BY <1>6, <1>8 DEF Reported, Pending, PendingAt
<1>9. CASE ProcessNext \/ Complete
  <2>1. stack = <<>> /\ UNCHANGED db /\ action'.result = action.result
    <3>1. ProcessNext => stack = <<>> /\ UNCHANGED db /\ action'.result = action.result
      BY <1>2, ProcessNextDoes DEF OnlyTheAction
    <3>2. Complete => stack = <<>> /\ UNCHANGED db /\ action'.result = action.result
      BY <1>2, CompleteDoes DEF OnlyTheAction, EndsWith
    <3> QED
      BY <1>9, <3>1, <3>2
  <2>2. 1..Len(stack) = {}
    BY <2>1
  <2>3. Reported(e)
    BY <1>1, <1>6, <2>1, <2>2 DEF Pending
  <2> QED
    BY <2>1, <2>2, <2>3 DEF Reported
<1>10. CASE LoadLinking
  <2>1. PICK x \in Frame :
           /\ ReplacesTop(x) /\ x.id = Top.id /\ x.pc = "cascade" /\ x.result = Top.result
           /\ x.todo = {s \in Step : Refers(db, s.id, Top.id, s.field)}
           /\ stack # <<>> /\ UNCHANGED <<db, action>>
    BY <1>2, <1>10, LoadLinkingDoes
  <2>2. Reported(e) => Reported(e)'
    BY <1>2, <2>1, ReportsReplaced
  <2>3. Len(stack') = Len(stack) /\ \A i \in 1..Len(stack) : stack'[i].id = stack[i].id
    BY <1>2, <2>1, IdsOfReplaced
  <2>4. ASSUME NEW i \in 1..Len(stack), stack[i].id = a, PendingAt(i, e, f)
        PROVE  Pending(a, e, f)'
    <3>1. i < Len(stack) \/ i = Len(stack)
      BY <1>7, <2>1
    <3>2. CASE i < Len(stack)
      <4>1. stack'[i] = stack[i] /\ stack'[i + 1].id = stack[i + 1].id
        BY <1>2, <2>1, <2>3, <3>2, ReplaceLeaves
      <4> QED
        BY <1>7, <2>1, <2>3, <2>4, <3>2, <4>1, PendingBelow DEF Pending
    <3>3. CASE i = Len(stack)
      <4>1. [id |-> e, field |-> f] \in x.todo
        <5> DEFINE s == [id |-> e, field |-> f]
        <5>1. s \in Step /\ s.id = e /\ s.field = f
          BY DEF Step
        <5>2. a = Top.id
          BY <1>7, <2>1, <2>4, <3>3
        <5> HIDE DEF s
        <5>3. s \in x.todo
          BY <1>5, <2>1, <5>1, <5>2
        <5> QED
          BY <5>3 DEF s
      <4>2. stack'[i] = x /\ i \in 1..Len(stack')
        BY <2>1, <2>3, <3>3 DEF ReplacesTop
      <4> QED
        BY <2>1, <2>3, <2>4, <4>1, <4>2 DEF Pending, PendingAt
    <3> QED
      BY <3>1, <3>2, <3>3
  <2> QED
    BY <1>1, <1>6, <2>1, <2>2, <2>4 DEF Pending
<1>11. CASE CompositeAction
  <2>1. /\ stack # <<>> /\ Top.pc = "cascade" /\ UNCHANGED <<db, action>>
        /\ LET x == stack'[Len(stack)]
           IN x.pc = "cascade" /\ x.todo = Top.todo \ {Next1}
        /\ Next1.id \in Entities
    BY <1>2, <1>11, CompositeActionDoes, NextTyped DEF Cascading
  <2>2. Reported(e) => Reported(e)'
    BY <1>2, <1>11, ReportsEntered
  <2>3. /\ Len(stack') = Len(stack) + 1 /\ \A i \in 1..Len(stack) : stack'[i].id = stack[i].id
        /\ stack'[Len(stack) + 1].id = Next1.id
    BY <1>2, <1>11, IdsOfEntered
  <2>4. ASSUME NEW i \in 1..Len(stack), stack[i].id = a, PendingAt(i, e, f)
        PROVE  Pending(a, e, f)'
    <3>1. /\ i < Len(stack) \/ i = Len(stack)
          /\ i \in 1..Len(stack') /\ i < Len(stack')
      BY <1>7, <2>1, <2>3
    <3>2. CASE i < Len(stack)
      <4>1. stack'[i] = stack[i] /\ i + 1 \in 1..Len(stack)
        BY <1>2, <1>7, <1>11, <2>1, <3>1, <3>2, CompositeLeaves
      <4> QED
        BY <1>7, <2>1, <2>3, <2>4, <3>1, <3>2, <4>1, PendingBelow DEF Pending
    <3>3. CASE i = Len(stack)
      <4>1. [id |-> e, field |-> f] \in Top.todo
        BY <1>7, <2>1, <2>4, <3>3 DEF PendingAt
      <4>2. CASE [id |-> e, field |-> f] = Next1
        <5>1. stack'[i + 1].id = e
          BY <2>3, <3>3, <4>2
        <5> QED
          BY <2>3, <2>4, <3>1, <5>1 DEF Pending, PendingAt
      <4>3. CASE [id |-> e, field |-> f] # Next1
        <5>1. stack'[i].pc = "cascade" /\ [id |-> e, field |-> f] \in stack'[i].todo
          BY <2>1, <3>3, <4>1, <4>3
        <5> QED
          BY <2>3, <2>4, <3>1, <5>1 DEF Pending, PendingAt
      <4> QED
        BY <4>2, <4>3
    <3> QED
      BY <3>1, <3>2, <3>3
  <2> QED
    BY <1>1, <1>6, <2>1, <2>2, <2>4 DEF Pending
<1>12. ASSUME stack # <<>>, NEW result \in Result, Returns(Top.entity, result), UNCHANGED db,
              Top.result.retaining \subseteq result.retaining,
              Top.pc # "load", Top.todo = {}, e # Top.id
       PROVE  Reported(e)' \/ Pending(a, e, f)'
  <2>1. Reported(e) => Reported(e)'
    BY <1>2, <1>12, ReportsReturned
  <2>2. /\ Len(stack') = Len(stack) - 1 /\ Len(stack) \in Nat \ {0}
        /\ \A i \in 1..Len(stack') : stack'[i].id = stack[i].id
    BY <1>2, <1>12, IdsOfReturned
  <2>3. ASSUME NEW i \in 1..Len(stack), stack[i].id = a, PendingAt(i, e, f)
        PROVE  Pending(a, e, f)'
    <3>1. i # Len(stack)
      BY <1>7, <1>12, <2>3 DEF PendingAt
    <3>2. i \in 1..Len(stack') /\ (i < Len(stack') \/ i = Len(stack')) /\ i < Len(stack)
      BY <2>2, <3>1
    <3>3. CASE i < Len(stack')
      <4>1. stack'[i] = stack[i] /\ i + 1 \in 1..Len(stack')
        BY <1>2, <1>12, <2>2, <3>2, <3>3, ReturnLeaves
      <4>2. Len(stack') \in Nat
        BY <2>2, <3>2
      <4> QED
        BY <2>2, <2>3, <3>2, <3>3, <4>1, <4>2, PendingBelow DEF Pending
    <3>4. CASE i = Len(stack')
      <4>1. stack'[i].pc = stack[i].pc /\ stack'[i].todo = stack[i].todo
        BY <1>2, <1>12, <3>2, <3>4, ReturnLeaves
      <4>2. stack[i + 1].id # e
        <5>1. i + 1 = Len(stack)
          BY <2>2, <3>4
        <5> QED
          BY <1>12, <5>1 DEF Top
      <4> QED
        BY <2>2, <2>3, <3>2, <4>1, <4>2 DEF Pending, PendingAt
    <3> QED
      BY <3>2, <3>3, <3>4
  <2> QED
    BY <1>1, <1>6, <1>12, <2>1, <2>3 DEF Pending
<1>13. CASE SkipAnonymize
  <2>1. /\ stack # <<>> /\ Top.pc = "begin" /\ NothingToAnonymize
        /\ Returns(Top.entity, NoResult) /\ UNCHANGED db
    BY <1>2, <1>13, SkipAnonymizeDoes DEF Running
  <2>2. Top.result = NoResult /\ Top.todo = {}
    BY <1>7, <2>1 DEF FrameOK
  <2>3. e # Top.id
    <3>1. Top.entity.anonymized => db[Top.id].anonymized
      BY <1>7, <2>1 DEF AnonymousAt
    <3> QED
      BY <1>5, <2>1, <3>1 DEF NothingToAnonymize
  <2> QED
    BY <1>12, <2>1, <2>2, <2>3, NoResultTyped
<1>14. CASE AnonymizeReturns
  <2>1. /\ stack # <<>> /\ Top.pc = "cascade" /\ Top.todo = {}
        /\ Returns(Top.entity, Top.result) /\ UNCHANGED db
    BY <1>2, <1>14, AnonymizeReturnsDoes DEF Running
  <2>2. e # Top.id
    BY <1>5, <1>7, <2>1 DEF MarkedAt
  <2>3. Top.result \in Result
    BY <1>7, <2>1, FrameFields
  <2> QED
    BY <1>12, <2>1, <2>2, <2>3
<1>15. CASE KeepUnchanged
  <2>1. PICK x \in Frame :
           /\ ReplacesTop(x) /\ x.id = Top.id /\ x.pc = "cascade" /\ x.todo = Top.todo \ {Next1}
           /\ x.result.retaining = Top.result.retaining \cup ({Next1.id} \cap HasPII)
           /\ stack # <<>> /\ Top.pc = "cascade" /\ UNCHANGED <<db, action>>
    BY <1>2, <1>15, KeepUnchangedDoes DEF Running, Cascading
  <2>2. Reported(e) => Reported(e)'
    BY <1>2, <2>1, ReportsReplaced
  <2>3. Len(stack') = Len(stack) /\ \A i \in 1..Len(stack) : stack'[i].id = stack[i].id
    BY <1>2, <2>1, IdsOfReplaced
  <2>4. ASSUME NEW i \in 1..Len(stack), stack[i].id = a, PendingAt(i, e, f)
        PROVE  Reported(e)' \/ Pending(a, e, f)'
    <3>1. i < Len(stack) \/ i = Len(stack)
      BY <1>7, <2>1
    <3>2. CASE i < Len(stack)
      <4>1. stack'[i] = stack[i] /\ stack'[i + 1].id = stack[i + 1].id
        BY <1>2, <1>7, <2>1, <2>3, <3>2, ReplaceLeaves
      <4> QED
        BY <1>7, <2>1, <2>3, <2>4, <3>2, <4>1, PendingBelow DEF Pending
    <3>3. CASE i = Len(stack)
      <4>1. [id |-> e, field |-> f] \in Top.todo
        BY <1>7, <2>1, <2>4, <3>3 DEF PendingAt
      <4>2. stack'[i] = x /\ i \in 1..Len(stack')
        BY <2>1, <2>3, <3>3 DEF ReplacesTop
      <4>3. CASE [id |-> e, field |-> f] = Next1
        <5>1. Next1.id = e
          BY <4>3
        <5>2. e \in x.result.retaining
          BY <1>5, <2>1, <5>1
        <5> QED
          BY <4>2, <5>2 DEF Reported
      <4>4. CASE [id |-> e, field |-> f] # Next1
        BY <2>1, <2>3, <2>4, <4>1, <4>2, <4>4 DEF Pending, PendingAt
      <4> QED
        BY <4>3, <4>4
    <3> QED
      BY <3>1, <3>2, <3>3
  <2> QED
    BY <1>1, <1>6, <2>1, <2>2, <2>4 DEF Pending
<1>16. CASE Anonymize
  <2>1. PICK x \in Frame :
           /\ ReplacesTop(x) /\ x.id = Top.id /\ x.pc = "load"
           /\ stack # <<>> /\ Top.pc = "begin" /\ UNCHANGED action
    BY <1>2, <1>16, AnonymizeDoes DEF Running
  <2>2. Top.result = NoResult /\ Top.todo = {}
    BY <1>7, <2>1 DEF FrameOK
  <2>3. Reported(e) => Reported(e)'
    BY <1>2, <2>1, <2>2, ReportsReplaced, NoResultTyped
  <2>4. Len(stack') = Len(stack) /\ \A i \in 1..Len(stack) : stack'[i].id = stack[i].id
    BY <1>2, <2>1, IdsOfReplaced
  <2>5. a = Top.id => Pending(a, e, f)'
    <3>1. stack'[Len(stack)] = x /\ Len(stack) \in 1..Len(stack')
      BY <1>7, <2>1, <2>4 DEF ReplacesTop
    <3> QED
      BY <2>1, <3>1 DEF Pending, PendingAt
  <2>6. ASSUME NEW i \in 1..Len(stack), stack[i].id = a, PendingAt(i, e, f), a # Top.id
        PROVE  Pending(a, e, f)'
    <3>1. i < Len(stack)
      BY <1>7, <2>1, <2>6
    <3>2. stack'[i] = stack[i] /\ stack'[i + 1].id = stack[i + 1].id
      BY <1>2, <1>7, <2>1, <2>4, <3>1, ReplaceLeaves
    <3> QED
      BY <1>7, <2>1, <2>4, <2>6, <3>1, <3>2, PendingBelow DEF Pending
  <2> QED
    BY <1>5, <1>6, <2>3, <2>5, <2>6 DEF Pending
<1>17. (\E x \in Entities : OtherEdit(x)) => edited' # {}
  BY <1>2, OtherEditDoes
<1>18. UNCHANGED vars => UNCHANGED <<stack, action, db>>
  BY DEF vars
<1> QED
  BY <1>1, <1>4, <1>8, <1>9, <1>10, <1>11, <1>13, <1>14, <1>15, <1>16, <1>17, <1>18
     DEF AnonymizeStep

\* Once an anonymization that nobody has interfered with is over, each record with
\* personal data that referred to an anonymous one is anonymous too, or reported.
THEOREM NothingIsOverlooked == Spec => []NothingPersonalOverlooked
<1> DEFINE Inv == InPhase /\ Marked /\ AnonymousOnly /\ Noted
<1>1. Init => Inv
  <2>1. ASSUME Init PROVE Marked /\ AnonymousOnly /\ Noted
    BY <2>1, InitDoes DEF NoAction, Marked, AnonymousOnly, Noted
  <2> QED
    BY <2>1, InPhaseAtFirst
<1>2. Inv /\ [Next]_vars => Inv'
  BY InPhaseStays, MarkedStays, AnonymousOnlyStays, NotedStays
<1>3. Inv => NothingPersonalOverlooked
  <2> SUFFICES ASSUME Inv, action.kind = "anonymize", action.state = "done", edited = {},
                      NEW a \in Entities, NEW e \in Entities, NEW f \in FieldNames,
                      db[a].anonymized, Refers(before, e, a, f), db[e].personal
               PROVE  e \in action.result.retaining
    BY DEF NothingPersonalOverlooked
  <2>1. stack = <<>>
    BY DEF InPhase, Phases
  <2>2. 1..Len(stack) = {}
    BY <2>1
  <2> QED
    BY <2>2 DEF Noted, Reported, Pending
<1> HIDE DEF Inv
<1> QED
  BY <1>1, <1>2, <1>3, PTL DEF Spec

-----------------------------------------------------------------------------
(***************************************************************************)
(* The instances an action works on                                        *)
(***************************************************************************)

\* An instance is what is stored, or an older revision of it.
UpToDate(d, instance, e) ==
    /\ instance.exists
    /\ instance.rev <= d[e].rev
    /\ instance.rev = d[e].rev => instance = d[e]

InstancesAt(i) ==
    /\ UpToDate(db, stack[i].entity, stack[i].id)
    /\ stack[i].pc = "cascade" =>
          \A e \in Entities : stack[i].affected[e].exists => UpToDate(db, stack[i].affected[e], e)
    /\ \A s \in stack[i].todo : stack[i].affected[s.id].exists

Instances ==
    /\ action.state = "running" => \A k \in DOMAIN action.selected :
          UpToDate(db, action.selected[k].entity, action.selected[k].id)
    /\ \A i \in 1..Len(stack) : InstancesAt(i)

\* A write of an instance that is the latest: there is nothing newer it could miss.
LEMMA SavesLatest ==
  ASSUME TypeOK, Instances, stack # <<>>
  PROVE  /\ Top.entity.rev = db[Top.id].rev => Top.entity = db[Top.id]
         /\ Top.entity.exists
         /\ Cascading => /\ Affected.exists
                         /\ Affected.rev = db[Next1.id].rev => Affected = db[Next1.id]
<1>1. Len(stack) \in 1..Len(stack) /\ stack[Len(stack)] = Top
  BY TopTyped DEF Top
<1>2. InstancesAt(Len(stack))
  BY <1>1 DEF Instances
<1>3. Cascading => Next1 \in Top.todo /\ Next1.id \in Entities /\ Top.pc = "cascade"
  BY NextTyped DEF Cascading
<1> QED
  BY <1>1, <1>2, <1>3 DEF InstancesAt, UpToDate, Affected

\* Each write of a running action, or of another user, gives a record its next revision.
Grows == \A e \in Entities : db'[e] = db[e] \/ db'[e].rev = db[e].rev + 1

\* No step of a running action skips a revision.
LEMMA DatabaseGrows ==
  ASSUME TypeOK, StackStep \/ Complete \/ UNCHANGED vars
  PROVE  Grows
<1>1. db \in [Entities -> Record]
  BY DEF TypeOK
<1>2. CASE RemoveReference
  <2>1. PICK changed \in Record :
           changed.rev = db[Next1.id].rev + 1 /\ db' = [db EXCEPT ![Next1.id] = changed]
    BY <1>2, RemoveReferenceDoes DEF Unlinked
  <2> QED
    BY <1>1, <2>1 DEF Grows
<1>3. CASE RemoveRecord
  <2>1. Top.id \in Entities /\ db' = [db EXCEPT ![Top.id] = Tombstone(Top.id)]
    BY <1>3, RemoveRecordDoes, TopTyped, FrameFields DEF Running
  <2> QED
    BY <1>1, <2>1, TombstoneFields DEF Grows
<1>4. CASE Anonymize
  <2>1. PICK changed \in Record :
           changed.rev = db[Top.id].rev + 1 /\ db' = [db EXCEPT ![Top.id] = changed]
    BY <1>4, AnonymizeDoes DEF Anonymized
  <2> QED
    BY <1>1, <2>1 DEF Grows
<1>5. ASSUME NEW x \in Entities, OtherEdit(x) PROVE Grows
  <2>1. PICK changed \in Record :
           changed.rev = db[x].rev + 1 /\ db' = [db EXCEPT ![x] = changed]
    BY <1>5, OtherEditDoes DEF EditsTo
  <2> QED
    BY <1>1, <2>1 DEF Grows
<1>6. LoadLinking \/ CompositeAction \/ HandleAccount \/ SkipAnonymize \/ KeepUnchanged
      \/ AnonymizeReturns => UNCHANGED db
  BY LoadLinkingDoes, CompositeActionDoes, HandleAccountDoes, SkipAnonymizeDoes,
     KeepUnchangedDoes, AnonymizeReturnsDoes
<1>7. ProcessNext \/ Complete => UNCHANGED db
  BY ProcessNextDoes, CompleteDoes DEF OnlyTheAction
<1>8. UNCHANGED db => Grows
  BY DEF Grows
<1> QED
  BY <1>2, <1>3, <1>4, <1>5, <1>6, <1>7, <1>8 DEF StackStep, vars

\* An instance does not become up to date, or outdated in its own revision, by that.
LEMMA UpToDateStays ==
  ASSUME TypeOK, Grows, NEW e \in Entities, NEW instance \in Record, UpToDate(db, instance, e)
  PROVE  UpToDate(db', instance, e)
<1>1. instance.rev \in Nat /\ db[e].rev \in Nat
  BY RecordFields DEF TypeOK
<1>2. db'[e] = db[e] \/ db'[e].rev = db[e].rev + 1
  BY DEF Grows
<1> QED
  BY <1>1, <1>2 DEF UpToDate

\* The steps of an action that is running
LEMMA RunningMoves ==
  ASSUME InPhase, [Next]_vars, action'.state = "running"
  PROVE  \/ \E kind \in {"delete", "anonymize"} : Start(kind)
         \/ /\ StackStep \/ UNCHANGED vars
            /\ action.state = "running" /\ UNCHANGED action.kind
<1>1. TypeOK
  BY DEF InPhase
<1>2. ~AccountEndsDeletion /\ ~Fail /\ ~Undo /\ ~Complete
  BY <1>1, ThrowDoes, UndoDoes, CompleteDoes DEF EndsWith
<1>3. ~UndoCompletes /\ ~UndoFails /\ ~UndoBulk /\ \A e \in Entities : ~UndoOverwrite(e)
  BY <1>1, UndoEnds, UndoBulkDoes, UndoOverwriteDoes
<1>4. (\E kind \in {"delete", "anonymize"} : Start(kind)) \/ StackStep \/ UNCHANGED vars
  BY <1>2, <1>3 DEF Next, ActionStep, UndoStep, StackStep
<1>5. ProcessNext \/ LoadLinking \/ CompositeAction
      => action'.kind = action.kind /\ action.state = "running"
  BY <1>1, ProcessNextDoes, LoadLinkingDoes, CompositeActionDoes
<1>6. HandleAccount \/ RemoveReference \/ RemoveRecord
      => action'.kind = action.kind /\ action.state = "running"
  BY <1>1, HandleAccountDoes, RemoveReferenceDoes, RemoveRecordDoes DEF Running, Returns
<1>7. SkipAnonymize \/ Anonymize \/ KeepUnchanged \/ AnonymizeReturns
      => action'.kind = action.kind /\ action.state = "running"
  BY <1>1, SkipAnonymizeDoes, AnonymizeDoes, KeepUnchangedDoes, AnonymizeReturnsDoes
     DEF Running, Returns
<1>8. (\E e \in Entities : OtherEdit(e)) \/ UNCHANGED vars => UNCHANGED action
  BY <1>1, OtherEditDoes DEF vars
<1> QED
  BY <1>4, <1>5, <1>6, <1>7, <1>8 DEF StackStep

\* The selected records
LEMMA SelectedTyped ==
  ASSUME NEW a \in Action
  PROVE  \A k \in DOMAIN a.selected :
            a.selected[k].id \in Entities /\ a.selected[k].entity \in Record
<1>1. a.selected \in Seq([id : Entities, entity : Record])
  BY ActionFields
<1>2. \A S, s : s \in Seq(S) => \A k \in DOMAIN s : s[k] \in S
  OBVIOUS
<1>3. \A k \in DOMAIN a.selected : a.selected[k] \in [id : Entities, entity : Record]
  BY <1>1, <1>2
<1> QED
  BY <1>3

\* The selected records keep the instances they were selected with.
LEMMA SelectedStay ==
  ASSUME InPhase, Instances, [Next]_vars, action'.state = "running",
         NEW k \in DOMAIN action'.selected
  PROVE  UpToDate(db', action'.selected[k].entity, action'.selected[k].id)
<1>1. TypeOK /\ Phases /\ db \in [Entities -> Record] /\ action \in Action /\ action' \in Action
  BY TypeStays DEF InPhase, TypeOK
<1> DEFINE e == action'.selected[k].id
           instance == action'.selected[k].entity
<1>2. e \in Entities /\ instance \in Record
  BY <1>1, SelectedTyped
<1>3. ASSUME NEW kind \in {"delete", "anonymize"}, Start(kind)
      PROVE  UpToDate(db', instance, e)
  <2>1. instance = db[e] /\ db' = db /\ action.state = "idle"
    BY <1>1, <1>3, StartDoes
  <2>2. db[e].exists /\ db[e].rev \in Nat
    BY <1>1, <1>2, <2>1, RecordFields DEF Phases
  <2> QED
    BY <2>1, <2>2 DEF UpToDate
<1>4. CASE (StackStep \/ UNCHANGED vars) /\ action.state = "running"
  <2>1. PICK j \in DOMAIN action.selected : action'.selected[k] = action.selected[j]
    <3>1. ProcessNext => \E j \in DOMAIN action.selected : action'.selected[k] = action.selected[j]
      BY <1>1, ProcessNextDoes
    <3>2. LoadLinking \/ CompositeAction \/ HandleAccount \/ RemoveReference \/ RemoveRecord
          => action'.selected = action.selected
      BY <1>1, LoadLinkingDoes, CompositeActionDoes, HandleAccountDoes, RemoveReferenceDoes,
         RemoveRecordDoes DEF Returns
    <3>3. SkipAnonymize \/ Anonymize \/ KeepUnchanged \/ AnonymizeReturns
          => action'.selected = action.selected
      BY <1>1, SkipAnonymizeDoes, AnonymizeDoes, KeepUnchangedDoes, AnonymizeReturnsDoes
         DEF Returns
    <3>4. (\E x \in Entities : OtherEdit(x)) \/ UNCHANGED vars => UNCHANGED action
      BY <1>1, OtherEditDoes DEF vars
    <3> QED
      BY <1>4, <3>1, <3>2, <3>3, <3>4 DEF StackStep
  <2>2. UpToDate(db, instance, e)
    BY <1>4, <2>1 DEF Instances
  <2>3. Grows
    BY <1>1, <1>4, DatabaseGrows
  <2> QED
    BY <1>1, <1>2, <2>2, <2>3, UpToDateStays
<1> QED
  BY <1>3, <1>4, RunningMoves

\* Frames hold what they loaded, and what they wrote themselves.
LEMMA InstancesAtStay ==
  ASSUME InPhase, Instances, [Next]_vars, NEW i \in 1..Len(stack')
  PROVE  InstancesAt(i)'
<1>1. TypeOK /\ Phases /\ db \in [Entities -> Record] /\ db' \in [Entities -> Record]
      /\ stack \in Seq(Frame) /\ stack' \in Seq(Frame)
  BY TypeStays DEF InPhase, TypeOK
<1>2. stack' # <<>> /\ stack'[i] \in Frame
  <2>1. Len(<<>>) = 0 /\ 1..0 = {}
    OBVIOUS
  <2> QED
    BY <1>1, <2>1
<1>3. action.state = "running" /\ (StackStep \/ UNCHANGED vars)
  BY <1>1, <1>2, StackSteps
<1>4. Grows
  BY <1>1, <1>3, DatabaseGrows
<1>5. \A e \in Entities, instance \in Record :
         UpToDate(db, instance, e) => UpToDate(db', instance, e)
  BY <1>1, <1>4, UpToDateStays
<1>6. /\ \A k \in 1..Len(stack) :
            /\ InstancesAt(k) /\ stack[k] \in Frame /\ stack[k].id \in Entities
            /\ stack[k].entity \in Record /\ stack[k].affected \in [Entities -> Record]
            /\ stack[k].todo \subseteq Step
      /\ stack # <<>> => /\ Top \in Frame /\ Len(stack) \in 1..Len(stack)
                         /\ stack[Len(stack)] = Top
  <2>1. stack # <<>> => Top \in Frame /\ Len(stack) \in Nat \ {0}
    BY <1>1, TopTyped
  <2>2. \A k \in 1..Len(stack) : stack[k] \in Frame
    BY <1>1
  <2>3. stack # <<>> => Len(stack) \in 1..Len(stack) /\ stack[Len(stack)] = Top
    BY <2>1 DEF Top
  <2>4. \A k \in 1..Len(stack) : InstancesAt(k)
    BY DEF Instances
  <2>5. \A x \in Frame : x.id \in Entities /\ x.entity \in Record
                         /\ x.affected \in [Entities -> Record] /\ x.todo \subseteq Step
    BY FrameFields
  <2> QED
    BY <2>1, <2>2, <2>3, <2>4, <2>5
\* An instance that is in the database is up to date.
<1>7. \A e \in Entities : db'[e].exists => UpToDate(db', db'[e], e)
  BY <1>1, RecordFields DEF UpToDate
<1>8. ASSUME i \in 1..Len(stack), stack'[i] = stack[i] PROVE InstancesAt(i)'
  BY <1>5, <1>6, <1>8 DEF InstancesAt
<1>9. CASE UNCHANGED stack
  BY <1>8, <1>9
<1>10. CASE ProcessNext
  <2>1. PICK k \in DOMAIN action.selected :
           /\ Len(stack') = 1
           /\ Begins(stack'[1], action.selected[k].id, action.selected[k].entity)
    BY <1>1, <1>10, ProcessNextDoes
  <2>2. /\ i = 1 /\ stack'[1].pc # "cascade" /\ stack'[1].todo = {}
        /\ stack'[1].id = action.selected[k].id /\ stack'[1].entity = action.selected[k].entity
    BY <2>1 DEF Begins
  <2>3. UpToDate(db, action.selected[k].entity, action.selected[k].id)
    BY <1>3 DEF Instances
  <2>4. stack'[1].id \in Entities /\ stack'[1].entity \in Record
    BY <1>2, <2>2, FrameFields
  <2> QED
    BY <1>5, <2>2, <2>3, <2>4 DEF InstancesAt
<1>11. CASE CompositeAction
  <2>1. /\ stack # <<>> /\ Cascading /\ Top.pc = "cascade" /\ UNCHANGED db
        /\ LET x == stack'[Len(stack)]
           IN /\ x.id = Top.id /\ x.entity = Top.entity /\ x.affected = Top.affected
              /\ x.todo = Top.todo \ {Next1}
        /\ Begins(stack'[Len(stack) + 1], Next1.id, Affected)
        /\ Next1 \in Top.todo /\ Next1.id \in Entities
    BY <1>1, <1>11, CompositeActionDoes, NextTyped DEF Cascading
  <2>2. /\ i < Len(stack) => i \in 1..Len(stack) /\ stack'[i] = stack[i]
        /\ i < Len(stack) \/ i = Len(stack) \/ i = Len(stack) + 1
    BY <1>1, <1>11, CompositeLeaves
  <2>3. CASE i = Len(stack)
    BY <1>6, <2>1, <2>3 DEF InstancesAt
  <2>4. CASE i = Len(stack) + 1
    <3>1. /\ stack'[i].id = Next1.id /\ stack'[i].entity = Top.affected[Next1.id]
          /\ stack'[i].pc # "cascade" /\ stack'[i].todo = {}
      BY <2>1, <2>4 DEF Begins, Affected
    <3>2. UpToDate(db, Top.affected[Next1.id], Next1.id)
      BY <1>6, <2>1 DEF InstancesAt
    <3> QED
      BY <2>1, <3>1, <3>2 DEF InstancesAt
  <2> QED
    BY <1>8, <2>2, <2>3, <2>4
<1>12. ASSUME stack # <<>>, NEW result, Returns(Top.entity, result)
      PROVE  InstancesAt(i)'
  <2>1. /\ i \in 1..Len(stack) /\ (i < Len(stack') \/ i = Len(stack'))
        /\ i < Len(stack') => stack'[i] = stack[i]
        /\ i = Len(stack') =>
               /\ stack'[i].id = stack[i].id /\ stack'[i].entity = stack[i].entity
               /\ stack'[i].pc = stack[i].pc /\ stack'[i].todo = stack[i].todo
               /\ \A e \in Entities : stack'[i].affected[e] =
                     IF e = Top.id THEN Top.entity ELSE stack[i].affected[e]
    BY <1>1, <1>12, ReturnLeaves
  <2>2. CASE i = Len(stack')
    <3>1. InstancesAt(i) /\ UpToDate(db, Top.entity, Top.id) /\ Top.id \in Entities
          /\ Top.entity \in Record
      BY <1>6, <1>12, <2>1, FrameFields DEF InstancesAt
    <3>2. UpToDate(db', stack'[i].entity, stack'[i].id)
      BY <1>5, <1>6, <2>1, <2>2, <3>1 DEF InstancesAt
    <3>3. stack'[i].pc = "cascade" => \A e \in Entities : stack'[i].affected[e].exists =>
            UpToDate(db', stack'[i].affected[e], e)
      <4> SUFFICES ASSUME stack[i].pc = "cascade", NEW e \in Entities, stack'[i].affected[e].exists
                   PROVE  UpToDate(db', stack'[i].affected[e], e)
        BY <2>1, <2>2
      <4>1. CASE e = Top.id
        BY <1>5, <2>1, <2>2, <3>1, <4>1
      <4>2. CASE e # Top.id
        <5>1. stack'[i].affected[e] = stack[i].affected[e] /\ stack[i].affected[e] \in Record
          BY <1>6, <2>1, <2>2, <4>2
        <5> QED
          BY <1>5, <3>1, <5>1 DEF InstancesAt
      <4> QED
        BY <4>1, <4>2
    <3>4. \A s \in stack'[i].todo : stack'[i].affected[s.id].exists
      <4> SUFFICES ASSUME NEW s \in stack[i].todo PROVE stack'[i].affected[s.id].exists
        BY <2>1, <2>2
      <4>1. s.id \in Entities
        BY <1>6, <2>1, StepFields
      <4> QED
        BY <2>1, <2>2, <3>1, <4>1 DEF InstancesAt, UpToDate
    <3> QED
      BY <3>2, <3>3, <3>4 DEF InstancesAt
  <2> QED
    BY <1>8, <2>1, <2>2
<1>13. CASE RemoveRecord
  BY <1>1, <1>12, <1>13, RemoveRecordDoes DEF Running
<1>14. CASE SkipAnonymize
  BY <1>1, <1>12, <1>14, SkipAnonymizeDoes DEF Running
<1>15. CASE AnonymizeReturns
  BY <1>1, <1>12, <1>15, AnonymizeReturnsDoes DEF Running
\* Only the innermost frame changes.
<1>16. ASSUME stack # <<>>, NEW x \in Frame, ReplacesTop(x), x.id = Top.id,
              UpToDate(db', x.entity, x.id),
              x.pc = "cascade" => \A e \in Entities : x.affected[e].exists => UpToDate(db', x.affected[e], e),
              \A s \in x.todo : x.affected[s.id].exists
       PROVE  InstancesAt(i)'
  <2>1. /\ i \in 1..Len(stack) /\ (i < Len(stack) \/ i = Len(stack))
        /\ i < Len(stack) => stack'[i] = stack[i]
        /\ i = Len(stack) => stack'[i] = x
    BY <1>1, <1>16, ReplaceLeaves
  <2> QED
    BY <1>8, <1>16, <2>1 DEF InstancesAt
<1>17. stack # <<>> => /\ UpToDate(db, Top.entity, Top.id) /\ UpToDate(db', Top.entity, Top.id)
                       /\ Top.id \in Entities /\ InstancesAt(Len(stack))
  <2>1. stack # <<>> => InstancesAt(Len(stack)) /\ Top.id \in Entities /\ Top.entity \in Record
    BY <1>6, FrameFields
  <2> QED
    BY <1>5, <1>6, <2>1 DEF InstancesAt
<1>18. CASE LoadLinking
  <2>1. PICK x \in Frame :
           /\ ReplacesTop(x) /\ x.id = Top.id /\ x.entity = Top.entity /\ x.affected = db
           /\ x.todo = {s \in Step : Refers(db, s.id, Top.id, s.field)}
           /\ stack # <<>> /\ UNCHANGED db
    BY <1>1, <1>18, LoadLinkingDoes
  <2>2. \A s \in x.todo : x.affected[s.id].exists
    BY <2>1 DEF Refers
  <2> QED
    BY <1>7, <1>16, <1>17, <2>1, <2>2
<1>19. CASE HandleAccount
  <2>1. PICK x \in Frame :
           /\ ReplacesTop(x) /\ x.id = Top.id /\ x.entity = Top.entity /\ x.affected = Top.affected
           /\ x.todo = Top.todo /\ x.pc = "load" /\ stack # <<>>
    BY <1>1, <1>19, HandleAccountDoes DEF Running
  <2>2. \A s \in x.todo : x.affected[s.id].exists
    BY <1>6, <1>17, <2>1 DEF InstancesAt
  <2> QED
    BY <1>16, <1>17, <2>1, <2>2
<1>20. CASE KeepUnchanged
  <2>1. PICK x \in Frame :
           /\ ReplacesTop(x) /\ x.id = Top.id /\ x.entity = Top.entity /\ x.affected = Top.affected
           /\ x.todo = Top.todo \ {Next1} /\ stack # <<>> /\ Top.pc = "cascade" /\ UNCHANGED db
    BY <1>1, <1>20, KeepUnchangedDoes DEF Running, Cascading
  <2>2. \A s \in x.todo : x.affected[s.id].exists
    BY <1>6, <1>17, <2>1 DEF InstancesAt
  <2>3. \A e \in Entities : x.affected[e].exists => UpToDate(db', x.affected[e], e)
    BY <1>6, <1>17, <2>1 DEF InstancesAt
  <2> QED
    BY <1>16, <1>17, <2>1, <2>2, <2>3
<1>21. CASE Anonymize
  <2>1. PICK changed \in Record, x \in Frame :
           /\ Anonymized(changed) /\ db' = [db EXCEPT ![Top.id] = changed]
           /\ ReplacesTop(x) /\ x.id = Top.id /\ x.pc = "load" /\ x.entity = changed
           /\ x.affected = Top.affected /\ x.todo = Top.todo /\ stack # <<>>
    BY <1>1, <1>21, AnonymizeDoes DEF Running
  <2>2. \A s \in x.todo : x.affected[s.id].exists
    BY <1>6, <1>17, <2>1 DEF InstancesAt
  <2>3. db'[Top.id] = changed /\ changed.exists
    BY <1>1, <1>17, <2>1 DEF Anonymized, UpToDate
  <2>4. UpToDate(db', x.entity, x.id)
    BY <1>7, <1>17, <2>1, <2>3
  <2> QED
    BY <1>16, <2>1, <2>2, <2>4
<1>22. CASE RemoveReference
  <2>1. PICK changed \in Record, x \in Frame :
               /\ Unlinked(changed)
               /\ db' = [db EXCEPT ![Next1.id] = changed]
               /\ ReplacesTop(x) /\ x.id = Top.id /\ x.entity = Top.entity
               /\ x.affected = [Top.affected EXCEPT ![Next1.id] = changed]
               /\ x.todo = Top.todo \ {Next1}
               /\ stack # <<>> /\ Top.pc = "cascade" /\ Cascading
    BY <1>1, <1>22, RemoveReferenceDoes DEF Running, Cascading
  <2>2. Next1 \in Top.todo /\ Next1.id \in Entities /\ Affected = Top.affected[Next1.id]
    BY <1>1, <2>1, NextTyped DEF Cascading, Affected
  <2>3. Affected.exists
    BY <1>6, <1>17, <2>1, <2>2 DEF InstancesAt
  <2>4. db'[Next1.id] = changed /\ changed.exists
    BY <1>1, <2>1, <2>2, <2>3 DEF Unlinked
  <2>5. Top.affected \in [Entities -> Record]
    BY <1>6, <2>1, FrameFields
  <2>6. \A e \in Entities : x.affected[e] = IF e = Next1.id THEN changed ELSE Top.affected[e]
    BY <2>1, <2>2, <2>5
  <2>7. \A e \in Entities : x.affected[e].exists => UpToDate(db', x.affected[e], e)
    <3> SUFFICES ASSUME NEW e \in Entities, x.affected[e].exists
                 PROVE  UpToDate(db', x.affected[e], e)
      OBVIOUS
    <3>1. CASE e = Next1.id
      BY <1>7, <2>4, <2>6, <3>1
    <3>2. CASE e # Next1.id
      <4>1. x.affected[e] = Top.affected[e] /\ Top.affected[e] \in Record
        BY <2>5, <2>6, <3>2
      <4>2. UpToDate(db, Top.affected[e], e)
        BY <1>6, <1>17, <2>1, <4>1 DEF InstancesAt
      <4> QED
        BY <1>5, <4>1, <4>2
    <3> QED
      BY <3>1, <3>2
  <2>8. \A s \in x.todo : x.affected[s.id].exists
    <3> SUFFICES ASSUME NEW s \in Top.todo PROVE x.affected[s.id].exists
      BY <2>1
    <3>1. s.id \in Entities
      BY <1>6, <2>1, StepFields
    <3> QED
      BY <1>6, <1>17, <2>1, <2>4, <2>6, <3>1 DEF InstancesAt
  <2> QED
    BY <1>16, <1>17, <2>1, <2>7, <2>8
<1>23. (\E x \in Entities : OtherEdit(x)) \/ UNCHANGED vars => UNCHANGED stack
  BY <1>1, OtherEditDoes DEF vars
<1> QED
  BY <1>3, <1>9, <1>10, <1>11, <1>13, <1>14, <1>15, <1>18, <1>19, <1>20, <1>21, <1>22, <1>23
     DEF StackStep

\* The instances an action works on stay what is stored, or older than that.
LEMMA InstancesStay ==
  ASSUME InPhase, Instances, [Next]_vars
  PROVE  Instances'
<1>1. \A i \in 1..Len(stack') : InstancesAt(i)'
  BY InstancesAtStay
<1>2. action'.state = "running" => \A k \in DOMAIN action'.selected :
          UpToDate(db', action'.selected[k].entity, action'.selected[k].id)
  BY SelectedStay
<1> QED
  BY <1>1, <1>2 DEF Instances

\* Nothing has been loaded at first.
LEMMA InstancesAtFirst ==
  ASSUME Init
  PROVE  Instances
<1>1. action.state = "idle" /\ stack = <<>>
  BY InitDoes DEF NoAction
<1>2. 1..Len(stack) = {}
  BY <1>1
<1> QED
  BY <1>1, <1>2 DEF Instances

-----------------------------------------------------------------------------
(***************************************************************************)
(* Deleting                                                                *)
(***************************************************************************)

\* The steps that are left lead to records that refer to this one; a record that was
\* entered is the one its caller has loaded, and belongs to the caller alone.
PartsAt(i) ==
    /\ \A s \in stack[i].todo : stack[i].id \in stack[i].affected[s.id].refs[s.field]
    /\ i > 1 => /\ stack[i].entity = stack[i - 1].affected[stack[i].id]
                /\ \E f \in composite : stack[i].entity.refs[f] = {stack[i - 1].id}

Parts == action.kind = "delete" => \A i \in 1..Len(stack) : PartsAt(i)

\* The steps of a deletion
LEMMA DeleteSteps ==
  ASSUME InPhase, [Next]_vars, stack' # <<>>, action'.kind = "delete"
  PROVE  /\ action.kind = "delete" /\ action.state = "running" /\ UNCHANGED composite
         /\ StackStep \/ UNCHANGED vars
         /\ \/ ProcessNext \/ LoadLinking \/ CompositeAction
            \/ HandleAccount \/ RemoveReference \/ RemoveRecord
            \/ \E e \in Entities : OtherEdit(e)
            \/ UNCHANGED vars
<1>1. action.state = "running" /\ UNCHANGED action.kind /\ (StackStep \/ UNCHANGED vars)
  BY StackSteps DEF InPhase
<1>2. ~SkipAnonymize /\ ~Anonymize /\ ~KeepUnchanged /\ ~AnonymizeReturns
  BY <1>1 DEF SkipAnonymize, Anonymize, KeepUnchanged, AnonymizeReturns, Running
<1>3. TypeOK
  BY DEF InPhase
<1>4. UNCHANGED composite
  <2>1. LoadLinking \/ CompositeAction \/ HandleAccount \/ RemoveReference \/ RemoveRecord
        => UNCHANGED composite
    BY <1>3, LoadLinkingDoes, CompositeActionDoes, HandleAccountDoes, RemoveReferenceDoes,
       RemoveRecordDoes DEF Keeps
  <2>2. ProcessNext \/ (\E e \in Entities : OtherEdit(e)) \/ UNCHANGED vars => UNCHANGED composite
    BY <1>3, ProcessNextDoes, OtherEditDoes DEF OnlyTheAction, vars, envVars
  <2> QED
    BY <1>1, <1>2, <2>1, <2>2 DEF StackStep
<1> QED
  BY <1>1, <1>2, <1>4 DEF StackStep

\* A set with no more than one element has none besides one that is in it.
LEMMA OnlyElement ==
  ASSUME NEW S, IsFiniteSet(S), Cardinality(S) <= 1, NEW x \in S
  PROVE  S = {x}
<1>1. IsFiniteSet(S \ {x}) /\ Cardinality(S \ {x}) = Cardinality(S) - 1
  BY FS_RemoveElement
<1>2. Cardinality(S) \in Nat /\ Cardinality(S \ {x}) \in Nat
  BY <1>1, FS_CardinalityType
<1>3. Cardinality(S \ {x}) = 0
  BY <1>1, <1>2
<1>4. S \ {x} = {}
  BY <1>1, <1>3, FS_EmptySet
<1> QED
  BY <1>4

\* What is deleted with a record belongs to it alone.
LEMMA CompositeIsPart ==
  ASSUME TypeOK, stack # <<>>, Cascading, IsOnlyComposite, PartsAt(Len(stack))
  PROVE  Next1.field \in composite /\ Affected.refs[Next1.field] = {Top.id}
<1>1. /\ Next1 \in Top.todo /\ Next1.field \in FieldNames /\ Affected \in Record
      /\ Affected = Top.affected[Next1.id]
  BY NextTyped DEF Cascading, Affected
<1> DEFINE refs == Affected.refs[Next1.field]
<1>2. refs \subseteq Entities /\ IsFiniteSet(Entities)
  BY <1>1, RecordFields, EntitiesAssumption
<1>3. Top.id \in refs
  BY <1>1 DEF PartsAt, Top
<1>4. Next1.field \in composite /\ Cardinality(refs) <= 1
  BY DEF IsOnlyComposite
<1> HIDE DEF refs
<1>5. IsFiniteSet(refs)
  BY <1>2, FS_Subset
<1>6. refs = {Top.id}
  BY <1>3, <1>4, <1>5, OnlyElement
<1> QED
  BY <1>4, <1>6 DEF refs

\* A record that the recursion has entered belongs to the one that led to it alone.
LEMMA PartsStay ==
  ASSUME InPhase, Parts, [Next]_vars
  PROVE  Parts'
<1>1. SUFFICES ASSUME action'.kind = "delete", NEW i \in 1..Len(stack') PROVE PartsAt(i)'
  BY DEF Parts
<1>2. TypeOK /\ stack' \in Seq(Frame) /\ stack \in Seq(Frame)
  BY TypeStays DEF InPhase, TypeOK
<1>3. stack' # <<>>
  <2>1. Len(<<>>) = 0 /\ 1..0 = {}
    OBVIOUS
  <2> QED
    BY <2>1
<1>4. /\ action.kind = "delete" /\ UNCHANGED composite
      /\ \A k \in 1..Len(stack) : PartsAt(k)
  BY <1>1, <1>3, DeleteSteps DEF Parts
<1>5. /\ \A k \in 1..Len(stack) : stack[k] \in Frame /\ stack[k].todo \subseteq Step
      /\ stack # <<>> => /\ Top \in Frame /\ Len(stack) \in 1..Len(stack)
                         /\ stack[Len(stack)] = Top /\ Len(stack) \in Nat \ {0}
                         /\ PartsAt(Len(stack)) /\ Top.todo \subseteq Step
                         /\ Top.affected \in [Entities -> Record] /\ Top.id \in Entities
  <2>1. stack # <<>> => Top \in Frame /\ Len(stack) \in Nat \ {0}
    BY <1>2, TopTyped
  <2>2. \A k \in 1..Len(stack) : stack[k] \in Frame
    BY <1>2
  <2>3. stack # <<>> => Len(stack) \in 1..Len(stack) /\ stack[Len(stack)] = Top
    BY <2>1 DEF Top
  <2>4. \A x \in Frame : x.todo \subseteq Step /\ x.affected \in [Entities -> Record] /\ x.id \in Entities
    BY FrameFields
  <2> QED
    BY <1>4, <2>1, <2>2, <2>3, <2>4
<1>6. i \in Nat /\ i >= 1 /\ i <= Len(stack') /\ i - 1 < i
      /\ (i > 1 => i - 1 \in 1..Len(stack') /\ i - 1 \in Nat)
  BY <1>2
<1>7. ASSUME i \in 1..Len(stack), stack'[i] = stack[i], i > 1 => stack'[i - 1] = stack[i - 1]
      PROVE  PartsAt(i)'
  BY <1>4, <1>7 DEF PartsAt
<1>8. CASE UNCHANGED stack
  BY <1>7, <1>8
<1>9. CASE ProcessNext
  <2>1. Len(stack') = 1 /\ stack'[1].todo = {}
    BY <1>2, <1>9, ProcessNextDoes DEF Begins
  <2>2. i = 1 /\ ~(i > 1)
    BY <2>1
  <2> QED
    BY <2>1, <2>2 DEF PartsAt
<1>10. ASSUME stack # <<>>, NEW x \in Frame, ReplacesTop(x), x.id = Top.id, x.entity = Top.entity,
              \A s \in x.todo : x.id \in x.affected[s.id].refs[s.field]
       PROVE  PartsAt(i)'
  <2>1. /\ i \in 1..Len(stack) /\ (i < Len(stack) \/ i = Len(stack))
        /\ i < Len(stack) => stack'[i] = stack[i]
        /\ i = Len(stack) => stack'[i] = x
    BY <1>2, <1>10, ReplaceLeaves
  <2>2. i > 1 => stack'[i - 1] = stack[i - 1]
    <3>1. i > 1 => i - 1 \in 1..Len(stack') /\ i - 1 < Len(stack)
      BY <1>5, <1>6, <1>10, <2>1
    <3> QED
      BY <1>2, <1>10, <3>1, ReplaceLeaves
  <2>3. CASE i = Len(stack)
    <3>1. PartsAt(i) /\ stack[i] = Top
      BY <1>4, <1>5, <1>10, <2>3
    <3> QED
      BY <1>4, <1>10, <2>1, <2>2, <2>3, <3>1 DEF PartsAt
  <2> QED
    BY <1>7, <2>1, <2>2, <2>3
<1>11. CASE LoadLinking
  <2>1. PICK x \in Frame :
           /\ ReplacesTop(x) /\ x.id = Top.id /\ x.entity = Top.entity /\ x.affected = db
           /\ x.todo = {s \in Step : Refers(db, s.id, Top.id, s.field)}
           /\ stack # <<>>
    BY <1>2, <1>11, LoadLinkingDoes
  <2>2. \A s \in x.todo : x.id \in x.affected[s.id].refs[s.field]
    BY <2>1 DEF Refers
  <2> QED
    BY <1>10, <2>1, <2>2
<1>12. CASE HandleAccount
  <2>1. PICK x \in Frame :
           /\ ReplacesTop(x) /\ x.id = Top.id /\ x.entity = Top.entity
           /\ x.affected = Top.affected /\ x.todo = Top.todo /\ stack # <<>>
    BY <1>2, <1>12, HandleAccountDoes DEF Running
  <2>2. \A s \in x.todo : x.id \in x.affected[s.id].refs[s.field]
    BY <1>5, <2>1 DEF PartsAt
  <2> QED
    BY <1>10, <2>1, <2>2
<1>13. CASE RemoveReference
  <2>1. PICK changed \in Record, x \in Frame :
               /\ Unlinked(changed)
               /\ ReplacesTop(x) /\ x.id = Top.id /\ x.entity = Top.entity
               /\ x.affected = [Top.affected EXCEPT ![Next1.id] = changed]
               /\ x.todo = Top.todo \ {Next1}
               /\ stack # <<>> /\ Cascading
    BY <1>2, <1>13, RemoveReferenceDoes DEF Running
  <2>2. Next1 \in Top.todo /\ Next1.id \in Entities /\ Affected = Top.affected[Next1.id]
        /\ Next1 \in Step
    BY <1>2, <2>1, NextTyped DEF Cascading, Affected
  <2>3. \A e \in Entities : x.affected[e] = IF e = Next1.id THEN changed ELSE Top.affected[e]
    BY <1>5, <2>1, <2>2
  <2>4. ASSUME NEW s \in x.todo PROVE x.id \in x.affected[s.id].refs[s.field]
    <3>1. s \in Top.todo /\ s # Next1 /\ s \in Step
      BY <1>5, <2>1, <2>4
    <3>2. s.id \in Entities /\ s.field \in FieldNames /\ (s.id # Next1.id \/ s.field # Next1.field)
      BY <2>2, <3>1, StepFields
    <3>3. Top.id \in Top.affected[s.id].refs[s.field]
      BY <1>5, <2>1, <3>1 DEF PartsAt
    <3>4. CASE s.id # Next1.id
      BY <2>1, <2>3, <3>2, <3>3, <3>4
    <3>5. CASE s.id = Next1.id
      <4>1. s.field # Next1.field
        BY <3>2, <3>5
      <4>2. changed.refs[s.field] = Affected.refs[s.field]
        BY <2>1, <3>2, <4>1 DEF Unlinked
      <4> QED
        BY <2>1, <2>2, <2>3, <3>2, <3>3, <3>5, <4>2
    <3> QED
      BY <3>4, <3>5
  <2> QED
    BY <1>10, <2>1, <2>4
<1>14. CASE CompositeAction
  <2>1. /\ stack # <<>> /\ Cascading /\ IsOnlyComposite
        /\ LET x == stack'[Len(stack)]
           IN /\ x.id = Top.id /\ x.entity = Top.entity /\ x.affected = Top.affected
              /\ x.todo = Top.todo \ {Next1}
        /\ Begins(stack'[Len(stack) + 1], Next1.id, Affected)
    BY <1>2, <1>14, CompositeActionDoes
  <2>2. /\ i < Len(stack) => i \in 1..Len(stack) /\ stack'[i] = stack[i]
        /\ i < Len(stack) \/ i = Len(stack) \/ i = Len(stack) + 1
    BY <1>2, <1>14, CompositeLeaves
  <2>3. i > 1 /\ i <= Len(stack) => stack'[i - 1] = stack[i - 1]
    <3>1. i > 1 /\ i <= Len(stack) => i - 1 \in 1..Len(stack') /\ i - 1 < Len(stack)
      BY <1>5, <1>6, <2>1
    <3> QED
      BY <1>2, <1>14, <3>1, CompositeLeaves
  <2>4. CASE i < Len(stack)
    BY <1>5, <1>6, <1>7, <2>1, <2>2, <2>3, <2>4
  <2>5. CASE i = Len(stack)
    <3>1. PartsAt(i) /\ stack[i] = Top /\ i <= Len(stack)
      BY <1>5, <2>1, <2>5
    <3> QED
      BY <1>4, <2>1, <2>3, <2>5, <3>1 DEF PartsAt
  <2>6. CASE i = Len(stack) + 1
    <3>1. i - 1 = Len(stack)
      BY <1>5, <2>1, <2>6
    <3>2. /\ stack'[i].id = Next1.id /\ stack'[i].entity = Affected /\ stack'[i].todo = {}
      BY <2>1, <2>6 DEF Begins
    <3>3. Next1.field \in composite /\ Affected.refs[Next1.field] = {Top.id}
      BY <1>2, <1>5, <2>1, CompositeIsPart
    <3>4. stack'[i - 1].affected[Next1.id] = Affected /\ stack'[i - 1].id = Top.id
      BY <2>1, <3>1 DEF Affected
    <3> QED
      BY <1>4, <3>2, <3>3, <3>4 DEF PartsAt
  <2> QED
    BY <2>2, <2>4, <2>5, <2>6
<1>15. CASE RemoveRecord
  <2>1. PICK result : stack # <<>> /\ Returns(Top.entity, result)
    BY <1>2, <1>15, RemoveRecordDoes DEF Running
  <2>2. /\ i \in 1..Len(stack) /\ (i < Len(stack') \/ i = Len(stack'))
        /\ Len(stack') = Len(stack) - 1
        /\ i < Len(stack') => stack'[i] = stack[i]
        /\ i = Len(stack') =>
               /\ stack'[i].id = stack[i].id /\ stack'[i].entity = stack[i].entity
               /\ stack'[i].todo = stack[i].todo
               /\ \A e \in Entities : stack'[i].affected[e] =
                     IF e = Top.id THEN Top.entity ELSE stack[i].affected[e]
    BY <1>2, <2>1, ReturnLeaves
  <2>3. i > 1 => stack'[i - 1] = stack[i - 1]
    <3>1. i > 1 => i - 1 \in 1..Len(stack') /\ i - 1 < Len(stack')
      BY <1>6
    <3> QED
      BY <1>2, <2>1, <3>1, ReturnLeaves
  <2>4. CASE i = Len(stack')
    <3>1. Len(stack) - 1 = i /\ Len(stack) > 1
      BY <1>5, <1>6, <2>1, <2>2, <2>4
    <3>2. Top.entity = stack[i].affected[Top.id]
      BY <1>5, <2>1, <3>1 DEF PartsAt
    <3>3. \A e \in Entities : stack'[i].affected[e] = stack[i].affected[e]
      BY <2>2, <2>4, <3>2
    <3>4. \A s \in stack[i].todo : s.id \in Entities
      BY <1>5, <2>2, StepFields
    <3>5. PartsAt(i)
      BY <1>4, <2>2
    <3> QED
      BY <1>4, <2>2, <2>3, <2>4, <3>3, <3>4, <3>5 DEF PartsAt
  <2> QED
    BY <1>7, <2>2, <2>3, <2>4
<1>16. (\E x \in Entities : OtherEdit(x)) \/ UNCHANGED vars => UNCHANGED stack
  BY <1>2, OtherEditDoes DEF vars
<1> QED
  BY <1>1, <1>3, <1>8, <1>9, <1>11, <1>12, <1>13, <1>14, <1>15, <1>16, DeleteSteps

\* A deletion takes a record with it that has not been selected only through a composite
\* field that names the one that led to it, and that one alone, in the revision that is
\* deleted.
THEOREM PartsOnly == Spec => OnlyPartsAreDeleted
<1> DEFINE Inv == InPhase /\ Instances /\ Parts
           Step1 == \A e \in Entities : db[e].exists /\ ~db'[e].exists /\ e \notin Selected =>
                        \E f \in composite : db[e].refs[f] = {Caller.id}
<1>1. Init => Inv
  <2>1. ASSUME Init PROVE Parts
    BY <2>1, InitDoes DEF NoAction, Parts
  <2> QED
    BY <2>1, InPhaseAtFirst, InstancesAtFirst
<1>2. Inv /\ [Next]_vars => Inv'
  BY InPhaseStays, InstancesStay, PartsStay
<1>3. Inv /\ [Next]_vars => [Step1]_vars
  <2> SUFFICES ASSUME Inv, Next, NEW e \in Entities, db[e].exists, ~db'[e].exists, e \notin Selected
               PROVE  \E f \in composite : db[e].refs[f] = {Caller.id}
    OBVIOUS
  <2>1. TypeOK /\ db \in [Entities -> Record]
    BY DEF InPhase, TypeOK
  <2>2. CASE RemoveRecord
    <3>1. /\ stack # <<>> /\ action.kind = "delete" /\ Top.entity.rev = db[Top.id].rev
          /\ db' = [db EXCEPT ![Top.id] = Tombstone(Top.id)]
      BY <2>1, <2>2, RemoveRecordDoes DEF Running
    <3>2. e = Top.id /\ Top.entity = db[e]
      BY <2>1, <3>1, SavesLatest
    <3>3. Len(stack) \in Nat \ {0} /\ Len(stack) \in 1..Len(stack) /\ stack[Len(stack)] = Top
      BY <2>1, <3>1, TopTyped DEF Top
    <3>4. Len(stack) # 1
      BY <3>2, <3>3 DEF Selected
    <3>5. Len(stack) > 1
      <4>1. \A n \in Nat \ {0} : n # 1 => n > 1
        OBVIOUS
      <4> QED
        BY <3>3, <3>4, <4>1
    <3>6. PartsAt(Len(stack))
      BY <3>1, <3>3 DEF Parts
    <3> QED
      BY <3>2, <3>3, <3>5, <3>6 DEF PartsAt, Caller
  <2>3. ASSUME NEW E, Undoes(E) PROVE FALSE
    <3>1. e \in E => Restore(e).exists
      BY <2>1, <2>3, RestoreFields DEF Undoes, Originals
    <3> QED
      BY <2>3, <3>1 DEF Undoes
  <2>4. CASE RemoveReference
    <3>1. PICK changed \in Record : /\ Unlinked(changed) /\ db' = [db EXCEPT ![Next1.id] = changed]
                                    /\ Cascading /\ stack # <<>>
      BY <2>1, <2>4, RemoveReferenceDoes DEF Running
    <3>2. changed.exists
      BY <2>1, <3>1, SavesLatest DEF Unlinked
    <3> QED
      BY <2>1, <3>1, <3>2
  <2>5. CASE Anonymize
    <3>1. PICK changed \in Record : /\ Anonymized(changed) /\ db' = [db EXCEPT ![Top.id] = changed]
                                    /\ stack # <<>>
      BY <2>1, <2>5, AnonymizeDoes DEF Running
    <3>2. changed.exists
      BY <2>1, <3>1, SavesLatest DEF Anonymized
    <3> QED
      BY <2>1, <3>1, <3>2
  <2>6. ASSUME NEW x \in Entities, OtherEdit(x) PROVE FALSE
    <3>1. PICK changed \in Record : changed.exists = db[x].exists /\ db' = [db EXCEPT ![x] = changed]
      BY <2>1, <2>6, OtherEditDoes DEF EditsTo
    <3> QED
      BY <2>1, <3>1
  <2>7. LoadLinking \/ CompositeAction \/ HandleAccount \/ SkipAnonymize \/ KeepUnchanged
        \/ AnonymizeReturns => UNCHANGED db
    BY <2>1, LoadLinkingDoes, CompositeActionDoes, HandleAccountDoes, SkipAnonymizeDoes,
       KeepUnchangedDoes, AnonymizeReturnsDoes
  <2>8. ProcessNext \/ Complete \/ AccountEndsDeletion \/ Fail \/ Undo \/ UndoCompletes \/ UndoFails
        => UNCHANGED db
    BY <2>1, ProcessNextDoes, CompleteDoes, ThrowDoes, UndoDoes, UndoEnds DEF OnlyTheAction
  <2>9. Start("delete") \/ Start("anonymize") => UNCHANGED db
    BY <2>1, StartDoes
  <2>10. ~UndoBulk /\ \A x \in Entities : ~UndoOverwrite(x)
    BY <2>1, <2>3, UndoBulkDoes, UndoOverwriteDoes
  <2>11. ~UNCHANGED db
    OBVIOUS
  <2> QED
    BY <2>2, <2>4, <2>5, <2>6, <2>7, <2>8, <2>9, <2>10, <2>11 DEF Next, ActionStep, UndoStep
<1> HIDE DEF Inv, Step1
<1>4. Spec => [][Step1]_vars
  BY <1>1, <1>2, <1>3, PTL DEF Spec
<1> QED
  BY <1>4 DEF OnlyPartsAreDeleted, Step1

\* In the cascade of a record, whoever refers to it is still to be visited, or is being
\* processed right now, unless another user has just linked to it.
PointingAt(i) ==
    stack[i].pc = "cascade" =>
        \A e \in Entities, f \in FieldNames : Refers(db, e, stack[i].id, f) =>
            \/ [id |-> e, field |-> f] \in stack[i].todo
            \/ stack[i].id \in raced
            \/ i < Len(stack) /\ stack[i + 1].id = e

Pointing == action.kind = "delete" => \A i \in 1..Len(stack) : PointingAt(i)

\* What a deletion and other users do to the references: a new one is known as raced.
Unlinks ==
    /\ raced \subseteq raced'
    /\ \A e, x \in Entities, f \in FieldNames : Refers(db', e, x, f) =>
          Refers(db, e, x, f) \/ (x \in raced' /\ db[x].exists)

\* A deletion only takes references away.
LEMMA ReferencesShrink ==
  ASSUME TypeOK, Instances,
         \/ ProcessNext \/ Complete \/ LoadLinking \/ CompositeAction
         \/ HandleAccount \/ RemoveReference \/ RemoveRecord
         \/ \E e \in Entities : OtherEdit(e)
         \/ UNCHANGED vars
  PROVE  Unlinks
<1>1. db \in [Entities -> Record]
  BY DEF TypeOK
<1>2. UNCHANGED <<db, raced>> => Unlinks
  BY DEF Unlinks
<1>3. ProcessNext \/ Complete \/ LoadLinking \/ CompositeAction \/ HandleAccount
      => UNCHANGED <<db, raced>>
  BY ProcessNextDoes, CompleteDoes, LoadLinkingDoes, CompositeActionDoes, HandleAccountDoes
     DEF OnlyTheAction, Keeps
<1>4. CASE RemoveReference
  <2>1. PICK changed \in Record : /\ Unlinked(changed) /\ db' = [db EXCEPT ![Next1.id] = changed]
                                  /\ Cascading /\ stack # <<>> /\ UNCHANGED raced
                                  /\ Affected.rev = db[Next1.id].rev
    BY <1>4, RemoveReferenceDoes DEF Running, Keeps
  <2>2. Affected = db[Next1.id]
    BY <2>1, SavesLatest
  <2>3. changed.exists = db[Next1.id].exists
        /\ \A f \in FieldNames : changed.refs[f] \subseteq db[Next1.id].refs[f]
    BY <2>1, <2>2 DEF Unlinked
  <2> QED
    BY <1>1, <2>1, <2>3 DEF Unlinks, Refers
<1>5. CASE RemoveRecord
  <2>1. db' = [db EXCEPT ![Top.id] = Tombstone(Top.id)] /\ UNCHANGED raced /\ Top.id \in Entities
    BY <1>5, RemoveRecordDoes, TopTyped, FrameFields DEF Running, Keeps
  <2>2. ~Tombstone(Top.id).exists
    BY <2>1, TombstoneFields
  <2> QED
    BY <1>1, <2>1, <2>2 DEF Unlinks, Refers
<1>6. ASSUME NEW y \in Entities, OtherEdit(y) PROVE Unlinks
  <2>1. PICK changed \in Record :
          /\ changed.exists = db[y].exists /\ db' = [db EXCEPT ![y] = changed]
          /\ \A f \in FieldNames : \A x \in changed.refs[f] :
                x \in db[y].refs[f] \/ (x \in raced' /\ db[x].exists)
    BY <1>6, OtherEditDoes DEF EditsTo
  <2>2. raced \subseteq raced'
    BY <1>6, OtherEditDoes
  <2> QED
    BY <1>1, <2>1, <2>2 DEF Unlinks, Refers
<1>7. UNCHANGED vars => UNCHANGED <<db, raced>>
  BY DEF vars, envVars
<1> QED
  BY <1>2, <1>3, <1>4, <1>5, <1>6, <1>7

\* No reference to a record in its cascade is overlooked.
LEMMA PointingStays ==
  ASSUME InPhase, Instances, Pointing, [Next]_vars
  PROVE  Pointing'
<1>1. SUFFICES ASSUME action'.kind = "delete", NEW i \in 1..Len(stack'),
                      stack'[i].pc = "cascade", NEW e \in Entities, NEW f \in FieldNames,
                      Refers(db', e, stack'[i].id, f)
               PROVE  \/ [id |-> e, field |-> f] \in stack'[i].todo
                      \/ stack'[i].id \in raced'
                      \/ i < Len(stack') /\ stack'[i + 1].id = e
  BY DEF Pointing, PointingAt
<1> DEFINE Goal == \/ [id |-> e, field |-> f] \in stack'[i].todo
                   \/ stack'[i].id \in raced'
                   \/ i < Len(stack') /\ stack'[i + 1].id = e
<1>2. TypeOK /\ stack' \in Seq(Frame) /\ stack \in Seq(Frame)
  BY TypeStays DEF InPhase, TypeOK
<1>3. stack' # <<>>
  <2>1. Len(<<>>) = 0 /\ 1..0 = {}
    OBVIOUS
  <2> QED
    BY <2>1
<1>4. /\ action.kind = "delete"
      /\ \A k \in 1..Len(stack) : PointingAt(k)
  BY <1>1, <1>3, DeleteSteps DEF Pointing
<1>5. Unlinks
  BY <1>1, <1>2, <1>3, DeleteSteps, ReferencesShrink
<1>6. Goal \/ Refers(db, e, stack'[i].id, f)
  <2>1. stack'[i].id \in Entities
    BY <1>2, FrameFields
  <2> QED
    BY <1>1, <1>5, <2>1 DEF Unlinks
<1>7. stack # <<>> => /\ Top \in Frame /\ Len(stack) \in 1..Len(stack)
                      /\ stack[Len(stack)] = Top /\ Len(stack) \in Nat \ {0}
                      /\ PointingAt(Len(stack)) /\ Top.id \in Entities
  <2>1. stack # <<>> => Top \in Frame /\ Len(stack) \in Nat \ {0}
    BY <1>2, TopTyped
  <2>2. stack # <<>> => Len(stack) \in 1..Len(stack) /\ stack[Len(stack)] = Top
    BY <2>1 DEF Top
  <2> QED
    BY <1>4, <2>1, <2>2, FrameFields
<1>8. i \in Nat /\ i >= 1 /\ i <= Len(stack') /\ Len(stack) \in Nat /\ Len(stack') \in Nat
      /\ i + 1 \in Nat
  BY <1>2
\* A frame that another one is above, before and after
<1>9. ASSUME i \in 1..Len(stack), i < Len(stack), i < Len(stack'), stack'[i] = stack[i],
             stack'[i + 1].id = stack[i + 1].id
      PROVE  Goal
  BY <1>1, <1>4, <1>5, <1>6, <1>9 DEF PointingAt, Unlinks
<1>10. ASSUME stack # <<>>, NEW x \in Frame, ReplacesTop(x), x.id = Top.id,
              x.pc = "cascade" /\ Refers(db, e, Top.id, f) => Top.id \in raced'
                  \/ [id |-> e, field |-> f] \in x.todo
       PROVE  Goal
  <2>1. /\ i \in 1..Len(stack) /\ (i < Len(stack) \/ i = Len(stack)) /\ Len(stack') = Len(stack)
        /\ i < Len(stack) => stack'[i] = stack[i]
        /\ i = Len(stack) => stack'[i] = x
    BY <1>2, <1>10, ReplaceLeaves
  <2>2. CASE i < Len(stack)
    <3>1. i + 1 \in 1..Len(stack)
      BY <1>8, <2>1, <2>2
    <3>2. stack'[i + 1].id = stack[i + 1].id
      BY <1>2, <1>10, <3>1, IdsOfReplaced
    <3> QED
      BY <1>9, <2>1, <2>2, <3>2
  <2>3. CASE i = Len(stack)
    BY <1>1, <1>6, <1>10, <2>1, <2>3
  <2> QED
    BY <2>1, <2>2, <2>3
<1>11. CASE UNCHANGED stack
  <2>1. i \in 1..Len(stack) /\ (i < Len(stack) \/ i = Len(stack))
    BY <1>8, <1>11
  <2> QED
    BY <1>1, <1>4, <1>5, <1>6, <1>11, <2>1 DEF PointingAt, Unlinks
<1>12. CASE ProcessNext
  <2>1. Len(stack') = 1 /\ stack'[1].pc # "cascade"
    BY <1>2, <1>12, ProcessNextDoes DEF Begins
  <2>2. i = 1
    BY <2>1
  <2> QED
    BY <1>1, <2>1, <2>2
<1>13. CASE LoadLinking
  <2>1. PICK x \in Frame :
           /\ ReplacesTop(x) /\ x.id = Top.id
           /\ x.todo = {s \in Step : Refers(db, s.id, Top.id, s.field)}
           /\ stack # <<>>
    BY <1>2, <1>13, LoadLinkingDoes
  <2>2. Refers(db, e, Top.id, f) => [id |-> e, field |-> f] \in x.todo
    <3> DEFINE s == [id |-> e, field |-> f]
    <3>1. s \in Step /\ s.id = e /\ s.field = f
      BY DEF Step
    <3> HIDE DEF s
    <3>2. Refers(db, e, Top.id, f) => s \in x.todo
      BY <2>1, <3>1
    <3> QED
      BY <3>2 DEF s
  <2> QED
    BY <1>10, <2>1, <2>2
<1>14. CASE HandleAccount
  <2>1. PICK x \in Frame : ReplacesTop(x) /\ x.id = Top.id /\ x.pc = "load" /\ stack # <<>>
    BY <1>2, <1>14, HandleAccountDoes DEF Running
  <2> QED
    BY <1>10, <2>1
<1>15. CASE RemoveReference
  <2>1. PICK changed \in Record, x \in Frame :
               /\ Unlinked(changed) /\ db' = [db EXCEPT ![Next1.id] = changed]
               /\ ReplacesTop(x) /\ x.id = Top.id
               /\ x.todo = Top.todo \ {Next1} /\ UNCHANGED raced
               /\ stack # <<>> /\ Top.pc = "cascade" /\ Cascading
    BY <1>2, <1>15, RemoveReferenceDoes DEF Running, Keeps, Cascading
  <2>2. Next1.id \in Entities /\ db \in [Entities -> Record]
    BY <1>2, <2>1, NextTyped DEF Cascading, TypeOK
  <2>3. stack'[i].id = Top.id => [id |-> e, field |-> f] # Next1
    <3>1. Next1.field \in FieldNames
      BY <1>2, <2>1, NextTyped DEF Cascading
    <3>2. Top.id \notin db'[Next1.id].refs[Next1.field]
      BY <2>1, <2>2, <3>1 DEF Unlinked
    <3>3. ASSUME [id |-> e, field |-> f] = Next1 PROVE e = Next1.id /\ f = Next1.field
      BY <3>3
    <3> QED
      BY <1>1, <3>2, <3>3 DEF Refers
  <2>4. /\ i \in 1..Len(stack) /\ (i < Len(stack) \/ i = Len(stack)) /\ Len(stack') = Len(stack)
        /\ i < Len(stack) => stack'[i] = stack[i]
        /\ i = Len(stack) => stack'[i] = x
    BY <1>2, <2>1, ReplaceLeaves
  <2>5. CASE i < Len(stack)
    <3>1. i + 1 \in 1..Len(stack)
      BY <1>8, <2>4, <2>5
    <3>2. stack'[i + 1].id = stack[i + 1].id
      BY <1>2, <2>1, <3>1, IdsOfReplaced
    <3> QED
      BY <1>9, <2>4, <2>5, <3>2
  <2>6. CASE i = Len(stack)
    <3>1. stack'[i] = x /\ stack'[i].id = Top.id /\ ~(i < Len(stack))
      BY <2>1, <2>4, <2>6, <1>8
    <3>2. Refers(db, e, Top.id, f) =>
             [id |-> e, field |-> f] \in Top.todo \/ Top.id \in raced
      BY <1>7, <2>1, <2>6, <3>1 DEF PointingAt
    <3> QED
      BY <1>6, <2>1, <2>3, <3>1, <3>2
  <2> QED
    BY <2>4, <2>5, <2>6
<1>16. CASE CompositeAction
  <2>1. /\ stack # <<>> /\ Top.pc = "cascade" /\ UNCHANGED raced
        /\ LET x == stack'[Len(stack)]
           IN x.id = Top.id /\ x.todo = Top.todo \ {Next1}
        /\ Begins(stack'[Len(stack) + 1], Next1.id, Affected)
    BY <1>2, <1>16, CompositeActionDoes DEF Cascading, Keeps
  <2>2. /\ i < Len(stack) => i \in 1..Len(stack) /\ stack'[i] = stack[i]
        /\ i < Len(stack) \/ i = Len(stack) \/ i = Len(stack) + 1
    BY <1>2, <1>16, CompositeLeaves
  <2>3. /\ Len(stack') = Len(stack) + 1 /\ \A k \in 1..Len(stack) : stack'[k].id = stack[k].id
        /\ stack'[Len(stack) + 1].id = Next1.id
    BY <1>2, <1>16, IdsOfEntered
  <2>4. CASE i < Len(stack)
    <3>1. i + 1 \in 1..Len(stack) /\ i < Len(stack')
      BY <1>8, <2>2, <2>3, <2>4
    <3> QED
      BY <1>9, <2>2, <2>3, <2>4, <3>1
  <2>5. CASE i = Len(stack)
    <3>1. ~(i < Len(stack)) /\ i < Len(stack')
      BY <1>8, <2>3, <2>5
    <3>2. Refers(db, e, Top.id, f) =>
             [id |-> e, field |-> f] \in Top.todo \/ Top.id \in raced
      BY <1>7, <2>1, <2>5, <3>1 DEF PointingAt
    <3>3. CASE [id |-> e, field |-> f] = Next1
      <4>1. Next1.id = e
        BY <3>3
      <4> QED
        BY <2>3, <2>5, <3>1, <4>1
    <3>4. CASE [id |-> e, field |-> f] # Next1
      BY <1>6, <2>1, <2>5, <3>2, <3>4
    <3> QED
      BY <3>3, <3>4
  <2>6. CASE i = Len(stack) + 1
    BY <1>1, <2>1, <2>6 DEF Begins
  <2> QED
    BY <2>2, <2>4, <2>5, <2>6
<1>17. CASE RemoveRecord
  <2>1. PICK result : stack # <<>> /\ Returns(Top.entity, result)
    BY <1>2, <1>17, RemoveRecordDoes DEF Running
  <2>2. /\ db' = [db EXCEPT ![Top.id] = Tombstone(Top.id)] /\ ~Tombstone(Top.id).exists
        /\ db \in [Entities -> Record] /\ UNCHANGED raced
    BY <1>2, <1>7, <1>17, <2>1, RemoveRecordDoes, TombstoneFields DEF TypeOK, Keeps
  <2>3. e # Top.id
    BY <1>1, <2>2 DEF Refers
  <2>4. /\ i \in 1..Len(stack) /\ i < Len(stack) /\ (i < Len(stack') \/ i = Len(stack'))
        /\ Len(stack') = Len(stack) - 1
        /\ i < Len(stack') => stack'[i] = stack[i]
        /\ i = Len(stack') => stack'[i].id = stack[i].id /\ stack'[i].pc = stack[i].pc
                              /\ stack'[i].todo = stack[i].todo
    BY <1>2, <2>1, ReturnLeaves
  <2>5. CASE i < Len(stack')
    <3>1. i + 1 \in 1..Len(stack')
      BY <1>8, <2>5
    <3>2. stack'[i + 1].id = stack[i + 1].id
      BY <1>2, <2>1, <3>1, IdsOfReturned
    <3> QED
      BY <1>9, <2>4, <2>5, <3>2
  <2>6. CASE i = Len(stack')
    <3>1. i + 1 = Len(stack)
      BY <1>8, <2>4, <2>6
    <3>2. stack[i + 1].id # e
      BY <1>7, <2>1, <2>3, <3>1
    <3> QED
      BY <1>1, <1>4, <1>6, <2>2, <2>4, <2>6, <3>2 DEF PointingAt
  <2> QED
    BY <2>4, <2>5, <2>6
<1>18. (\E x \in Entities : OtherEdit(x)) \/ UNCHANGED vars => UNCHANGED stack
  BY <1>2, OtherEditDoes DEF vars
<1> QED
  BY <1>1, <1>3, <1>11, <1>12, <1>13, <1>14, <1>15, <1>16, <1>17, <1>18, DeleteSteps

\* Where a record on the stack has been changed further in, there is a newer revision of
\* it than the instance its own frame works on.
OutdatedAt(i) ==
    \A j \in 1..i : stack[i].result.originals[stack[j].id].exists =>
        stack[j].entity.rev < db[stack[j].id].rev

Outdated == action.kind = "delete" => \A i \in 1..Len(stack) : OutdatedAt(i)

\* An instance that is older than what is stored stays so, and becomes so by a write.
LEMMA OlderInstances ==
  ASSUME TypeOK, Instances, Grows, NEW j \in 1..Len(stack),
         \/ stack[j].entity.rev < db[stack[j].id].rev
         \/ db'[stack[j].id].rev = db[stack[j].id].rev + 1
  PROVE  stack[j].entity.rev < db'[stack[j].id].rev
<1>1. stack[j] \in Frame
  BY DEF TypeOK
<1>2. stack[j].id \in Entities /\ stack[j].entity \in Record
  BY <1>1, FrameFields
<1>3. stack[j].entity.rev \in Nat /\ db[stack[j].id].rev \in Nat
  BY <1>2, RecordFields DEF TypeOK
<1>4. stack[j].entity.rev <= db[stack[j].id].rev
  BY DEF Instances, InstancesAt, UpToDate
<1>5. db'[stack[j].id] = db[stack[j].id] \/ db'[stack[j].id].rev = db[stack[j].id].rev + 1
  BY <1>2 DEF Grows
<1> QED
  BY <1>3, <1>4, <1>5

\* A record that is removed has not been changed in its own cascade.
LEMMA OutdatedStays ==
  ASSUME InPhase, Instances, Outdated, [Next]_vars
  PROVE  Outdated'
<1>1. SUFFICES ASSUME action'.kind = "delete", NEW i \in 1..Len(stack'), NEW j \in 1..i,
                      stack'[i].result.originals[stack'[j].id].exists
               PROVE  stack'[j].entity.rev < db'[stack'[j].id].rev
  BY DEF Outdated, OutdatedAt
<1>2. TypeOK /\ db \in [Entities -> Record] /\ stack \in Seq(Frame) /\ stack' \in Seq(Frame)
  BY TypeStays DEF InPhase, TypeOK
<1>3. stack' # <<>>
  <2>1. Len(<<>>) = 0 /\ 1..0 = {}
    OBVIOUS
  <2> QED
    BY <2>1
<1>4. /\ action.kind = "delete" /\ \A k \in 1..Len(stack) : OutdatedAt(k)
      /\ StackStep \/ UNCHANGED vars
  BY <1>1, <1>3, DeleteSteps DEF Outdated
<1>5. Grows
  BY <1>2, <1>4, DatabaseGrows
<1>6. i \in Nat /\ j \in Nat /\ i >= 1 /\ j >= 1 /\ j <= i /\ i <= Len(stack')
      /\ j \in 1..Len(stack') /\ Len(stack) \in Nat
  BY <1>2
<1>7. stack'[j] \in Frame /\ stack'[j].id \in Entities
  BY <1>2, <1>6, FrameFields
\* The instances on the stack stay, and what is found is old, or is written now.
<1>8. ASSUME i \in 1..Len(stack), stack'[j].id = stack[j].id, stack'[j].entity = stack[j].entity,
             \/ stack[i].result.originals[stack[j].id].exists
             \/ db'[stack[j].id].rev = db[stack[j].id].rev + 1
             \/ stack[j].entity.rev < db[stack[j].id].rev
      PROVE  stack'[j].entity.rev < db'[stack'[j].id].rev
  <2>1. j \in 1..Len(stack)
    BY <1>6, <1>8
  <2>2. stack[i].result.originals[stack[j].id].exists => stack[j].entity.rev < db[stack[j].id].rev
    BY <1>4, <1>8 DEF OutdatedAt
  <2> QED
    BY <1>2, <1>5, <1>8, <2>1, <2>2, OlderInstances
<1>9. CASE UNCHANGED stack
  BY <1>1, <1>8, <1>9
<1>10. ASSUME NEW x \in Frame, ReplacesTop(x), x.id = Top.id, x.entity = Top.entity, stack # <<>>,
              i = Len(stack) /\ x.result.originals[stack[j].id].exists =>
                 \/ Top.result.originals[stack[j].id].exists
                 \/ db'[stack[j].id].rev = db[stack[j].id].rev + 1
       PROVE  stack'[j].entity.rev < db'[stack'[j].id].rev
  <2>1. /\ i \in 1..Len(stack) /\ (i < Len(stack) \/ i = Len(stack)) /\ Len(stack') = Len(stack)
        /\ i < Len(stack) => stack'[i] = stack[i]
        /\ i = Len(stack) => stack'[i] = x /\ stack[i] = Top
    BY <1>2, <1>10, ReplaceLeaves
  <2>2. stack'[j].id = stack[j].id /\ stack'[j].entity = stack[j].entity
    <3>1. /\ j \in 1..Len(stack) /\ (j < Len(stack) \/ j = Len(stack))
          /\ j < Len(stack) => stack'[j] = stack[j]
          /\ j = Len(stack) => stack'[j] = x /\ stack[j] = Top
      BY <1>2, <1>6, <1>10, ReplaceLeaves
    <3> QED
      BY <1>10, <3>1
  <2> QED
    BY <1>1, <1>8, <1>10, <2>1, <2>2
<1>11. CASE ProcessNext
  <2>1. Len(stack') = 1 /\ stack'[1].result = NoResult
    BY <1>2, <1>11, ProcessNextDoes DEF Begins
  <2>2. i = 1
    BY <1>6, <2>1
  <2> QED
    BY <1>1, <1>7, <2>1, <2>2, NoResultTyped
<1>12. CASE LoadLinking
  <2>1. PICK x \in Frame : /\ ReplacesTop(x) /\ x.id = Top.id /\ x.entity = Top.entity
                           /\ x.result = Top.result /\ stack # <<>>
    BY <1>2, <1>12, LoadLinkingDoes
  <2> QED
    BY <1>10, <2>1
<1>13. CASE HandleAccount
  <2>1. PICK x \in Frame : /\ ReplacesTop(x) /\ x.id = Top.id /\ x.entity = Top.entity
                           /\ x.result = Top.result /\ stack # <<>>
    BY <1>2, <1>13, HandleAccountDoes DEF Running
  <2> QED
    BY <1>10, <2>1
<1>14. CASE CompositeAction
  <2>1. /\ stack # <<>>
        /\ LET x == stack'[Len(stack)]
           IN x.id = Top.id /\ x.entity = Top.entity /\ x.result = Top.result
        /\ stack'[Len(stack) + 1].result = NoResult
    BY <1>2, <1>14, CompositeActionDoes DEF Begins
  <2>2. \A k \in 1..Len(stack') :
           /\ k < Len(stack) => k \in 1..Len(stack) /\ stack'[k] = stack[k]
           /\ k = Len(stack) => stack[k] = Top
           /\ k \in 1..Len(stack) \/ k = Len(stack) + 1
    BY <1>2, <1>14, CompositeLeaves
  <2>3. \A k \in 1..Len(stack) : k < Len(stack) \/ k = Len(stack)
    BY <1>6
  <2>4. CASE i = Len(stack) + 1
    BY <1>1, <1>7, <2>1, <2>4, NoResultTyped
  <2>5. CASE i \in 1..Len(stack)
    <3>1. j \in 1..Len(stack)
      BY <1>6, <2>5
    <3>2. stack'[j].id = stack[j].id /\ stack'[j].entity = stack[j].entity
      BY <1>6, <2>1, <2>2, <2>3, <3>1
    <3>3. stack'[i].result = stack[i].result
      BY <2>1, <2>2, <2>3, <2>5
    <3> QED
      BY <1>1, <1>8, <2>5, <3>2, <3>3
  <2> QED
    BY <2>2, <2>4, <2>5
<1>15. CASE RemoveReference
  <2>1. PICK changed \in Record, x \in Frame :
               /\ Unlinked(changed) /\ db' = [db EXCEPT ![Next1.id] = changed]
               /\ ReplacesTop(x) /\ x.id = Top.id /\ x.entity = Top.entity
               /\ Finds(x.result, Top.result, Next1.id, Affected)
               /\ stack # <<>> /\ Cascading /\ Affected.rev = db[Next1.id].rev
    BY <1>2, <1>15, RemoveReferenceDoes DEF Running
  <2>2. Next1.id \in Entities
    BY <1>2, <2>1, NextTyped DEF Cascading
  <2>3. db'[Next1.id].rev = db[Next1.id].rev + 1
    BY <1>2, <2>1, <2>2 DEF Unlinked
  <2>4. i = Len(stack) => stack[j].id \in Entities
    <3>1. i = Len(stack) => j \in 1..Len(stack)
      BY <1>6
    <3> QED
      BY <1>2, <3>1, FrameFields
  <2> QED
    BY <1>10, <2>1, <2>3, <2>4 DEF Finds
<1>16. CASE RemoveRecord
  <2>1. PICK result \in Result :
               /\ Returns(Top.entity, result)
               /\ \A e \in Entities : e # Top.id => result.originals[e] = Top.result.originals[e]
    BY <1>2, <1>16, RemoveRecordDoes
  <2>2. stack # <<>> /\ db' = [db EXCEPT ![Top.id] = Tombstone(Top.id)]
    BY <1>2, <1>16, RemoveRecordDoes DEF Running
  <2>3. Len(stack) \in Nat \ {0} /\ Top = stack[Len(stack)] /\ Top.id \in Entities
    BY <1>2, <2>2, TopTyped, FrameFields DEF Top
  <2>4. db'[Top.id].rev = db[Top.id].rev + 1
    BY <1>2, <2>2, <2>3, TombstoneFields
  <2>5. \A k \in 1..Len(stack') :
          /\ k \in 1..Len(stack) /\ k < Len(stack) /\ Len(stack') = Len(stack) - 1
          /\ k < Len(stack') => stack'[k] = stack[k]
          /\ k = Len(stack') => /\ stack'[k].id = stack[k].id /\ stack'[k].entity = stack[k].entity
                                /\ stack'[k].result = MergeResults(stack[k].result, result)
    BY <1>2, <2>1, <2>2, ReturnLeaves
  <2>6. /\ stack'[j].id = stack[j].id /\ stack'[j].entity = stack[j].entity
        /\ i \in 1..Len(stack) /\ (i < Len(stack') \/ i = Len(stack'))
        /\ j \in 1..Len(stack) /\ j <= Len(stack)
    BY <1>6, <2>5
  <2>7. CASE i < Len(stack')
    BY <1>1, <1>8, <2>5, <2>6, <2>7
  <2>8. CASE i = Len(stack')
    <3>1. stack[i].result \in Result /\ stack[j].id \in Entities
      BY <1>2, <2>6, FrameFields
    <3>2. stack[i].result.originals[stack[j].id].exists \/ result.originals[stack[j].id].exists
      BY <1>1, <2>1, <2>5, <2>6, <2>8, <3>1, MergedTyped
    <3>3. CASE stack[j].id = Top.id
      BY <1>8, <2>4, <2>6, <3>3
    <3>4. CASE stack[j].id # Top.id /\ result.originals[stack[j].id].exists
      <4>1. Top.result.originals[stack[j].id].exists
        BY <2>1, <3>1, <3>4
      <4>2. OutdatedAt(Len(stack))
        BY <1>4, <2>3
      <4>3. stack[j].entity.rev < db[stack[j].id].rev
        BY <2>3, <2>6, <4>1, <4>2 DEF OutdatedAt
      <4> QED
        BY <1>8, <2>6, <4>3
    <3>5. CASE stack[i].result.originals[stack[j].id].exists
      BY <1>8, <2>6, <3>5
    <3> QED
      BY <3>2, <3>3, <3>4, <3>5
  <2> QED
    BY <2>6, <2>7, <2>8
<1>17. (\E x \in Entities : OtherEdit(x)) \/ UNCHANGED vars => UNCHANGED stack
  BY <1>2, OtherEditDoes DEF vars
<1> QED
  BY <1>1, <1>3, <1>9, <1>11, <1>12, <1>13, <1>14, <1>15, <1>16, <1>17, DeleteSteps

-----------------------------------------------------------------------------
(***************************************************************************)
(* What undoing would bring back                                           *)
(***************************************************************************)

\* The original of a record that a frame has found, or, at 0, the action
Kept(i, e) == IF i = 0 THEN action.result.originals[e] ELSE stack[i].result.originals[e]

\* The state of a record when the action ended here and was undone: the original found
\* outermost, which mergeResults() prefers, or else what is stored.
Restored(e, r) ==
    \/ /\ \A i \in 0..Len(stack) : ~Kept(i, e).exists
       /\ r = db[e]
    \/ \E i \in 0..Len(stack) :
          Kept(i, e).exists /\ r = Kept(i, e) /\ \A j \in 0..(i - 1) : ~Kept(j, e).exists

\* The same data, perhaps in another revision
Same(r, q) ==
    /\ r.exists = q.exists /\ r.refs = q.refs
    /\ r.personal = q.personal /\ r.anonymized = q.anonymized

\* Undoing would bring every record back that was there, and as it was, unless another
\* user has edited it.
Restorable ==
    action.state \notin {"failed", "aborted", "undoFailed"} =>
        \A e \in Entities : \A r : Restored(e, r) =>
            r.exists /\ (e \notin edited => Same(r, before[e]))

Repaired == action.state = "undone" => \A e \in Entities : ~action.result.originals[e].exists

\* A step after which undoing would bring the same back, or what another user has made
\* of it
Preserves(e) ==
    \A r : Restored(e, r)' =>
        \/ \E q : Restored(e, q) /\ Same(r, q)
        \/ e \in edited' /\ r.exists

\* Records and the frames they are kept in
LEMMA KeptTyped ==
  ASSUME TypeOK
  PROVE  /\ Len(stack) \in Nat
         /\ \A e \in Entities : /\ \A i \in 0..Len(stack) : Kept(i, e) \in Record
                                /\ Kept(0, e) = action.result.originals[e]
                                /\ \A i \in 1..Len(stack) : Kept(i, e) = stack[i].result.originals[e]
<1>1. action.result.originals \in [Entities -> Record]
  BY ActionFields, ResultFields DEF TypeOK
<1>2. Len(stack) \in Nat /\ \A i \in 1..Len(stack) : stack[i] \in Frame
  BY DEF TypeOK
<1>3. \A i \in 1..Len(stack) : stack[i].result.originals \in [Entities -> Record]
  BY <1>2, FrameFields, ResultFields
<1>4. \A i \in 0..Len(stack) : i = 0 \/ (i \in 1..Len(stack) /\ i # 0)
  BY <1>2
<1>5. 0 \notin 1..Len(stack)
  BY <1>2
<1> QED
  BY <1>1, <1>2, <1>3, <1>4, <1>5 DEF Kept

\* All is kept where it was.
LEMMA PreservesKept ==
  ASSUME TypeOK, NEW e \in Entities, Len(stack') = Len(stack), db'[e] = db[e],
         \A i \in 0..Len(stack) : Kept(i, e)' = Kept(i, e)
  PROVE  Preserves(e)
<1>1. \A r : Restored(e, r)' => Restored(e, r)
  <2> SUFFICES ASSUME NEW r, Restored(e, r)' PROVE Restored(e, r)
    OBVIOUS
  <2>1. \A i \in 0..Len(stack) : \A j \in 0..(i - 1) : j \in 0..Len(stack)
    BY KeptTyped
  <2> QED
    BY <2>1 DEF Restored
<1> QED
  BY <1>1 DEF Preserves, Same

\* A new frame keeps nothing.
LEMMA PreservesEntered ==
  ASSUME TypeOK, NEW e \in Entities, NEW n \in Nat, Len(stack) = n, Len(stack') = n + 1,
         db'[e] = db[e], \A i \in 0..n : Kept(i, e)' = Kept(i, e), ~Kept(n + 1, e)'.exists
  PROVE  Preserves(e)
<1>1. \A r : Restored(e, r)' => Restored(e, r)
  <2> SUFFICES ASSUME NEW r, Restored(e, r)' PROVE Restored(e, r)
    OBVIOUS
  <2>1. \A i \in 0..n : \A j \in 0..(i - 1) : j \in 0..n
    OBVIOUS
  <2>2. /\ \A i \in 0..n : i \in 0..(n + 1)
        /\ \A i \in 0..(n + 1) : i \in 0..n \/ i = n + 1
    OBVIOUS
  <2>3. CASE \A i \in 0..(n + 1) : ~Kept(i, e)'.exists
    BY <2>2, <2>3 DEF Restored
  <2>4. ASSUME NEW i \in 0..(n + 1), Kept(i, e)'.exists, r = Kept(i, e)',
               \A j \in 0..(i - 1) : ~Kept(j, e)'.exists
        PROVE  Restored(e, r)
    <3>1. i \in 0..n
      <4>1. i # n + 1
        BY <2>4
      <4>2. i \in 0..(n + 1)
        BY <2>4
      <4> QED
        BY <2>2, <4>1, <4>2
    <3> QED
      BY <2>1, <2>4, <3>1 DEF Restored
  <2> QED
    BY <2>3, <2>4 DEF Restored
<1> QED
  BY <1>1 DEF Preserves, Same

\* The innermost frame finds a record that nobody has found yet, as it is stored.
LEMMA PreservesFound ==
  ASSUME TypeOK, NEW e \in Entities, NEW n \in Nat \ {0}, Len(stack) = n, Len(stack') = n,
         \A i \in 0..(n - 1) : Kept(i, e)' = Kept(i, e),
         \/ Kept(n, e)' = Kept(n, e) /\ db'[e] = db[e]
         \/ Kept(n, e)' = Kept(n, e) /\ Kept(n, e).exists
         \/ Kept(n, e)' = db[e] /\ ~Kept(n, e).exists /\ db[e].exists
  PROVE  Preserves(e)
<1>1. n \in Nat \ {0}
  OBVIOUS
<1>2. /\ \A i \in 0..n : i \in 0..(n - 1) \/ i = n
      /\ \A i \in 0..(n - 1) : i \in 0..n
      /\ n \in 0..n
      /\ \A i \in 0..n : \A j \in 0..(i - 1) : j \in 0..(n - 1)
  BY <1>1
<1>3. \A r : Restored(e, r)' => Restored(e, r)
  <2> SUFFICES ASSUME NEW r, Restored(e, r)' PROVE Restored(e, r)
    OBVIOUS
  <2>1. \/ Kept(n, e)' = Kept(n, e) /\ db'[e] = db[e]
        \/ Kept(n, e)' = Kept(n, e) /\ Kept(n, e).exists
        \/ Kept(n, e)' = db[e] /\ ~Kept(n, e).exists /\ db[e].exists
    OBVIOUS
  <2>2. \A i \in 0..(n - 1) : Kept(i, e)' = Kept(i, e)
    OBVIOUS
  <2>3. \/ /\ \A i \in 0..n : ~Kept(i, e)'.exists
           /\ r = db'[e]
        \/ \E i \in 0..n :
              Kept(i, e)'.exists /\ r = Kept(i, e)' /\ \A j \in 0..(i - 1) : ~Kept(j, e)'.exists
    BY DEF Restored
  <2>4. \/ /\ \A i \in 0..n : ~Kept(i, e).exists
           /\ r = db[e]
        \/ \E i \in 0..n :
              Kept(i, e).exists /\ r = Kept(i, e) /\ \A j \in 0..(i - 1) : ~Kept(j, e).exists
    <3>1. CASE \A i \in 0..n : ~Kept(i, e)'.exists /\ r = db'[e]
      BY <1>2, <2>1, <2>2, <3>1
    <3>2. ASSUME NEW i \in 0..n, Kept(i, e)'.exists, r = Kept(i, e)',
                 \A j \in 0..(i - 1) : ~Kept(j, e)'.exists
          PROVE  \/ /\ \A k \in 0..n : ~Kept(k, e).exists
                    /\ r = db[e]
                 \/ \E k \in 0..n :
                       Kept(k, e).exists /\ r = Kept(k, e) /\ \A j \in 0..(k - 1) : ~Kept(j, e).exists
      <4>1. \A j \in 0..(i - 1) : ~Kept(j, e).exists
        BY <1>2, <2>2, <3>2
      <4>2. CASE Kept(i, e)' = Kept(i, e)
        BY <3>2, <4>1, <4>2
      <4>3. CASE i = n /\ Kept(n, e)' = db[e] /\ ~Kept(n, e).exists
        BY <1>2, <3>2, <4>1, <4>3
      <4> QED
        BY <1>2, <2>1, <2>2, <4>2, <4>3
    <3> QED
      BY <2>3, <3>1, <3>2
  <2> QED
    BY <2>4 DEF Restored
<1> QED
  BY <1>3 DEF Preserves, Same

\* The innermost frame returns what it has found, and a record as it is stored.
LEMMA PreservesReturned ==
  ASSUME TypeOK, NEW e \in Entities, NEW n \in Nat \ {0}, Len(stack) = n, Len(stack') = n - 1,
         NEW found, \A i \in 0..(n - 2) : Kept(i, e)' = Kept(i, e),
         Kept(n - 1, e)' = IF Kept(n - 1, e).exists THEN Kept(n - 1, e) ELSE found,
         \/ found = Kept(n, e) /\ db'[e] = db[e]
         \/ found = db[e] /\ found.exists /\ ~Kept(n, e).exists
  PROVE  Preserves(e)
<1>1. n \in Nat \ {0}
  OBVIOUS
<1>2. /\ \A i \in 0..n : i \in 0..(n - 2) \/ i = n - 1 \/ i = n
      /\ \A i \in 0..(n - 1) : i \in 0..n /\ (i \in 0..(n - 2) \/ i = n - 1)
      /\ n \in 0..n /\ n - 1 \in 0..n /\ n - 1 \in 0..(n - 1)
      /\ \A i \in 0..(n - 1) : \A j \in 0..(i - 1) : j \in 0..(n - 2)
      /\ \A i \in 0..(n - 2) : i \in 0..(n - 1)
  BY <1>1
<1>3. \A r : Restored(e, r)' => Restored(e, r)
  <2> SUFFICES ASSUME NEW r, Restored(e, r)' PROVE Restored(e, r)
    OBVIOUS
  <2>1. \A i \in 0..(n - 2) : Kept(i, e)' = Kept(i, e)
    OBVIOUS
  <2>2. Kept(n - 1, e)' = IF Kept(n - 1, e).exists THEN Kept(n - 1, e) ELSE found
    OBVIOUS
  <2>3. \/ found = Kept(n, e) /\ db'[e] = db[e]
        \/ found = db[e] /\ found.exists /\ ~Kept(n, e).exists
    OBVIOUS
  <2>4. \/ /\ \A i \in 0..(n - 1) : ~Kept(i, e)'.exists
           /\ r = db'[e]
        \/ \E i \in 0..(n - 1) :
              Kept(i, e)'.exists /\ r = Kept(i, e)' /\ \A j \in 0..(i - 1) : ~Kept(j, e)'.exists
    BY DEF Restored
  <2>5. \/ /\ \A i \in 0..n : ~Kept(i, e).exists
           /\ r = db[e]
        \/ \E i \in 0..n :
              Kept(i, e).exists /\ r = Kept(i, e) /\ \A j \in 0..(i - 1) : ~Kept(j, e).exists
    <3>1. CASE \A i \in 0..(n - 1) : ~Kept(i, e)'.exists /\ r = db'[e]
      <4>1. ~Kept(n - 1, e).exists /\ ~found.exists /\ ~Kept(n, e).exists /\ db'[e] = db[e]
        <5>1. ~Kept(n - 1, e)'.exists
          BY <1>2, <3>1
        <5>2. ~Kept(n - 1, e).exists /\ ~found.exists
          BY <2>2, <5>1
        <5> QED
          BY <2>3, <5>2
      <4>2. \A i \in 0..(n - 2) : ~Kept(i, e).exists
        BY <1>2, <2>1, <3>1
      <4>3. r = db'[e]
        BY <1>2, <3>1
      <4> QED
        BY <1>2, <4>1, <4>2, <4>3
    <3>2. ASSUME NEW i \in 0..(n - 1), Kept(i, e)'.exists, r = Kept(i, e)',
                 \A j \in 0..(i - 1) : ~Kept(j, e)'.exists
          PROVE  \/ /\ \A k \in 0..n : ~Kept(k, e).exists
                    /\ r = db[e]
                 \/ \E k \in 0..n :
                       Kept(k, e).exists /\ r = Kept(k, e) /\ \A j \in 0..(k - 1) : ~Kept(j, e).exists
      <4>1. \A j \in 0..(i - 1) : ~Kept(j, e).exists
        BY <1>2, <2>1, <3>2
      <4>2. CASE Kept(i, e)' = Kept(i, e)
        BY <1>2, <3>2, <4>1, <4>2
      <4>3. CASE i = n - 1 /\ Kept(i, e)' = found /\ ~Kept(n - 1, e).exists
        <5>1. /\ \A j \in 0..(n - 1) : ~Kept(j, e).exists
              /\ \A k \in 0..n : k \in 0..(n - 1) \/ k = n
          <6>1. \A j \in 0..(n - 1) : j \in 0..(i - 1) \/ j = n - 1
            BY <1>1, <4>3
          <6> QED
            BY <1>1, <4>1, <4>3, <6>1
        <5>2. r = found /\ found.exists
          BY <3>2, <4>3
        <5>3. CASE found = Kept(n, e)
          BY <1>2, <5>1, <5>2, <5>3
        <5>4. CASE found = db[e] /\ ~Kept(n, e).exists
          BY <1>2, <5>1, <5>2, <5>4
        <5> QED
          BY <2>3, <5>3, <5>4
      <4>4. CASE i \in 0..(n - 2)
        BY <2>1, <4>2, <4>4
      <4>5. CASE i = n - 1
        BY <2>2, <4>2, <4>3, <4>5
      <4> QED
        BY <1>2, <4>4, <4>5
    <3> QED
      BY <2>4, <3>1, <3>2
  <2> QED
    BY <2>5 DEF Restored
<1> QED
  BY <1>3 DEF Preserves, Same

\* Neither before nor after anything is kept in the innermost frame.
LEMMA PreservesNothing ==
  ASSUME TypeOK, NEW e \in Entities, NEW n \in Nat \ {0}, Len(stack) = n, Len(stack') = n,
         \A i \in 0..(n - 1) : Kept(i, e)' = Kept(i, e), db'[e] = db[e],
         ~Kept(n, e).exists, ~Kept(n, e)'.exists
  PROVE  Preserves(e)
<1>1. /\ \A i \in 0..n : i \in 0..(n - 1) \/ i = n
      /\ \A i \in 0..(n - 1) : i \in 0..n
      /\ \A i \in 0..n : \A j \in 0..(i - 1) : j \in 0..(n - 1)
  OBVIOUS
<1>2. \A r : Restored(e, r)' => Restored(e, r)
  <2> SUFFICES ASSUME NEW r, Restored(e, r)' PROVE Restored(e, r)
    OBVIOUS
  <2>1. CASE \A i \in 0..n : ~Kept(i, e)'.exists /\ r = db'[e]
    BY <1>1, <2>1 DEF Restored
  <2>2. ASSUME NEW i \in 0..n, Kept(i, e)'.exists, r = Kept(i, e)',
               \A j \in 0..(i - 1) : ~Kept(j, e)'.exists
        PROVE  Restored(e, r)
    <3>1. i \in 0..(n - 1)
      BY <1>1, <2>2
    <3>2. \A j \in 0..(i - 1) : ~Kept(j, e).exists
      BY <1>1, <2>2
    <3> QED
      BY <1>1, <2>2, <3>1, <3>2 DEF Restored
  <2> QED
    BY <2>1, <2>2 DEF Restored
<1> QED
  BY <1>2 DEF Preserves, Same

\* What is kept where the innermost frame changes
LEMMA KeptReplaced ==
  ASSUME TypeOK, stack # <<>>, NEW x \in Frame, ReplacesTop(x), UNCHANGED action,
         NEW e \in Entities, NEW n, n = Len(stack)
  PROVE  /\ n \in Nat \ {0} /\ Len(stack') = n
         /\ \A i \in 0..(n - 1) : Kept(i, e)' = Kept(i, e)
         /\ Kept(n, e)' = x.result.originals[e] /\ Kept(n, e) = Top.result.originals[e]
<1>1. n \in Nat \ {0} /\ Len(stack') = n /\ Top = stack[n]
  BY TopTyped DEF ReplacesTop, Top
<1>2. \A i \in 1..(n - 1) : stack'[i] = stack[i]
  BY DEF ReplacesTop
<1>3. stack'[n] = x
  BY DEF ReplacesTop
<1>4. \A i \in 0..(n - 1) : i = 0 \/ i \in 1..(n - 1)
  BY <1>1
<1> QED
  BY <1>1, <1>2, <1>3, <1>4 DEF Kept

\* What is kept where the innermost frame returns
LEMMA KeptReturned ==
  ASSUME TypeOK, stack # <<>>, NEW instance, NEW result \in Result, Returns(instance, result),
         NEW e \in Entities, NEW n, n = Len(stack)
  PROVE  /\ n \in Nat \ {0} /\ Len(stack') = n - 1
         /\ \A i \in 0..(n - 2) : Kept(i, e)' = Kept(i, e)
         /\ Kept(n - 1, e)' = IF Kept(n - 1, e).exists THEN Kept(n - 1, e)
                              ELSE result.originals[e]
         /\ Kept(n, e) = Top.result.originals[e]
<1>1. n \in Nat \ {0} /\ Len(stack') = n - 1 /\ Top = stack[n] /\ action.result \in Result
  BY TopTyped, ActionFields DEF Returns, Top, TypeOK
<1>2. CASE n = 1
  <2>1. /\ action'.result = MergeResults(action.result, result)
        /\ n - 1 = 0 /\ 0..(n - 2) = {}
    BY <1>1, <1>2 DEF Returns
  <2> QED
    BY <1>1, <1>2, <2>1, MergedTyped DEF Kept
<1>3. CASE n # 1
  <2>1. /\ action'.result = action.result /\ Caller = stack[n - 1]
        /\ stack'[n - 1].result = MergeResults(stack[n - 1].result, result)
    BY <1>3 DEF Returns, Caller
  <2>2. \A i \in 1..(n - 2) : stack'[i] = stack[i]
    BY DEF Returns
  <2>3. stack[n - 1] \in Frame
    BY <1>3, <2>1, TopTyped
  <2>4. \A k \in Entities : stack'[n - 1].result.originals[k] =
           IF stack[n - 1].result.originals[k].exists THEN stack[n - 1].result.originals[k]
           ELSE result.originals[k]
    BY <2>1, <2>3, FrameFields, MergedTyped
  <2>5. /\ \A i \in 0..(n - 2) : i = 0 \/ i \in 1..(n - 2)
        /\ n - 1 # 0 /\ n # 0
    BY <1>1, <1>3
  <2>6. \A i \in 0..(n - 2) : Kept(i, e)' = Kept(i, e)
    BY <2>1, <2>2, <2>5 DEF Kept
  <2>7. Kept(n - 1, e) = stack[n - 1].result.originals[e] /\ Kept(n, e) = stack[n].result.originals[e]
    BY <2>5 DEF Kept
  <2>8. ASSUME NEW m, m # 0 PROVE Kept(m, e)' = stack'[m].result.originals[e]
    BY <2>8 DEF Kept
  <2>9. Kept(n - 1, e)' = stack'[n - 1].result.originals[e]
    BY <2>5, <2>8
  <2> QED
    BY <1>1, <2>4, <2>6, <2>7, <2>9
<1> QED
  BY <1>2, <1>3

\* In a cascade the original that is kept first stays what it was, and a record is kept
\* as it is stored before it is written.
LEMMA CascadePreserves ==
  ASSUME InPhase, Instances, Outdated, NEW e \in Entities,
         \/ LoadLinking \/ CompositeAction
         \/ HandleAccount \/ RemoveReference \/ RemoveRecord
         \/ SkipAnonymize \/ Anonymize \/ KeepUnchanged \/ AnonymizeReturns
  PROVE  Preserves(e)
<1>1. TypeOK /\ db \in [Entities -> Record]
  BY DEF InPhase, TypeOK
<1>2. PICK n : n = Len(stack)
  OBVIOUS
<1>3. stack # <<>>
  BY <1>1, LoadLinkingDoes, CompositeActionDoes DEF HandleAccount, RemoveReference, RemoveRecord,
     SkipAnonymize, Anonymize, KeepUnchanged, AnonymizeReturns, Running
<1>4. n \in Nat \ {0} /\ n \in 1..Len(stack) /\ stack[n] = Top /\ Top \in Frame
      /\ Top.id \in Entities /\ Top.result \in Result /\ Top.entity \in Record
  BY <1>1, <1>2, <1>3, TopTyped, FrameFields DEF Top
\* The innermost frame keeps what it has kept.
<1>5. ASSUME NEW x \in Frame, ReplacesTop(x), x.result.originals = Top.result.originals,
             UNCHANGED <<db, action>>
      PROVE  Preserves(e)
  BY <1>1, <1>2, <1>3, <1>5, KeptReplaced, PreservesFound
<1>6. LoadLinking => \E x \in Frame : ReplacesTop(x) /\ x.result.originals = Top.result.originals
                                      /\ UNCHANGED <<db, action>>
  BY <1>1, LoadLinkingDoes
<1>7. HandleAccount => \E x \in Frame : ReplacesTop(x) /\ x.result.originals = Top.result.originals
                                        /\ UNCHANGED <<db, action>>
  BY <1>1, HandleAccountDoes
<1>8. KeepUnchanged => \E x \in Frame : ReplacesTop(x) /\ x.result.originals = Top.result.originals
                                        /\ UNCHANGED <<db, action>>
  BY <1>1, KeepUnchangedDoes
<1>9. CASE CompositeAction
  <2>1. /\ UNCHANGED <<db, action>> /\ Len(stack') = n + 1
        /\ \A i \in 1..(n - 1) : stack'[i] = stack[i]
        /\ stack'[n].result = Top.result /\ stack'[n + 1].result = NoResult
    BY <1>1, <1>2, <1>9, CompositeActionDoes DEF Begins
  <2>2. /\ \A i \in 0..n : i = 0 \/ i \in 1..(n - 1) \/ i = n
        /\ n + 1 # 0
    BY <1>4
  <2>3. \A i \in 0..n : Kept(i, e)' = Kept(i, e)
    BY <1>4, <2>1, <2>2 DEF Kept
  <2>4. ~Kept(n + 1, e)'.exists
    BY <2>1, <2>2, NoResultTyped DEF Kept
  <2> QED
    BY <1>1, <1>2, <1>4, <2>1, <2>3, <2>4, PreservesEntered
<1>10. CASE RemoveReference
  <2>1. PICK changed \in Record, x \in Frame :
               /\ db' = [db EXCEPT ![Next1.id] = changed]
               /\ ReplacesTop(x)
               /\ Finds(x.result, Top.result, Next1.id, Affected)
               /\ UNCHANGED action /\ Cascading /\ Affected.rev = db[Next1.id].rev
    BY <1>1, <1>10, RemoveReferenceDoes
  <2>2. Affected = db[Next1.id] /\ Affected.exists
    BY <1>1, <1>3, <2>1, SavesLatest
  <2>3. /\ Len(stack') = n /\ \A i \in 0..(n - 1) : Kept(i, e)' = Kept(i, e)
        /\ Kept(n, e)' = x.result.originals[e] /\ Kept(n, e) = Top.result.originals[e]
    BY <1>1, <1>2, <1>3, <2>1, KeptReplaced
  <2>4. /\ Top.result.originals[e].exists => x.result.originals[e] = Top.result.originals[e]
        /\ ~Top.result.originals[e].exists =>
              IF e = Next1.id THEN x.result.originals[e] = Affected
              ELSE ~x.result.originals[e].exists
    BY <2>1 DEF Finds
  <2>5. e # Next1.id => db'[e] = db[e]
    BY <1>1, <2>1
  <2>6. CASE e = Next1.id \/ Top.result.originals[e].exists
    BY <1>1, <1>2, <1>4, <2>2, <2>3, <2>4, <2>6, PreservesFound
  <2>7. CASE e # Next1.id /\ ~Top.result.originals[e].exists
    BY <1>1, <1>2, <1>4, <2>3, <2>4, <2>5, <2>7, PreservesNothing
  <2> QED
    BY <2>6, <2>7
<1>11. CASE Anonymize
  <2>1. PICK changed \in Record, x \in Frame :
               /\ db' = [db EXCEPT ![Top.id] = changed]
               /\ ReplacesTop(x) /\ x.result = Changed(Top.id, Top.entity)
               /\ UNCHANGED action /\ Top.entity.rev = db[Top.id].rev /\ Top.pc = "begin"
    BY <1>1, <1>11, AnonymizeDoes
  <2>2. Top.entity = db[Top.id] /\ Top.entity.exists
    BY <1>1, <1>3, <2>1, SavesLatest
  <2>3. /\ Len(stack') = n /\ \A i \in 0..(n - 1) : Kept(i, e)' = Kept(i, e)
        /\ Kept(n, e)' = x.result.originals[e] /\ Kept(n, e) = Top.result.originals[e]
    BY <1>1, <1>2, <1>3, <2>1, KeptReplaced
  <2>4. ~Top.result.originals[e].exists
    <3>1. Top.result = NoResult
      BY <1>4, <2>1 DEF InPhase, Frames, FrameOK
    <3> QED
      BY <3>1, NoResultTyped
  <2>5. CASE e = Top.id
    <3>1. Kept(n, e)' = db[e]
      BY <1>4, <2>1, <2>2, <2>3, <2>5, ChangedTyped
    <3> QED
      BY <1>1, <1>2, <1>4, <2>2, <2>3, <2>4, <2>5, <3>1, PreservesFound
  <2>6. CASE e # Top.id
    <3>1. ~x.result.originals[e].exists /\ db'[e] = db[e]
      BY <1>1, <1>4, <2>1, <2>6, ChangedTyped
    <3> QED
      BY <1>1, <1>2, <1>4, <2>3, <2>4, <3>1, PreservesNothing
  <2> QED
    BY <2>5, <2>6
\* The innermost frame returns what it has kept.
<1>12. ASSUME NEW result \in Result, Returns(Top.entity, result), UNCHANGED db,
              result.originals[e] = Top.result.originals[e]
       PROVE  Preserves(e)
  <2>1. /\ Len(stack') = n - 1 /\ \A i \in 0..(n - 2) : Kept(i, e)' = Kept(i, e)
        /\ Kept(n - 1, e)' = IF Kept(n - 1, e).exists THEN Kept(n - 1, e)
                             ELSE result.originals[e]
        /\ Kept(n, e) = Top.result.originals[e]
    BY <1>1, <1>2, <1>3, <1>12, KeptReturned
  <2> QED
    BY <1>1, <1>2, <1>4, <1>12, <2>1, PreservesReturned
<1>13. CASE SkipAnonymize
  <2>1. Returns(Top.entity, NoResult) /\ Top.pc = "begin" /\ UNCHANGED db
    BY <1>1, <1>13, SkipAnonymizeDoes
  <2>2. Top.result = NoResult
    BY <1>4, <2>1 DEF InPhase, Frames, FrameOK
  <2> QED
    BY <1>12, <2>1, <2>2, NoResultTyped
<1>14. CASE AnonymizeReturns
  BY <1>1, <1>4, <1>12, <1>14, AnonymizeReturnsDoes
<1>15. CASE RemoveRecord
  <2>1. PICK result \in Result :
               /\ Returns(Top.entity, result)
               /\ \A x \in Entities :
                     /\ x = Top.id /\ Top.entity.exists => result.originals[x] = Top.entity
                     /\ x # Top.id => result.originals[x] = Top.result.originals[x]
    BY <1>1, <1>15, RemoveRecordDoes
  <2>2. /\ db' = [db EXCEPT ![Top.id] = Tombstone(Top.id)] /\ action.kind = "delete"
        /\ Top.entity.rev = db[Top.id].rev
    BY <1>1, <1>15, RemoveRecordDoes DEF Running
  <2>3. Top.entity = db[Top.id] /\ Top.entity.exists
    BY <1>1, <1>3, <2>2, SavesLatest
  <2>4. /\ Len(stack') = n - 1 /\ \A i \in 0..(n - 2) : Kept(i, e)' = Kept(i, e)
        /\ Kept(n - 1, e)' = IF Kept(n - 1, e).exists THEN Kept(n - 1, e)
                             ELSE result.originals[e]
        /\ Kept(n, e) = Top.result.originals[e]
    BY <1>1, <1>2, <1>3, <2>1, KeptReturned
  <2>5. CASE e = Top.id
    <3>1. result.originals[e] = db[e] /\ db[e].exists
      BY <2>1, <2>3, <2>5
    <3>2. ~Top.result.originals[Top.id].exists
      <4>1. OutdatedAt(n)
        BY <1>4, <2>2 DEF Outdated
      <4>2. n \in 1..n
        BY <1>4
      <4>3. Top.result.originals[Top.id].exists => Top.entity.rev < db[Top.id].rev
        BY <1>4, <4>1, <4>2 DEF OutdatedAt
      <4>4. Top.entity.rev \in Nat
        BY <1>4, RecordFields
      <4> QED
        BY <2>2, <4>3, <4>4
    <3> QED
      BY <1>1, <1>2, <1>4, <2>4, <2>5, <3>1, <3>2, PreservesReturned
  <2>6. CASE e # Top.id
    <3>1. result.originals[e] = Top.result.originals[e] /\ db'[e] = db[e]
      BY <1>1, <2>1, <2>2, <2>6
    <3> QED
      BY <1>1, <1>2, <1>4, <2>4, <3>1, PreservesReturned
  <2> QED
    BY <2>5, <2>6
<1> QED
  BY <1>5, <1>6, <1>7, <1>8, <1>9, <1>10, <1>11, <1>13, <1>14, <1>15

\* Undoing brings back what was kept, in new revisions.
LEMMA UndoPreserves ==
  ASSUME TypeOK, NEW e \in Entities, NEW E, Undoes(E), stack = <<>>
  PROVE  Preserves(e)
<1>1. /\ Len(stack) = 0 /\ Len(stack') = 0 /\ 0..0 = {0} /\ \A j \in 0..(0 - 1) : FALSE
  BY DEF Undoes
<1>2. /\ Kept(0, e) = action.result.originals[e]
      /\ Kept(0, e)' = IF e \in E THEN Missing ELSE Kept(0, e)
      /\ db'[e] = IF e \in E THEN Restore(e) ELSE db[e]
      /\ e \in E => Kept(0, e).exists
  BY DEF Undoes, Originals, Kept
<1>3. Same(Restore(e), Kept(0, e))
  BY <1>2, RestoreFields DEF Same
<1>4. \A r : Restored(e, r)' <=>
         (IF e \in E THEN r = Restore(e)
          ELSE (~Kept(0, e).exists /\ r = db[e]) \/ (Kept(0, e).exists /\ r = Kept(0, e)))
  BY <1>1, <1>2, MissingTyped DEF Restored
<1>5. \A r : Restored(e, r) <=>
         (~Kept(0, e).exists /\ r = db[e]) \/ (Kept(0, e).exists /\ r = Kept(0, e))
  BY <1>1 DEF Restored
<1>6. e \in E => Restored(e, Kept(0, e))
  BY <1>2, <1>5
<1> QED
  BY <1>3, <1>4, <1>5, <1>6 DEF Preserves, Same

\* Another user's edit of a record is kept, and leaves the others alone.
LEMMA EditPreserves ==
  ASSUME TypeOK, NEW e \in Entities, NEW x \in Entities, OtherEdit(x)
  PROVE  Preserves(e)
<1>1. PICK changed \in Record : changed.exists /\ db' = [db EXCEPT ![x] = changed]
  BY OtherEditDoes DEF EditsTo
<1>2. UNCHANGED <<action, stack>> /\ x \in edited' /\ db \in [Entities -> Record]
  BY OtherEditDoes DEF TypeOK
<1>3. \A i : Kept(i, e)' = Kept(i, e)
  BY <1>2 DEF Kept
<1>4. CASE e # x
  BY <1>1, <1>2, <1>3, <1>4, PreservesKept
<1>5. CASE e = x
  <2>1. db'[e] = changed
    BY <1>1, <1>2, <1>5
  <2> QED
    BY <1>1, <1>2, <1>3, <1>5, <2>1 DEF Preserves, Restored, Same
<1> QED
  BY <1>4, <1>5

\* What undoing would bring back is what was there before, at every moment until the
\* action fails.
LEMMA RestorableStays ==
  ASSUME InPhase, Instances, Outdated, Restorable, [Next]_vars
  PROVE  Restorable'
<1>1. SUFFICES ASSUME action'.state \notin {"failed", "aborted", "undoFailed"}, NEW e \in Entities,
                      NEW r, Restored(e, r)'
               PROVE  r.exists /\ (e \notin edited' => Same(r, before'[e]))
  BY DEF Restorable
<1>2. TypeOK /\ Phases /\ db \in [Entities -> Record]
  BY DEF InPhase, TypeOK
<1>3. Len(<<>>) = 0 /\ 0..0 = {0} /\ 0 + 1 = 1 /\ 1 # 0 /\ \A i \in 0..(0 - 1) : FALSE
  OBVIOUS
<1>4. ASSUME Preserves(e), before' = before, edited \subseteq edited',
             action.state \notin {"failed", "aborted", "undoFailed"}
      PROVE  r.exists /\ (e \notin edited' => Same(r, before'[e]))
  <2>1. CASE e \in edited' /\ r.exists
    BY <2>1
  <2>2. ASSUME NEW q, Restored(e, q), Same(r, q)
        PROVE  r.exists /\ (e \notin edited' => Same(r, before'[e]))
    <3>1. q.exists /\ (e \notin edited => Same(q, before[e]))
      BY <1>4, <2>2 DEF Restorable
    <3> QED
      BY <1>4, <2>2, <3>1 DEF Same
  <2> QED
    BY <1>1, <1>4, <2>1, <2>2 DEF Preserves
<1>5. ASSUME NEW kind \in {"delete", "anonymize"}, Start(kind)
      PROVE  r.exists /\ (e \notin edited' => Same(r, before'[e]))
  <2>1. /\ action.state = "idle" /\ UNCHANGED <<db, stack>> /\ before' = db
        /\ action'.result = action.result
    BY <1>2, <1>5, StartDoes
  <2>2. stack = <<>> /\ action.result = NoResult /\ db[e].exists
    BY <1>2, <2>1 DEF Phases
  <2>3. Len(stack') = 0 /\ ~Kept(0, e)'.exists
    BY <1>3, <2>1, <2>2, NoResultTyped DEF Kept
  <2>4. r = db[e]
    BY <1>1, <1>3, <2>1, <2>3 DEF Restored
  <2> QED
    BY <2>1, <2>2, <2>4 DEF Same
<1>6. CASE ProcessNext
  <2>1. /\ stack = <<>> /\ Len(stack') = 1 /\ stack'[1].result = NoResult
        /\ action'.result = action.result /\ UNCHANGED <<db, before, edited>>
        /\ action.state = "running"
    BY <1>2, <1>6, ProcessNextDoes DEF Begins, OnlyTheAction
  <2>2. Kept(0, e)' = Kept(0, e) /\ ~Kept(1, e)'.exists
    BY <1>3, <2>1, NoResultTyped DEF Kept
  <2>3. Preserves(e)
    BY <1>2, <1>3, <2>1, <2>2, PreservesEntered
  <2> QED
    BY <1>4, <2>1, <2>3
<1>7. CASE Complete \/ Undo \/ UndoCompletes
  <2>1. /\ UNCHANGED <<db, before, edited>> /\ action'.result = action.result
        /\ stack = <<>> /\ stack' = <<>>
        /\ action.state \in {"running", "done", "overwriting"}
    <3>1. CASE Complete
      BY <1>2, <3>1, CompleteDoes DEF OnlyTheAction, EndsWith
    <3>2. CASE Undo
      BY <1>2, <3>2, UndoDoes DEF OnlyTheAction, Phases
    <3>3. CASE UndoCompletes
      <4>1. /\ UNCHANGED <<db, before, edited, stack>> /\ action'.result = action.result
            /\ action.state = "overwriting"
        BY <1>2, <3>3, UndoEnds DEF OnlyTheAction, UndoCompletes
      <4> QED
        BY <1>2, <4>1 DEF Phases
    <3> QED
      BY <1>7, <3>1, <3>2, <3>3
  <2>2. Kept(0, e)' = Kept(0, e) /\ db'[e] = db[e] /\ Len(stack') = 0 /\ Len(stack) = 0
    BY <1>3, <2>1 DEF Kept
  <2>3. Preserves(e)
    BY <1>2, <1>3, <2>2, PreservesKept
  <2> QED
    BY <1>4, <2>1, <2>3
<1>8. CASE LoadLinking \/ CompositeAction \/ HandleAccount \/ RemoveReference \/ RemoveRecord
           \/ SkipAnonymize \/ Anonymize \/ KeepUnchanged \/ AnonymizeReturns
  <2>1. Preserves(e)
    BY <1>8, CascadePreserves
  <2>2. action.state = "running" /\ UNCHANGED <<before, edited>>
    BY <1>2, <1>8, LoadLinkingDoes, CompositeActionDoes, HandleAccountDoes, RemoveReferenceDoes,
       RemoveRecordDoes, SkipAnonymizeDoes, AnonymizeDoes, KeepUnchangedDoes, AnonymizeReturnsDoes
       DEF Keeps, Running
  <2> QED
    BY <1>4, <2>1, <2>2
<1>9. ASSUME NEW x \in Entities, OtherEdit(x)
      PROVE  r.exists /\ (e \notin edited' => Same(r, before'[e]))
  <2>1. action.state \in {"running", "done"} /\ before' = before /\ edited \subseteq edited'
    BY <1>2, <1>9, OtherEditDoes
  <2>2. Preserves(e)
    BY <1>2, <1>9, EditPreserves
  <2> QED
    BY <1>4, <2>1, <2>2
<1>10. ASSUME NEW E, Undoes(E), action.state \in {"undoing", "overwriting"}
       PROVE  r.exists /\ (e \notin edited' => Same(r, before'[e]))
  <2>1. stack = <<>> /\ UNCHANGED <<before, edited>>
    BY <1>2, <1>10 DEF Phases, Undoes
  <2>2. Preserves(e)
    BY <1>2, <1>10, <2>1, UndoPreserves
  <2> QED
    BY <1>4, <1>10, <2>1, <2>2
<1>11. CASE UndoBulk
  BY <1>2, <1>10, <1>11, UndoBulkDoes
<1>12. ASSUME NEW x \in Entities, UndoOverwrite(x)
       PROVE  r.exists /\ (e \notin edited' => Same(r, before'[e]))
  BY <1>2, <1>10, <1>12, UndoOverwriteDoes
<1>13. CASE UNCHANGED vars
  <2>1. UNCHANGED <<db, action, stack, before, edited>>
    BY <1>13 DEF vars, envVars
  <2>2. \A i : Kept(i, e)' = Kept(i, e)
    BY <2>1 DEF Kept
  <2>3. Preserves(e)
    BY <1>2, <2>1, <2>2, PreservesKept
  <2> QED
    BY <1>1, <1>4, <2>1, <2>3
<1>14. ~AccountEndsDeletion /\ ~Fail
  BY <1>1, <1>2, ThrowDoes DEF EndsWith
<1>15. ~UndoFails
  <2>1. UndoFails => action'.state = "undoFailed"
    BY <1>2, StateSet DEF UndoFails, TypeOK
  <2> QED
    BY <1>1, <2>1
<1> QED
  BY <1>5, <1>6, <1>7, <1>8, <1>9, <1>11, <1>12, <1>13, <1>14, <1>15 DEF Next, ActionStep, UndoStep

\* Undoing is complete when everything that was kept is written.
LEMMA RepairedStays ==
  ASSUME InPhase, Repaired, [Next]_vars
  PROVE  Repaired'
<1>1. SUFFICES ASSUME action'.state = "undone", NEW e \in Entities
               PROVE  ~action'.result.originals[e].exists
  BY DEF Repaired
<1>2. TypeOK
  BY DEF InPhase
<1>3. CASE UndoCompletes
  BY <1>2, <1>3, UndoEnds DEF Originals, UndoCompletes
<1>4. UNCHANGED vars \/ UndoCompletes
  <2>1. ~Start("delete") /\ ~Start("anonymize") /\ ~ProcessNext /\ ~Complete /\ ~Undo
        /\ ~AccountEndsDeletion /\ ~Fail
    BY <1>1, <1>2, StartDoes, ProcessNextDoes, CompleteDoes, UndoDoes, ThrowDoes DEF EndsWith
  <2>2. ~LoadLinking /\ ~CompositeAction /\ ~HandleAccount /\ ~RemoveReference /\ ~KeepUnchanged
        /\ ~Anonymize
    BY <1>1, <1>2, LoadLinkingDoes, CompositeActionDoes, HandleAccountDoes, RemoveReferenceDoes,
       KeepUnchangedDoes, AnonymizeDoes DEF Running
  <2>3. ~RemoveRecord /\ ~SkipAnonymize /\ ~AnonymizeReturns
    BY <1>1, <1>2, RemoveRecordDoes, SkipAnonymizeDoes, AnonymizeReturnsDoes DEF Running, Returns
  <2>4. ~UndoBulk /\ \A x \in Entities : ~UndoOverwrite(x)
    BY <1>1, <1>2, UndoBulkDoes, UndoOverwriteDoes
  <2>5. ~UndoFails
    BY <1>1, <1>2, StateSet DEF UndoFails, TypeOK
  <2>6. \A x \in Entities : ~OtherEdit(x)
    BY <1>1, <1>2, OtherEditDoes
  <2> QED
    BY <2>1, <2>2, <2>3, <2>4, <2>5, <2>6 DEF Next, ActionStep, UndoStep
<1>5. CASE UNCHANGED vars
  BY <1>1, <1>5 DEF vars, Repaired
<1> QED
  BY <1>3, <1>4, <1>5

\* The inductive invariant of undoing
UndoInv == InPhase /\ Instances /\ Outdated /\ Restorable /\ Repaired

\* It holds at first, when nothing has been done, and stays.
LEMMA UndoInvInductive == /\ Init => UndoInv
                          /\ UndoInv /\ [Next]_vars => UndoInv'
<1>1. ASSUME Init PROVE UndoInv
  <2>1. stack = <<>> /\ action = NoAction /\ InPhase /\ Instances
    BY <1>1, InitDoes, InPhaseAtFirst, InstancesAtFirst
  <2>2. Outdated /\ Repaired
    BY <2>1 DEF NoAction, Outdated, Repaired
  <2>3. ASSUME NEW e \in Entities, NEW r, Restored(e, r) PROVE r = before[e] /\ r.exists
    <3>1. Len(stack) = 0 /\ 0..0 = {0}
      BY <2>1
    <3>2. ~Kept(0, e).exists
      BY <2>1, NoResultTyped DEF Kept, NoAction
    <3>3. db = before /\ before[e].exists
      BY <2>1 DEF InPhase, Phases, NoAction
    <3> QED
      BY <2>3, <3>1, <3>2, <3>3 DEF Restored
  <2> QED
    BY <2>1, <2>2, <2>3 DEF UndoInv, Restorable, Same
<1>2. ASSUME UndoInv, [Next]_vars PROVE UndoInv'
  BY <1>2, InPhaseStays, InstancesStay, OutdatedStays, RestorableStays, RepairedStays DEF UndoInv
<1> QED
  BY <1>1, <1>2

\* Once an action is undone, each record is as it was, unless another user has edited it.
LEMMA UndoneIsRestored ==
  ASSUME UndoInv, action.state = "undone", NEW e \in Entities
  PROVE  db[e].exists /\ (e \notin edited => Same(db[e], before[e]))
<1>1. stack = <<>>
  BY DEF UndoInv, InPhase, Phases
<1>2. Len(stack) = 0 /\ 0..0 = {0}
  BY <1>1
<1>3. ~Kept(0, e).exists
  BY DEF UndoInv, Repaired, Kept
<1>4. Restored(e, db[e])
  BY <1>2, <1>3 DEF Restored
<1> QED
  BY <1>4 DEF UndoInv, Restorable

\* Undoing a completed action brings every record back that nobody else has edited, as
\* it was before, however often the cascade came across it.
THEOREM UndoCorrect == Spec => []UndoRestores
<1>1. ASSUME UndoInv PROVE UndoRestores
  <2> SUFFICES ASSUME action.state = "undone", NEW e \in Entities \ edited
               PROVE  [db[e] EXCEPT !.rev = 0] = [before[e] EXCEPT !.rev = 0]
    BY DEF UndoRestores
  <2>1. Same(db[e], before[e])
    BY <1>1, UndoneIsRestored
  <2>2. db[e] \in Record /\ before[e] \in Record
    BY <1>1 DEF UndoInv, InPhase, TypeOK
  <2> QED
    BY <2>1, <2>2 DEF Record, Same
<1> QED
  BY <1>1, UndoInvInductive, PTL DEF Spec

-----------------------------------------------------------------------------
\* Until a deletion is undone no record refers to one that is gone, unless another user
\* has linked to it.
LinksHold ==
    action.kind = "delete" /\ action.state \notin {"overwriting", "undoFailed", "undone"} =>
        \A e, x \in Entities, f \in FieldNames :
            Refers(db, e, x, f) => db[x].exists \/ x \in raced

\* A record is removed when nothing refers to it any more.
LEMMA LinksHoldStays ==
  ASSUME InPhase, Instances, Pointing, LinksHold, [Next]_vars
  PROVE  LinksHold'
<1>1. SUFFICES ASSUME action'.kind = "delete",
                      action'.state \notin {"overwriting", "undoFailed", "undone"},
                      NEW e \in Entities, NEW x \in Entities, NEW f \in FieldNames,
                      Refers(db', e, x, f)
               PROVE  db'[x].exists \/ x \in raced'
  BY DEF LinksHold
<1>2. TypeOK /\ Phases /\ db \in [Entities -> Record]
  BY DEF InPhase, TypeOK
<1>3. ASSUME Unlinks, db[x].exists => db'[x].exists, action.kind = "delete",
             action.state \notin {"overwriting", "undoFailed", "undone"}
      PROVE  db'[x].exists \/ x \in raced'
  <2>1. Refers(db, e, x, f) \/ (x \in raced' /\ db[x].exists)
    BY <1>1, <1>3 DEF Unlinks
  <2>2. Refers(db, e, x, f) => db[x].exists \/ x \in raced
    BY <1>3 DEF LinksHold
  <2> QED
    BY <1>3, <2>1, <2>2 DEF Unlinks
<1>4. ASSUME UNCHANGED <<db, raced>>, action.kind = "delete",
             action.state \notin {"overwriting", "undoFailed", "undone"}
      PROVE  db'[x].exists \/ x \in raced'
  BY <1>3, <1>4 DEF Unlinks
<1>5. ~Start("anonymize")
  BY <1>1, <1>2, StartDoes
<1>6. CASE Start("delete")
  BY <1>2, <1>6, StartDoes DEF Phases
<1>7. CASE ProcessNext \/ Complete \/ AccountEndsDeletion \/ Fail \/ Undo
  <2>1. UNCHANGED <<db, raced>> /\ action.kind = action'.kind /\ action.state \in {"running", "done"}
    BY <1>2, <1>7, ProcessNextDoes, CompleteDoes, ThrowDoes, UndoDoes DEF OnlyTheAction, EndsWith
  <2> QED
    BY <1>1, <1>4, <2>1
<1>8. CASE LoadLinking \/ CompositeAction \/ HandleAccount
  <2>1. UNCHANGED <<db, raced, action>> /\ action.state = "running"
    BY <1>2, <1>8, LoadLinkingDoes, CompositeActionDoes, HandleAccountDoes DEF Keeps, Running
  <2> QED
    BY <1>1, <1>4, <2>1
<1>9. CASE RemoveReference
  <2>1. PICK changed \in Record : /\ Unlinked(changed) /\ db' = [db EXCEPT ![Next1.id] = changed]
                                  /\ Cascading /\ stack # <<>> /\ action.state = "running"
                                  /\ UNCHANGED action
    BY <1>2, <1>9, RemoveReferenceDoes DEF Running
  <2>2. changed.exists
    BY <1>2, <2>1, SavesLatest DEF Unlinked
  <2>3. Unlinks
    BY <1>2, <1>9, ReferencesShrink
  <2>4. db[x].exists => db'[x].exists
    BY <1>2, <2>1, <2>2
  <2> QED
    BY <1>1, <1>3, <2>1, <2>3, <2>4
<1>10. CASE RemoveRecord
  <2>1. /\ db' = [db EXCEPT ![Top.id] = Tombstone(Top.id)] /\ stack # <<>>
        /\ action.kind = "delete" /\ action.state = "running"
        /\ Top.pc = "cascade" /\ Top.todo = {} /\ UNCHANGED raced
    BY <1>2, <1>10, RemoveRecordDoes DEF Running, Keeps
  <2>2. Unlinks
    BY <1>2, <1>10, ReferencesShrink
  <2>3. CASE x # Top.id
    BY <1>2, <1>3, <2>1, <2>2, <2>3
  <2>4. CASE x = Top.id
    <3>1. Len(stack) \in 1..Len(stack) /\ Top = stack[Len(stack)] /\ ~(Len(stack) < Len(stack))
      BY <1>2, <2>1, TopTyped DEF Top
    <3>2. PointingAt(Len(stack))
      BY <2>1, <3>1 DEF Pointing
    <3>3. Refers(db, e, x, f) \/ x \in raced'
      BY <1>1, <2>2 DEF Unlinks
    <3> QED
      BY <2>1, <2>4, <3>1, <3>2, <3>3 DEF PointingAt
  <2> QED
    BY <2>3, <2>4
<1>11. ASSUME NEW y \in Entities, OtherEdit(y) PROVE db'[x].exists \/ x \in raced'
  <2>1. PICK changed \in Record : changed.exists /\ db' = [db EXCEPT ![y] = changed]
    BY <1>2, <1>11, OtherEditDoes DEF EditsTo
  <2>2. UNCHANGED action /\ action.state \in {"running", "done"}
    BY <1>2, <1>11, OtherEditDoes
  <2>3. Unlinks
    BY <1>2, <1>11, ReferencesShrink
  <2>4. db[x].exists => db'[x].exists
    BY <1>2, <2>1
  <2> QED
    BY <1>1, <1>3, <2>2, <2>3, <2>4
<1>12. CASE UNCHANGED vars
  <2>1. UNCHANGED <<db, raced, action>>
    BY <1>12 DEF vars, envVars
  <2> QED
    BY <1>1, <1>4, <2>1
<1>13. ~SkipAnonymize /\ ~Anonymize /\ ~KeepUnchanged /\ ~AnonymizeReturns
  BY <1>1, <1>2, SkipAnonymizeDoes, AnonymizeDoes, KeepUnchangedDoes, AnonymizeReturnsDoes
     DEF Running, Returns
<1>14. ~UndoBulk /\ (\A y \in Entities : ~UndoOverwrite(y)) /\ ~UndoCompletes /\ ~UndoFails
  BY <1>1, <1>2, UndoBulkDoes, UndoOverwriteDoes, UndoEnds
<1> QED
  BY <1>5, <1>6, <1>7, <1>8, <1>9, <1>10, <1>11, <1>12, <1>13, <1>14 DEF Next, ActionStep, UndoStep

\* References are removed before the record they lead to: at no moment of a deletion,
\* also of one that fails or is aborted halfway, nor once it is undone, does a record
\* refer to one that is gone, unless another user has linked to it meanwhile.
THEOREM NoReferenceDangles == Spec => []NoDanglingReferences
<1> DEFINE Inv == UndoInv /\ Pointing /\ LinksHold
<1>1. Init => Inv
  <2>1. ASSUME Init PROVE Pointing /\ LinksHold
    BY <2>1, InitDoes DEF NoAction, Pointing, LinksHold
  <2> QED
    BY <2>1, UndoInvInductive
<1>2. Inv /\ [Next]_vars => Inv'
  BY UndoInvInductive, PointingStays, LinksHoldStays DEF UndoInv
<1>3. Inv => NoDanglingReferences
  BY UndoneIsRestored DEF NoDanglingReferences, LinksHold
<1> HIDE DEF Inv
<1> QED
  BY <1>1, <1>2, <1>3, PTL DEF Spec
===============================================================================
