--------------------------- MODULE HendlerProofs ---------------------------
(***************************************************************************)
(* Theorems about Hendler, for every set of ids and of calls: whatever     *)
(* adds, removes and publications overlap, nothing that went away comes    *)
(* back and nothing goes away unasked.                                     *)
(***************************************************************************)
EXTENDS Hendler, FiniteSetTheorems, TLAPS

-----------------------------------------------------------------------------
(* Types *)

(* What the publishing task swaps in is what FHT_MAIN's map still is: it    *)
(* runs no closure between the copy and the swap.                           *)
CopyCurrent == mpc = "swap" => newMap = mapHendler_

Base == TypeOK /\ CopyCurrent

(* Base holds at first. *)
LEMMA BaseInit == Init => Base
BY HendlerAssumption DEF Init, Base, TypeOK, Map, CopyCurrent

(* Every step keeps Base. *)
LEMMA BaseStep == Base /\ [Next]_vars => Base'
<1> SUFFICES ASSUME Base, [Next]_vars PROVE Base'
  OBVIOUS
<1> USE DEF Base, TypeOK, CopyCurrent, Map
<1>1. ASSUME NEW c \in Calls, NEW id \in Ids,
             AddBegin(c, id) \/ RemoveBegin(c, id)
      PROVE  Base'
  BY <1>1 DEF AddBegin, RemoveBegin, Begin
<1>2. ASSUME NEW c \in Calls, Finish(c) PROVE Base'
  BY <1>2 DEF Finish, AddRefuse, AddPost, RemoveRefuse, RemovePost, Step
<1>3. ASSUME NEW c \in Calls, RunEmplace(c) PROVE Base'
  BY <1>3 DEF RunEmplace, Main
<1>4. ASSUME NEW c \in Calls, RunErase(c) PROVE Base'
  BY <1>4 DEF RunErase, Main
<1>5. ASSUME PublishCopy PROVE Base'
  BY <1>5 DEF PublishCopy, Main
<1>6. ASSUME PublishSwap PROVE Base'
  BY <1>6 DEF PublishSwap, Main
<1>7. ASSUME Destroy PROVE Base'
  BY <1>7 DEF Destroy
<1>8. ASSUME UseDestroyed PROVE Base'
  BY <1>8 DEF UseDestroyed
<1>9. ASSUME UNCHANGED vars PROVE Base'
  BY <1>9 DEF vars
<1>10. QED
  BY <1>1, <1>2, <1>3, <1>4, <1>5, <1>6, <1>7, <1>8, <1>9
     DEF Next, Run

(* Every variable keeps its type; in particular the publishing task never   *)
(* swaps in anything but a map.                                             *)
THEOREM TypeCorrect == Spec => []TypeOK
<1>1. Base => TypeOK
  BY DEF Base
<1>2. QED
  BY <1>1, BaseInit, BaseStep, PTL DEF Spec

-----------------------------------------------------------------------------
(* No resurrection: a call's function enters mapHendler_ once, when the     *)
(* call's closure runs, and only under the call's id.  So what has been     *)
(* published and is gone has left mapHendler_, and for good.                *)

Placed(map) ==
  \A id \in Ids : map[id] # NoFun => pc[map[id]] = "done" /\ arg[map[id]] = id

GoneForGood ==
  \A f \in gone : /\ pc[f] = "done"
                  /\ mapHendler_[arg[f]] # f
                  /\ mapHendler_ptr[arg[f]] # f

Past == Placed(mapHendler_) /\ Placed(mapHendler_ptr) /\ GoneForGood

(* The steps preserve Past. *)
LEMMA PastStep == Base /\ Past /\ [Next]_vars => Past'
<1> SUFFICES ASSUME Base, Past, [Next]_vars PROVE Past'
  OBVIOUS
<1> USE HendlerAssumption DEF Base, TypeOK, Map, Past, Placed, GoneForGood
<1>1. ASSUME NEW c \in Calls, NEW id \in Ids,
             AddBegin(c, id) \/ RemoveBegin(c, id)
      PROVE  Past'
  BY <1>1 DEF AddBegin, RemoveBegin, Begin
<1>2. ASSUME NEW c \in Calls, Finish(c) PROVE Past'
  BY <1>2 DEF Finish, AddRefuse, AddPost, RemoveRefuse, RemovePost, Step
<1>3. ASSUME NEW c \in Calls, RunEmplace(c) PROVE Past'
  BY <1>3 DEF RunEmplace, Main
<1>4. ASSUME NEW c \in Calls, RunErase(c) PROVE Past'
  BY <1>4 DEF RunErase, Main
<1>5. ASSUME PublishCopy PROVE Past'
  BY <1>5 DEF PublishCopy, Main
<1>6. ASSUME PublishSwap PROVE Past'
  <2>1. mapHendler_ptr' = mapHendler_ /\ UNCHANGED <<mapHendler_, pc, arg>>
    BY <1>6 DEF PublishSwap, Main, CopyCurrent
  <2>2. ASSUME NEW f \in gone', f \notin gone
        PROVE  pc[f] = "done" /\ mapHendler_[arg[f]] # f
    <3>1. PICK id \in Ids : mapHendler_ptr[id] = f /\ mapHendler_[id] # f
      BY <1>6, <2>2 DEF PublishSwap, Main, CopyCurrent
    <3>2. f \in Calls
      BY <1>6, <2>2 DEF PublishSwap
    <3>3. QED
      BY <3>1, <3>2
  <2>3. QED
    BY <2>1, <2>2
<1>7. ASSUME Destroy PROVE Past'
  BY <1>7 DEF Destroy
<1>8. ASSUME UseDestroyed PROVE Past'
  BY <1>8 DEF UseDestroyed
<1>9. ASSUME UNCHANGED vars PROVE Past'
  BY <1>9 DEF vars
<1>10. QED
  BY <1>1, <1>2, <1>3, <1>4, <1>5, <1>6, <1>7, <1>8, <1>9
     DEF Next, Run

(* And with it Past. *)
LEMMA PastHolds == Spec => [](Base /\ Past)
<1>1. Init => Past
  BY DEF Init, Past, Placed, GoneForGood
<1>2. QED
  BY <1>1, BaseInit, BaseStep, PastStep, PTL DEF Spec

(* A function that was published and then went away is never published      *)
(* again, however the calls about its id overlap.                           *)
THEOREM NoResurrectionHolds == Spec => []NoResurrection
<1>1. Base /\ Past => NoResurrection
  BY HendlerAssumption
     DEF Base, TypeOK, Map, Past, Placed, GoneForGood, NoResurrection
<1>2. QED
  BY <1>1, PastHolds, PTL

-----------------------------------------------------------------------------
(* Every loss is asked for.  The functions of an id that are lost are those *)
(* gone from the published map, and the one that still is published and has *)
(* left mapHendler_.  Only a remove's closure adds to them, and it adds one.*)

Lost(id) ==
  {f \in Calls : /\ arg[f] = id
                 /\ f \in gone \/ mapHendler_ptr[id] = f
                 /\ mapHendler_[id] # f}

Erased(id) == {c \in Calls : arg[c] = id /\ pc[c] = "erased"}

Paid == \A id \in Ids : Cardinality(Lost(id)) <= Cardinality(Erased(id))

(* A step that leaves both sets of an id alone leaves its balance alone; so *)
(* does one that adds at most one function and one remove.                  *)
LEMMA PaidByOne ==
  ASSUME NEW lost \in SUBSET Calls, NEW erased \in SUBSET Calls,
         NEW lost1 \in SUBSET Calls, NEW erased1 \in SUBSET Calls,
         Cardinality(lost) <= Cardinality(erased),
         NEW f, NEW c, c \notin erased,
         lost1 \subseteq lost \cup {f}, erased1 = erased \cup {c}
  PROVE  Cardinality(lost1) <= Cardinality(erased1)
<1>1. IsFiniteSet(lost) /\ IsFiniteSet(erased)
  BY CallsFinite, FS_Subset
<1>2. Cardinality(lost) \in Nat /\ Cardinality(erased) \in Nat
  BY <1>1, FS_CardinalityType
<1>3. Cardinality(erased1) = Cardinality(erased) + 1
  BY <1>1, FS_AddElement
<1>4. /\ IsFiniteSet(lost \cup {f})
      /\ Cardinality(lost \cup {f}) <= Cardinality(lost) + 1
  <2>1. /\ IsFiniteSet(lost \cup {f})
        /\ Cardinality(lost \cup {f}) =
             IF f \in lost THEN Cardinality(lost) ELSE Cardinality(lost) + 1
    BY <1>1, FS_AddElement
  <2>2. QED
    BY <2>1, <1>2
<1>5. /\ Cardinality(lost1) <= Cardinality(lost \cup {f})
      /\ Cardinality(lost1) \in Nat /\ Cardinality(lost \cup {f}) \in Nat
  BY <1>4, FS_Subset, FS_CardinalityType
<1>6. QED
  BY <1>2, <1>3, <1>4, <1>5

(* The steps preserve Paid. *)
LEMMA PaidStep == Base /\ Past /\ Paid /\ [Next]_vars => Paid'
<1> SUFFICES ASSUME Base, Past, Paid, [Next]_vars, NEW id \in Ids
             PROVE  Cardinality(Lost(id))' <= Cardinality(Erased(id))'
  BY DEF Paid
<1> DEFINE Kept == Lost(id)' = Lost(id) /\ Erased(id)' = Erased(id)
<1> USE HendlerAssumption DEF Base, TypeOK, Map, Past, Placed, GoneForGood
<1>k. ASSUME Kept PROVE Cardinality(Lost(id))' <= Cardinality(Erased(id))'
  BY <1>k DEF Paid
<1>1. ASSUME NEW c \in Calls, NEW i \in Ids, AddBegin(c, i) \/ RemoveBegin(c, i)
      PROVE  Kept
  <2>1. c \notin gone /\ mapHendler_ptr[id] # c
    BY <1>1 DEF AddBegin, RemoveBegin, Begin
  <2>2. QED
    BY <1>1, <2>1 DEF AddBegin, RemoveBegin, Begin, Lost, Erased
<1>2. ASSUME NEW c \in Calls, Finish(c) PROVE Kept
  BY <1>2 DEF Finish, AddRefuse, AddPost, RemoveRefuse, RemovePost, Step, Lost,
              Erased
<1>3. ASSUME NEW c \in Calls, RunEmplace(c) PROVE Kept
  <2>1. c \notin gone /\ mapHendler_ptr[id] # c
    BY <1>3 DEF RunEmplace, Main
  <2>2. \A f \in Calls : f # c => (mapHendler_'[id] # f <=> mapHendler_[id] # f)
    BY <1>3 DEF RunEmplace, Main
  <2>3. QED
    BY <1>3, <2>1, <2>2 DEF RunEmplace, Main, Lost, Erased
<1>4. ASSUME NEW c \in Calls, RunErase(c)
      PROVE  Cardinality(Lost(id))' <= Cardinality(Erased(id))'
  <2>1. CASE arg[c] # id
    <3>1. mapHendler_'[id] = mapHendler_[id]
      BY <1>4, <2>1 DEF RunErase, Main
    <3>2. Kept
      BY <1>4, <2>1, <3>1 DEF RunErase, Main, Lost, Erased
    <3>3. QED
      BY <3>2, <1>k
  <2>2. CASE arg[c] = id
    <3> HIDE DEF Base, TypeOK, Map, Past, Placed, GoneForGood
    <3>1. Lost(id)' \subseteq Lost(id) \cup {mapHendler_[id]}
      BY <1>4, <2>2 DEF RunErase, Main, Lost, Base, TypeOK, Map
    <3>2. Erased(id)' = Erased(id) \cup {c} /\ c \notin Erased(id)
      BY <1>4, <2>2 DEF RunErase, Main, Erased, Base, TypeOK
    <3>3. /\ Lost(id) \in SUBSET Calls /\ Lost(id)' \in SUBSET Calls
          /\ Erased(id) \in SUBSET Calls /\ Erased(id)' \in SUBSET Calls
      BY DEF Lost, Erased
    <3>4. Cardinality(Lost(id)) <= Cardinality(Erased(id))
      BY DEF Paid
    <3>5. QED
      BY <3>1, <3>2, <3>3, <3>4, PaidByOne
  <2>3. QED
    BY <2>1, <2>2
<1>5. ASSUME PublishCopy PROVE Kept
  BY <1>5 DEF PublishCopy, Main, Lost, Erased
<1>6. ASSUME PublishSwap PROVE Kept
  <2>1. mapHendler_ptr' = mapHendler_ /\ UNCHANGED <<mapHendler_, pc, arg>>
    BY <1>6 DEF PublishSwap, Main, CopyCurrent
  <2>2. \A f \in Calls :
          f \in gone' <=>
            \/ f \in gone
            \/ \E i \in Ids : mapHendler_ptr[i] = f /\ mapHendler_[i] # f
    BY <1>6 DEF PublishSwap, Main, CopyCurrent
  <2>3. \A f \in Calls : \A i \in Ids : mapHendler_ptr[i] = f => arg[f] = i
    OBVIOUS
  <2>4. \A f \in Calls : arg[f] = id /\ mapHendler_[id] # f =>
          (f \in gone' <=> f \in gone \/ mapHendler_ptr[id] = f)
    BY <2>2, <2>3
  <2>5. QED
    BY <2>1, <2>4 DEF Lost, Erased
<1>7. ASSUME Destroy PROVE Kept
  BY <1>7 DEF Destroy, Lost, Erased
<1>8. ASSUME UseDestroyed PROVE Kept
  BY <1>8 DEF UseDestroyed, Lost, Erased
<1>9. ASSUME UNCHANGED vars PROVE Kept
  BY <1>9 DEF vars, Lost, Erased
<1> HIDE DEF Kept
<1>10. QED
  BY <1>k, <1>1, <1>2, <1>3, <1>4, <1>5, <1>6, <1>7, <1>8, <1>9
     DEF Next, Run

(* For every published function that went away there is a remove of its id  *)
(* that returned true, and no remove pays for two.                          *)
THEOREM EveryLossAskedHolds == Spec => []EveryLossAsked
<1>1. Init => Paid
  <2>1. ASSUME Init, NEW id \in Ids PROVE Lost(id) = {} /\ Erased(id) = {}
    BY <2>1, HendlerAssumption DEF Init, Lost, Erased
  <2>2. QED
    BY <2>1, FS_EmptySet DEF Paid
<1>2. ASSUME Base, Past, Paid PROVE EveryLossAsked
  <2> SUFFICES ASSUME NEW id \in Ids
               PROVE  Cardinality({f \in gone : arg[f] = id})
                        <= Cardinality({c \in Calls :
                             arg[c] = id /\ pc[c] \in {"erase", "erased"}})
    BY DEF EveryLossAsked
  <2> DEFINE lost  == {f \in gone : arg[f] = id}
             asked == {c \in Calls :
                         arg[c] = id /\ pc[c] \in {"erase", "erased"}}
  <2>1. lost \subseteq Lost(id) /\ Erased(id) \subseteq asked
    BY <1>2 DEF Base, TypeOK, Past, GoneForGood, Lost, Erased
  <2>2. /\ IsFiniteSet(Lost(id)) /\ IsFiniteSet(asked)
        /\ IsFiniteSet(lost) /\ IsFiniteSet(Erased(id))
    BY <2>1, CallsFinite, FS_Subset DEF Lost, Erased
  <2>3. /\ Cardinality(lost) <= Cardinality(Lost(id))
        /\ Cardinality(Erased(id)) <= Cardinality(asked)
    BY <2>1, <2>2, FS_Subset
  <2>4. /\ Cardinality(lost) \in Nat /\ Cardinality(asked) \in Nat
        /\ Cardinality(Lost(id)) \in Nat /\ Cardinality(Erased(id)) \in Nat
    BY <2>2, FS_CardinalityType
  <2>5. Cardinality(Lost(id)) <= Cardinality(Erased(id))
    BY <1>2 DEF Paid
  <2>6. QED
    BY <2>3, <2>4, <2>5
<1>3. Spec => []Paid
  BY <1>1, PastHolds, PaidStep, PTL DEF Spec
<1>4. QED
  BY <1>2, <1>3, PastHolds, PTL
=============================================================================
