------------------------------ MODULE Hendler ------------------------------
(***************************************************************************)
(* The handler registry (class Hendler, Hendler.cpp).  mapHendler_ belongs *)
(* to the FHT_MAIN thread: add and remove look at a copy published in      *)
(* mapHendler_ptr and post a closure that changes mapHendler_; a recurring *)
(* task publishes a new copy when it differs.  mapList_ is the same code   *)
(* over a second map; the two share only the publishing task, and one of   *)
(* them is modelled.  get only reads the published map.                    *)
(*                                                                         *)
(* FHT_MAIN is the thread of module TaskService: one closure at a time, in *)
(* no particular order.  A caller sees the map whose pointer it read; that *)
(* this map may be destroyed under it is module HendlerSnapshot's subject. *)
(***************************************************************************)
EXTENDS Integers, FiniteSets

CONSTANTS
  Calls,     (* the calls of add and remove; the function an add brings is  *)
             (* named by its call                                           *)
  Ids,
  NoFun      (* no entry                                                    *)

ASSUME HendlerAssumption == NoFun \notin Calls /\ Ids # {}

(* Only what counts calls (EveryLossAsked) needs this one. *)
ASSUME CallsFinite == IsFiniteSet(Calls)

Map == [Ids -> Calls \cup {NoFun}]

VARIABLES
  mapHendler_,     (* touched by FHT_MAIN only                              *)
  mapHendler_ptr,  (* the published copy                                    *)
  newMap,          (* the publishing task's new_mapHendler_ptr              *)
  mpc,             (* FHT_MAIN: "free", "swap" inside the publishing task,  *)
                   (* "lost" when it has used the destroyed Hendler         *)
  destroyed,       (* ~Hendler has run                                      *)
  pc,              (* pc[c]: where the call c, then its closure, is         *)
  arg,             (* arg[c]: the id c is about                             *)
  found,           (* found[c]: that id's entry in the copy c has read      *)
  gone             (* history: functions published once and no longer       *)

vars == <<mapHendler_, mapHendler_ptr, newMap, mpc, destroyed, pc, arg, found,
          gone>>

Init ==
  /\ mapHendler_ = [id \in Ids |-> NoFun]
  /\ mapHendler_ptr = mapHendler_
  /\ newMap = mapHendler_
  /\ mpc = "free"
  /\ destroyed = FALSE
  /\ pc = [c \in Calls |-> "idle"]
  /\ arg = [c \in Calls |-> CHOOSE id \in Ids : TRUE]
  /\ found = [c \in Calls |-> NoFun]
  /\ gone = {}

-----------------------------------------------------------------------------
(* The callers *)

(* auto mapHendler = mapHendler_ptr, without mutex_task_. *)
Begin(c, op, id) ==
  /\ ~destroyed
  /\ pc[c] = "idle"
  /\ pc' = [pc EXCEPT ![c] = op]
  /\ arg' = [arg EXCEPT ![c] = id]
  /\ found' = [found EXCEPT ![c] = mapHendler_ptr[id]]
  /\ UNCHANGED <<mapHendler_, mapHendler_ptr, newMap, mpc, destroyed, gone>>

AddBegin(c, id) == Begin(c, "add", id)

RemoveBegin(c, id) == Begin(c, "remove", id)

Step(c, from, to) ==
  /\ pc[c] = from
  /\ pc' = [pc EXCEPT ![c] = to]
  /\ UNCHANGED <<mapHendler_, mapHendler_ptr, newMap, mpc, destroyed, arg,
                 found, gone>>

(* The copy has the id: add returns without a trace. *)
AddRefuse(c) == found[c] # NoFun /\ Step(c, "add", "refused")

(* It has not: add posts an emplace. *)
AddPost(c) == found[c] = NoFun /\ Step(c, "add", "emplace")

(* The copy has not the id: remove returns false. *)
RemoveRefuse(c) == found[c] = NoFun /\ Step(c, "remove", "refused")

(* It has: remove posts an erase, by id, and returns true. *)
RemovePost(c) == found[c] # NoFun /\ Step(c, "remove", "erase")

-----------------------------------------------------------------------------
(* FHT_MAIN *)

(* Its closures refer to the Hendler, and to mapHendler_ in it. *)
Main(place) == mpc = place /\ ~destroyed

(* Mutants of RunEmplace: operator[] instead of emplace; the closure        *)
(* returns CONTINUE.                                                        *)
RunAssign(c) ==
  /\ Main("free")
  /\ pc[c] = "emplace"
  /\ mapHendler_' = [mapHendler_ EXCEPT ![arg[c]] = c]
  /\ pc' = [pc EXCEPT ![c] = "done"]
  /\ UNCHANGED <<mapHendler_ptr, newMap, mpc, destroyed, arg, found, gone>>

RunEmplaceAgain(c) ==
  /\ Main("free")
  /\ pc[c] = "emplace"
  /\ mapHendler_' =
       [mapHendler_ EXCEPT ![arg[c]] = IF @ = NoFun THEN c ELSE @]
  /\ UNCHANGED <<mapHendler_ptr, newMap, mpc, destroyed, pc, arg, found, gone>>

(* emplace leaves an entry that is there alone. *)
RunEmplace(c) ==
  /\ Main("free")
  /\ pc[c] = "emplace"
  /\ mapHendler_' =
       [mapHendler_ EXCEPT ![arg[c]] = IF @ = NoFun THEN c ELSE @]
  /\ pc' = [pc EXCEPT ![c] = "done"]
  /\ UNCHANGED <<mapHendler_ptr, newMap, mpc, destroyed, arg, found, gone>>

(* Mutant of RunErase: the closure keeps the function remove found (an       *)
(* inverted comparison).                                                    *)
RunEraseOther(c) ==
  /\ Main("free")
  /\ pc[c] = "erase"
  /\ mapHendler_' =
       [mapHendler_ EXCEPT ![arg[c]] = IF @ = found[c] THEN @ ELSE NoFun]
  /\ pc' = [pc EXCEPT ![c] = "erased"]
  /\ UNCHANGED <<mapHendler_ptr, newMap, mpc, destroyed, arg, found, gone>>

RunErase(c) ==
  /\ Main("free")
  /\ pc[c] = "erase"
  /\ mapHendler_' = [mapHendler_ EXCEPT ![arg[c]] = NoFun]
  /\ pc' = [pc EXCEPT ![c] = "erased"]
  /\ UNCHANGED <<mapHendler_ptr, newMap, mpc, destroyed, arg, found, gone>>

(* Mutants of PublishCopy: the maps compared by their ids; the task swaps   *)
(* without looking whether it made a copy.                                  *)
PublishCopyIds ==
  /\ Main("free")
  /\ \E id \in Ids : (mapHendler_ptr[id] = NoFun) # (mapHendler_[id] = NoFun)
  /\ newMap' = mapHendler_
  /\ mpc' = "swap"
  /\ UNCHANGED <<mapHendler_, mapHendler_ptr, destroyed, pc, arg, found, gone>>

PublishCopyNull ==
  /\ Main("free")
  /\ newMap' = IF mapHendler_ptr = mapHendler_ THEN NoFun ELSE mapHendler_
  /\ mpc' = "swap"
  /\ UNCHANGED <<mapHendler_, mapHendler_ptr, destroyed, pc, arg, found, gone>>

(* The publishing task finds a difference and copies mapHendler_ ...        *)
(* (finding none, it changes nothing).                                      *)
PublishCopy ==
  /\ Main("free")
  /\ mapHendler_ptr # mapHendler_
  /\ newMap' = mapHendler_
  /\ mpc' = "swap"
  /\ UNCHANGED <<mapHendler_, mapHendler_ptr, destroyed, pc, arg, found, gone>>

(* ... and swaps it in. *)
PublishSwap ==
  /\ Main("swap")
  /\ mapHendler_ptr' = newMap
  /\ mpc' = "free"
  /\ gone' = gone \cup
       {f \in Calls : \E id \in Ids : mapHendler_ptr[id] = f /\ newMap[id] # f}
  /\ UNCHANGED <<mapHendler_, newMap, destroyed, pc, arg, found>>

(* ~Hendler: the last pointer to the Hendler goes, so nobody is in a call    *)
(* of it.  It sets state_task_, which the publishing task returns, and the  *)
(* members go; neither the task nor the posted closures are waited for.     *)
Destroy ==
  /\ ~destroyed
  /\ \A c \in Calls : pc[c] \notin {"add", "remove"}
  /\ destroyed' = TRUE
  /\ UNCHANGED <<mapHendler_, mapHendler_ptr, newMap, mpc, pc, arg, found,
                 gone>>

(* FHT_MAIN calls the publishing task once more, or goes on in it, and uses *)
(* what is no longer there: what follows is undefined.                      *)
UseDestroyed ==
  /\ destroyed
  /\ mpc' = "lost" /\ mpc # "lost"
  /\ UNCHANGED <<mapHendler_, mapHendler_ptr, newMap, destroyed, pc, arg,
                 found, gone>>

Finish(c) == AddRefuse(c) \/ AddPost(c) \/ RemoveRefuse(c) \/ RemovePost(c)

Run(c) == RunEmplace(c) \/ RunErase(c)

Next ==
  \/ \E c \in Calls, id \in Ids : AddBegin(c, id) \/ RemoveBegin(c, id)
  \/ \E c \in Calls : Finish(c) \/ Run(c)
  \/ PublishCopy
  \/ PublishSwap
  \/ Destroy
  \/ UseDestroyed

Spec == Init /\ [][Next]_vars

(* FHT_MAIN calls every closure and the publishing task again and again     *)
(* (TaskThread's DueTaskStarts), and a call that has begun returns.  Nobody *)
(* has to call.                                                             *)
Fairness ==
  /\ \A c \in Calls : WF_vars(Finish(c)) /\ SF_vars(Run(c))
  /\ SF_vars(PublishCopy)
  /\ WF_vars(PublishSwap)

FairSpec == Spec /\ Fairness

-----------------------------------------------------------------------------
(* Properties *)

TypeOK ==
  /\ mapHendler_ \in Map
  /\ mapHendler_ptr \in Map
  /\ newMap \in Map
  /\ mpc \in {"free", "swap", "lost"}
  /\ destroyed \in BOOLEAN
  /\ pc \in [Calls -> {"idle", "add", "remove", "refused", "emplace", "erase",
                       "done", "erased"}]
  /\ arg \in [Calls -> Ids]
  /\ found \in [Calls -> Calls \cup {NoFun}]
  /\ gone \in SUBSET Calls

(* A function that was published and then went away is never published      *)
(* again, though adds, removes and publications of the same id overlap.     *)
NoResurrection == \A id \in Ids : mapHendler_ptr[id] \notin gone

(* A published function goes away only at somebody's request: for every one *)
(* that did there is a remove of its id that returned true, and no remove   *)
(* pays for two.  An add, in particular, replaces nothing (emplace), even   *)
(* when the copy its caller read was stale.                                 *)
EveryLossAsked ==
  \A id \in Ids :
    Cardinality({f \in gone : arg[f] = id})
      <= Cardinality({c \in Calls :
                        arg[c] = id /\ pc[c] \in {"erase", "erased"}})

(* A remove that returned true takes effect, unless the Hendler is destroyed *)
(* before its closure has run: the function it found does not               *)
(* stay published.  (With NoResurrection: it is gone for good.)             *)
RemoveTakesEffect ==
  \A c \in Calls :
    pc[c] = "erase" ~> mapHendler_ptr[arg[c]] # found[c] \/ destroyed

(* When the calls stop, the published map becomes, and stays, the map the   *)
(* closures have made, whatever happened between two publications.          *)
Converges ==
  <>[]( \/ destroyed
        \/ /\ mapHendler_ptr = mapHendler_
           /\ \A c \in Calls : pc[c] \notin {"emplace", "erase"})
=============================================================================
