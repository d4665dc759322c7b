-------------------------- MODULE HendlerSnapshot --------------------------
(***************************************************************************)
(* The lifetime of the published map.  mapHendler_ptr is a shared_ptr, two *)
(* words: a pointer to a map and a pointer to the counter of its owners.   *)
(* Callers copy it without mutex_task_ (Hendler.cpp:39, 51, 63) while the  *)
(* publishing task swaps it (Hendler.cpp:29), so the reads and writes of   *)
(* the words interleave.  A map is destroyed when its counter drops to 0.  *)
(***************************************************************************)
EXTENDS Integers

CONSTANTS Readers, MaxVersion   (* bound on the maps published *)

Versions == 0..MaxVersion

VARIABLES
  ptr, ctl,      (* the two words: a version each                           *)
  owners,        (* owners[v]: the counter of version v                     *)
  freed,         (* versions destroyed                                      *)
  wpc,           (* where the publishing task is                            *)
  version,       (* the version it made last, then the one it swapped out   *)
  rpc,           (* rpc[r]: where the reader is                             *)
  rptr, rctl     (* the words of the reader's copy                          *)

shared == <<ptr, ctl, owners, freed>>
reader == <<rpc, rptr, rctl>>
vars   == <<shared, wpc, version, reader>>

Init ==
  /\ ptr = 0 /\ ctl = 0
  /\ owners = [v \in Versions |-> IF v = 0 THEN 1 ELSE 0]
  /\ freed = {}
  /\ wpc = "idle"
  /\ version = 0
  /\ rpc = [r \in Readers |-> "idle"]
  /\ rptr = [r \in Readers |-> 0]
  /\ rctl = [r \in Readers |-> 0]

(* A shared_ptr that goes out of scope. *)
Release(v) ==
  /\ owners' = [owners EXCEPT ![v] = @ - 1]
  /\ freed' = IF owners[v] = 1 THEN freed \cup {v} ELSE freed

(* make_shared of a new copy *)
Make ==
  /\ wpc = "idle"
  /\ ptr < MaxVersion
  /\ version' = ptr + 1
  /\ owners' = [owners EXCEPT ![ptr + 1] = 1]
  /\ wpc' = "swapPtr"
  /\ UNCHANGED <<ptr, ctl, freed, reader>>

(* swap, word by word *)
SwapPtr ==
  /\ wpc = "swapPtr"
  /\ ptr' = version
  /\ wpc' = "swapCtl"
  /\ UNCHANGED <<ctl, owners, freed, version, reader>>

SwapCtl ==
  /\ wpc = "swapCtl"
  /\ ctl' = version
  /\ version' = ctl
  /\ wpc' = "release"
  /\ UNCHANGED <<ptr, owners, freed, reader>>

(* new_mapHendler_ptr, which holds the old map, goes out of scope. *)
ReleaseOld ==
  /\ wpc = "release"
  /\ Release(version)
  /\ wpc' = "idle"
  /\ UNCHANGED <<ptr, ctl, version, reader>>

(* auto mapHendler = mapHendler_ptr: read both words, then count. *)
ReadPtr(r) ==
  /\ rpc[r] = "idle"
  /\ rptr' = [rptr EXCEPT ![r] = ptr]
  /\ rpc' = [rpc EXCEPT ![r] = "readCtl"]
  /\ UNCHANGED <<shared, wpc, version, rctl>>

ReadCtl(r) ==
  /\ rpc[r] = "readCtl"
  /\ rctl' = [rctl EXCEPT ![r] = ctl]
  /\ rpc' = [rpc EXCEPT ![r] = "count"]
  /\ UNCHANGED <<shared, wpc, version, rptr>>

Count(r) ==
  /\ rpc[r] = "count"
  /\ owners' = [owners EXCEPT ![rctl[r]] = @ + 1]
  /\ rpc' = [rpc EXCEPT ![r] = "find"]
  /\ UNCHANGED <<ptr, ctl, freed, wpc, version, rptr, rctl>>

(* find has returned; mapHendler goes out of scope. *)
Leave(r) ==
  /\ rpc[r] = "find"
  /\ Release(rctl[r])
  /\ rpc' = [rpc EXCEPT ![r] = "idle"]
  /\ UNCHANGED <<ptr, ctl, wpc, version, rptr, rctl>>

Next ==
  \/ Make \/ SwapPtr \/ SwapCtl \/ ReleaseOld
  \/ \E r \in Readers : ReadPtr(r) \/ ReadCtl(r) \/ Count(r) \/ Leave(r)

Spec == Init /\ [][Next]_vars

(* A caller looks its handler up in a map that exists, as the example that  *)
(* says `if (auto i = H->getUniqueHendler("b"); i)` and then calls it does. *)
LookupInLiveMap == \A r \in Readers : rpc[r] = "find" => rptr[r] \notin freed
=============================================================================
