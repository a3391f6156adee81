---------------------------- MODULE SessionTable ----------------------------
(***************************************************************************)
(* The session map of src/session/session_manager.c: an open-addressing    *)
(* table of MaxSessions pointers with linear probing and no tombstones.    *)
(* Every operation runs under manager_mtx from its first to its last       *)
(* access to the table, so each is one action here.  A session is named by *)
(* its identifier; a table entry is the identifier of the session it       *)
(* points to, NULL where it is a null pointer.                             *)
(***************************************************************************)
EXTENDS Integers, FiniteSets

CONSTANTS MaxSessions,  \* MAX_SESSIONS
          MaxIds        \* bound: the last identifier session_create hands out

NULL == 0
Index == 0 .. MaxSessions - 1
Ids == 1 .. MaxIds

ASSUME MaxSessionsAssumption == MaxSessions \in Nat \ {0} /\ MaxIds \in Nat

VARIABLES
  sessions,              \* mgr->sessions
  next_session_id,       \* mgr->next_session_id
  active,                \* the sessions whose is_active is true
  active_session_count,  \* mgr->active_session_count
  peak_session_count     \* mgr->peak_session_count

tablevars == <<sessions, next_session_id, active, active_session_count, peak_session_count>>

TableTypeOK ==
  /\ sessions \in [Index -> Ids \cup {NULL}]
  /\ next_session_id \in 1 .. MaxIds + 1
  /\ active \subseteq Ids
  /\ active_session_count \in 0 .. MaxSessions
  /\ peak_session_count \in 0 .. MaxSessions

\* session_manager_init
TableInit ==
  /\ sessions = [i \in Index |-> NULL]
  /\ next_session_id = 1
  /\ active = {}
  /\ active_session_count = 0
  /\ peak_session_count = 0

\* The sessions in the table; their memory has not been freed.
Allocated == {sessions[i] : i \in {j \in Index : sessions[j] # NULL}}

\* No two identifiers handed out so far hash to one entry.
FirstLap == next_session_id <= MaxSessions + 1

-----------------------------------------------------------------------------
(* Probing *)

\* Variant: the modulus is one too small.
SlotOfShort(id, k) == ((id % (MaxSessions - 1)) + k) % MaxSessions

\* The entry looked at after k steps, from the hash of the identifier on.
SlotOf(id, k) == ((id % MaxSessions) + k) % MaxSessions

\* Variant: no probing, whatever the entry holds is overwritten.
InsertsAtHash(id, i) == i = SlotOf(id, 0)

\* Variant: no probing, a taken entry makes the call fail.
InsertsAtFreeHash(id, i) == i = SlotOf(id, 0) /\ sessions[i] = NULL

\* session_create puts id at i: the first null entry.
InsertsAt(id, i) ==
  \E k \in Index :
    /\ i = SlotOf(id, k)
    /\ sessions[i] = NULL
    /\ \A j \in 0 .. k - 1 : sessions[SlotOf(id, j)] # NULL

\* session_get, session_mark_inactive and session_destroy find id at i: the
\* search stops at the first null entry.
FindsAt(id, i) ==
  \E k \in Index :
    /\ i = SlotOf(id, k)
    /\ id # NULL /\ sessions[i] = id
    /\ \A j \in 0 .. k - 1 : sessions[SlotOf(id, j)] \notin {NULL, id}

Reachable(id) == \E i \in Index : FindsAt(id, i)

-----------------------------------------------------------------------------
(* The operations *)

\* session_get returns the session (and not NULL).
session_get(id) == Reachable(id) /\ id \in active

\* Variant: the next session gets the same identifier.
session_create_same_id(i) ==
  /\ InsertsAt(next_session_id, i)
  /\ sessions' = [sessions EXCEPT ![i] = next_session_id]
  /\ active' = active \cup {next_session_id}
  /\ UNCHANGED next_session_id
  /\ active_session_count' = active_session_count + 1
  /\ peak_session_count' =
       IF active_session_count + 1 > peak_session_count
         THEN active_session_count + 1 ELSE peak_session_count

\* session_create succeeds and returns next_session_id.
session_create(i) ==
  /\ InsertsAt(next_session_id, i)
  /\ sessions' = [sessions EXCEPT ![i] = next_session_id]
  /\ active' = active \cup {next_session_id}
  /\ next_session_id' = next_session_id + 1
  /\ active_session_count' = active_session_count + 1
  /\ peak_session_count' =
       IF active_session_count + 1 > peak_session_count
         THEN active_session_count + 1 ELSE peak_session_count

\* session_create returns 0.  The identifier is gone when the table is full
\* or a mutex cannot be initialised, and not when calloc has failed.
session_create_fails ==
  /\ next_session_id' \in {next_session_id, next_session_id + 1}
  /\ UNCHANGED <<sessions, active, active_session_count, peak_session_count>>

session_mark_inactive(id) ==
  /\ active' = IF Reachable(id) THEN active \ {id} ELSE active
  /\ UNCHANGED <<sessions, next_session_id, active_session_count, peak_session_count>>

\* Variant: the count goes down although nothing was found.
session_destroy_counting(id) ==
  /\ sessions' = [i \in Index |-> IF FindsAt(id, i) THEN NULL ELSE sessions[i]]
  /\ active' = IF Reachable(id) THEN active \ {id} ELSE active
  /\ active_session_count' =
       IF active_session_count > 0 THEN active_session_count - 1 ELSE active_session_count
  /\ UNCHANGED <<next_session_id, peak_session_count>>

\* Variant: only an active session is found, as in session_get.
session_destroy_active(id) ==
  /\ sessions' = [i \in Index |->
                   IF FindsAt(id, i) /\ id \in active THEN NULL ELSE sessions[i]]
  /\ active' = IF Reachable(id) THEN active \ {id} ELSE active
  /\ active_session_count' =
       IF session_get(id) /\ active_session_count > 0
         THEN active_session_count - 1 ELSE active_session_count
  /\ UNCHANGED <<next_session_id, peak_session_count>>

\* Frees the session if the search finds it; its entry becomes null.
session_destroy(id) ==
  /\ sessions' = [i \in Index |-> IF FindsAt(id, i) THEN NULL ELSE sessions[i]]
  /\ active' = IF Reachable(id) THEN active \ {id} ELSE active
  /\ active_session_count' =
       IF Reachable(id) /\ active_session_count > 0
         THEN active_session_count - 1 ELSE active_session_count
  /\ UNCHANGED <<next_session_id, peak_session_count>>

\* Frees the sessions that are left; active_session_count stays as it is.
session_manager_destroy ==
  /\ sessions' = [i \in Index |-> NULL]
  /\ active' = active \ Allocated
  /\ UNCHANGED <<next_session_id, active_session_count, peak_session_count>>
=============================================================================
