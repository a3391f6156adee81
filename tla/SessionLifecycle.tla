-------------------------- MODULE SessionLifecycle --------------------------
(***************************************************************************)
(* The session map as the client threads use it (client_thread.c): each    *)
(* thread creates a session for a connection, looks it up, serves the      *)
(* client, marks the session inactive and destroys it.  A thread's stage   *)
(* is                                                                      *)
(*   none     between two connections                                      *)
(*   created  session_create has returned an identifier                    *)
(*   open     session_get has returned the session: serving the client     *)
(*   ending   about to call session_destroy                                *)
(***************************************************************************)
EXTENDS SessionTable

CONSTANT Clients  \* the client threads

ASSUME ClientsAssumption == IsFiniteSet(Clients)

VARIABLES sid,    \* the session_id variable of each client thread
          stage   \* where it is

lifevars == <<sessions, next_session_id, active, active_session_count,
              peak_session_count, sid, stage>>

Stages == {"none", "created", "open", "ending"}

TypeOK ==
  /\ TableTypeOK
  /\ sid \in [Clients -> Ids \cup {NULL}]
  /\ stage \in [Clients -> Stages]

Init ==
  /\ TableInit
  /\ sid = [c \in Clients |-> NULL]
  /\ stage = [c \in Clients |-> "none"]

Create(c, i) ==
  /\ stage[c] = "none"
  /\ next_session_id <= MaxIds
  /\ session_create(i)
  /\ sid' = [sid EXCEPT ![c] = next_session_id]
  /\ stage' = [stage EXCEPT ![c] = "created"]

\* session_create returns 0: the connection is closed.
CreateFails(c) ==
  /\ stage[c] = "none"
  /\ next_session_id <= MaxIds
  /\ session_create_fails
  /\ UNCHANGED <<sid, stage>>

GetSession(c) ==
  /\ stage[c] = "created"
  /\ session_get(sid[c])
  /\ stage' = [stage EXCEPT ![c] = "open"]
  /\ UNCHANGED <<tablevars, sid>>

\* session_get returns NULL: the connection is closed, the session destroyed.
GetMisses(c) ==
  /\ stage[c] = "created"
  /\ ~ session_get(sid[c])
  /\ stage' = [stage EXCEPT ![c] = "ending"]
  /\ UNCHANGED <<tablevars, sid>>

\* The client is gone or has quit.
MarkInactive(c) ==
  /\ stage[c] = "open"
  /\ session_mark_inactive(sid[c])
  /\ stage' = [stage EXCEPT ![c] = "ending"]
  /\ UNCHANGED sid

Destroy(c) ==
  /\ stage[c] = "ending"
  /\ session_destroy(sid[c])
  /\ sid' = [sid EXCEPT ![c] = NULL]
  /\ stage' = [stage EXCEPT ![c] = "none"]

\* Every identifier below the bound is used up.
Exhausted ==
  /\ next_session_id = MaxIds + 1
  /\ \A c \in Clients : stage[c] = "none"
  /\ UNCHANGED lifevars

Next ==
  \/ \E c \in Clients :
       \/ \E i \in Index : Create(c, i)
       \/ CreateFails(c)
       \/ GetSession(c)
       \/ GetMisses(c)
       \/ MarkInactive(c)
       \/ Destroy(c)
  \/ Exhausted

Spec == Init /\ [][Next]_lifevars

-----------------------------------------------------------------------------
(* Properties *)

\* No two entries of the table hold the same session, and no two threads
\* work on the same one: an entry freed by one destroy is never freed again.
SessionsDistinct ==
  /\ \A i, j \in Index :
       sessions[i] = sessions[j] /\ sessions[i] # NULL => i = j
  /\ \A c, d \in Clients : sid[c] = sid[d] /\ sid[c] # NULL => c = d

\* The statistics: active_session_count is the number of sessions in the
\* table, also when a search misses, and never passes the peak.
StatisticsExact ==
  /\ active_session_count = Cardinality({i \in Index : sessions[i] # NULL})
  /\ active_session_count <= peak_session_count

\* session_manager.h, of session_get: "@return Session pointer if found and
\* active, NULL otherwise", "The session remains valid as long as is_active
\* is true".  A thread that serves a client finds its session, as long as no two
\* identifiers have fallen on one entry.
FirstLapLookups ==
  FirstLap => \A c \in Clients : stage[c] = "open" => session_get(sid[c])

EveryEntryOwned ==
  \A i \in Index : sessions[i] # NULL => \E c \in Clients : sid[c] = sessions[i]

\* In the first lap every session in the table belongs to a thread that will
\* destroy it: session_destroy misses none.
NoSessionLeaked == FirstLap => EveryEntryOwned

\* In the first lap, with no more client threads than entries, no connection
\* is turned away for want of an entry.
RoomForEveryClient ==
  FirstLap /\ Cardinality(Clients) <= MaxSessions =>
    \A c \in Clients :
      stage[c] = "none" => \E i \in Index : InsertsAt(next_session_id, i)
=============================================================================
