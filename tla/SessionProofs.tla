---------------------------- MODULE SessionProofs ----------------------------
(***************************************************************************)
(* What holds of the session table for every table size, every number of   *)
(* client threads and every number of connections (first part), and what   *)
(* holds until identifiers fall on one entry a second time (second part).  *)
(***************************************************************************)
EXTENDS SessionLifecycle, FiniteSetTheorems, WellFoundedInduction, TLAPS

\* The entries in use.
Occupied == {i \in Index : sessions[i] # NULL}

\* The identifiers in the table and in the threads have been handed out.
IdsHandedOut ==
  /\ \A i \in Index : sessions[i] < next_session_id
  /\ \A c \in Clients : sid[c] < next_session_id

\* A thread has an identifier exactly while it has a connection.
StageShape == \A c \in Clients : sid[c] = NULL <=> stage[c] = "none"

\* A thread's session is in the table until the thread destroys it, and active
\* until the thread marks it, whether a search finds it or not.
SessionsKept ==
  /\ \A c \in Clients : sid[c] # NULL => sid[c] \in Allocated
  /\ \A c \in Clients : stage[c] \in {"created", "open"} => sid[c] \in active

\* The inductive invariant.
IInv ==
  /\ TypeOK
  /\ IdsHandedOut
  /\ StageShape
  /\ SessionsDistinct
  /\ StatisticsExact
  /\ SessionsKept

-----------------------------------------------------------------------------
(* Facts about the table *)

\* The entries of the table are MaxSessions many.
LEMMA IndexFinite ==
  /\ IsFiniteSet(Index) /\ Cardinality(Index) = MaxSessions
  /\ IsFiniteSet(Occupied)
  /\ Cardinality(Occupied) \in 0 .. MaxSessions
<1>1. 0 \in Int /\ MaxSessions - 1 \in Int /\ MaxSessions \in Nat \ {0}
  BY MaxSessionsAssumption
<1>2. /\ IsFiniteSet(0 .. MaxSessions - 1)
      /\ Cardinality(0 .. MaxSessions - 1)
           = IF 0 > MaxSessions - 1 THEN 0 ELSE MaxSessions - 1 - 0 + 1
  BY <1>1, FS_Interval
<1>3. IsFiniteSet(Index) /\ Cardinality(Index) = MaxSessions
  BY <1>1, <1>2 DEF Index
<1>4. Occupied \subseteq Index
  BY DEF Occupied
<1>5. IsFiniteSet(Occupied) /\ Cardinality(Occupied) <= Cardinality(Index)
  BY <1>3, <1>4, FS_Subset
<1>6. Cardinality(Occupied) \in Nat
  BY <1>5, FS_CardinalityType
<1> QED
  BY <1>1, <1>3, <1>5, <1>6

\* A search that succeeds is in the table and has the right session.
LEMMA FoundInTable ==
  ASSUME NEW id \in Ids \cup {NULL}, NEW i, FindsAt(id, i)
  PROVE  i \in Index /\ sessions[i] = id /\ id # NULL
<1>1. PICK k \in Index : i = SlotOf(id, k) /\ sessions[i] = id /\ id # NULL
  BY DEF FindsAt
<1>2. id \in Nat /\ k \in Nat /\ MaxSessions \in Nat \ {0}
  BY MaxSessionsAssumption DEF Ids, NULL, Index
<1>3. ((id % MaxSessions) + k) % MaxSessions \in 0 .. MaxSessions - 1
  BY <1>2
<1> QED
  BY <1>1, <1>3 DEF SlotOf, Index

\* session_create inserts at a null entry of the table.
LEMMA InsertInTable ==
  ASSUME NEW id \in Nat, NEW i, InsertsAt(id, i)
  PROVE  i \in Index /\ sessions[i] = NULL
<1>1. PICK k \in Index : i = SlotOf(id, k) /\ sessions[i] = NULL
  BY DEF InsertsAt
<1>2. k \in Nat /\ MaxSessions \in Nat \ {0}
  BY MaxSessionsAssumption DEF Index
<1>3. ((id % MaxSessions) + k) % MaxSessions \in 0 .. MaxSessions - 1
  BY <1>2
<1> QED
  BY <1>1, <1>3 DEF SlotOf, Index

\* session_create adds one entry, and the count follows.
LEMMA CreateCounts ==
  ASSUME TypeOK, StatisticsExact, NEW i \in Index, session_create(i),
         next_session_id \in Ids
  PROVE  StatisticsExact' /\ TableTypeOK'
<1>1. sessions[i] = NULL
  BY InsertInTable DEF session_create, TypeOK, TableTypeOK, Ids
<1>2. Occupied' = Occupied \cup {i} /\ i \notin Occupied
  BY <1>1 DEF session_create, Occupied, TypeOK, TableTypeOK, Ids, NULL
<1>3. Cardinality(Occupied') = Cardinality(Occupied) + 1
  BY <1>2, IndexFinite, FS_AddElement
<1>4. Cardinality(Occupied') <= MaxSessions
  <2>1. Occupied' \subseteq Index
    BY <1>2 DEF Occupied
  <2> QED
    BY <2>1, IndexFinite, FS_Subset
<1>5. active_session_count = Cardinality(Occupied)
  BY DEF StatisticsExact, Occupied
<1>6. active_session_count' = Cardinality(Occupied')
  BY <1>3, <1>5 DEF session_create
<1>7. active_session_count' \in 0 .. MaxSessions
  BY <1>4, <1>5, <1>3, <1>6, IndexFinite
<1>8. /\ active_session_count' <= peak_session_count'
      /\ peak_session_count' \in 0 .. MaxSessions
  BY <1>7 DEF session_create, StatisticsExact, TypeOK, TableTypeOK
<1>9. StatisticsExact'
  BY <1>6, <1>8 DEF StatisticsExact, Occupied
<1>10. TableTypeOK'
  BY <1>7, <1>8, MaxSessionsAssumption DEF session_create, TypeOK, TableTypeOK, Ids
<1> QED
  BY <1>9, <1>10

\* session_destroy removes the entry it finds and no other one.
LEMMA DestroyRemoves ==
  ASSUME TypeOK, SessionsDistinct, NEW id \in Ids \cup {NULL},
         session_destroy(id), NEW i \in Index, FindsAt(id, i)
  PROVE  sessions' = [sessions EXCEPT ![i] = NULL]
<1>1. sessions[i] = id /\ id # NULL
  BY FoundInTable
<1>2. \A j \in Index : FindsAt(id, j) => j = i
  <2> SUFFICES ASSUME NEW j \in Index, FindsAt(id, j) PROVE j = i
    OBVIOUS
  <2>1. sessions[j] = id
    BY FoundInTable
  <2> QED
    BY <1>1, <2>1 DEF SessionsDistinct
<1>3. sessions' = [j \in Index |-> IF FindsAt(id, j) THEN NULL ELSE sessions[j]]
  BY DEF session_destroy
<1>4. sessions' = [j \in Index |-> IF j = i THEN NULL ELSE sessions[j]]
  BY <1>2, <1>3
<1> QED
  BY <1>4 DEF TypeOK, TableTypeOK

\* session_destroy takes one from the count exactly if it removes an entry.
LEMMA DestroyCounts ==
  ASSUME TypeOK, SessionsDistinct, StatisticsExact,
         NEW id \in Ids \cup {NULL}, session_destroy(id)
  PROVE  StatisticsExact' /\ TableTypeOK'
<1>1. CASE Reachable(id)
  <2>1. PICK i \in Index : FindsAt(id, i)
    BY <1>1 DEF Reachable
  <2>2. sessions' = [sessions EXCEPT ![i] = NULL]
    BY <2>1, DestroyRemoves
  <2>3. sessions[i] # NULL
    BY <2>1, FoundInTable
  <2>4. Occupied' = Occupied \ {i} /\ i \in Occupied
    BY <2>2, <2>3 DEF Occupied, TypeOK, TableTypeOK
  <2>5. Cardinality(Occupied') = Cardinality(Occupied) - 1
    BY <2>4, IndexFinite, FS_RemoveElement
  <2>6. Cardinality(Occupied') \in Nat
    <3>1. IsFiniteSet(Occupied')
      BY <2>4, IndexFinite, FS_RemoveElement
    <3> QED
      BY <3>1, FS_CardinalityType
  <2>7. active_session_count = Cardinality(Occupied)
    BY DEF StatisticsExact, Occupied
  <2>8. active_session_count' = Cardinality(Occupied')
    BY <1>1, <2>5, <2>6, <2>7, IndexFinite DEF session_destroy
  <2>9. active_session_count' \in 0 .. MaxSessions
    BY <2>5, <2>6, <2>8, IndexFinite, MaxSessionsAssumption
  <2>10. active_session_count' <= peak_session_count'
    BY <2>5, <2>7, <2>8, IndexFinite, MaxSessionsAssumption
    DEF session_destroy, StatisticsExact, TypeOK, TableTypeOK
  <2>11. StatisticsExact'
    BY <2>8, <2>10 DEF StatisticsExact, Occupied
  <2>12. TableTypeOK'
    BY <2>2, <2>9 DEF session_destroy, TypeOK, TableTypeOK
  <2> QED
    BY <2>11, <2>12
<1>2. CASE ~ Reachable(id)
  <2>1. \A j \in Index : ~ FindsAt(id, j)
    BY <1>2 DEF Reachable
  <2>2. sessions' = [j \in Index |-> IF FindsAt(id, j) THEN NULL ELSE sessions[j]]
    BY DEF session_destroy
  <2>3. sessions' = sessions
    BY <2>1, <2>2 DEF TypeOK, TableTypeOK
  <2> QED
    BY <1>2, <2>3 DEF session_destroy, StatisticsExact, TypeOK, TableTypeOK
<1> QED
  BY <1>1, <1>2

\* session_create adds its session to those in the table.
LEMMA CreateAllocates ==
  ASSUME TypeOK, IdsHandedOut, NEW i \in Index, session_create(i), next_session_id \in Ids
  PROVE  Allocated' = Allocated \cup {next_session_id} /\ next_session_id \notin Allocated
<1>1. next_session_id \in Nat /\ next_session_id # NULL
  BY DEF Ids, NULL
<1>2. sessions[i] = NULL
  BY <1>1, InsertInTable DEF session_create
<1>3. sessions' = [sessions EXCEPT ![i] = next_session_id]
  BY DEF session_create
<1>4. \A j \in Index : sessions[j] # next_session_id
  BY <1>1 DEF IdsHandedOut
<1> QED
  BY <1>1, <1>2, <1>3, <1>4 DEF Allocated, TypeOK, TableTypeOK

\* session_destroy takes from the table the session it finds, and no other.
LEMMA DestroyFrees ==
  ASSUME TypeOK, SessionsDistinct, NEW id \in Ids \cup {NULL}, session_destroy(id)
  PROVE  Allocated' = IF Reachable(id) THEN Allocated \ {id} ELSE Allocated
<1>1. CASE Reachable(id)
  <2>1. PICK i \in Index : FindsAt(id, i)
    BY <1>1 DEF Reachable
  <2>2. sessions' = [sessions EXCEPT ![i] = NULL] /\ sessions[i] = id /\ id # NULL
    BY <2>1, DestroyRemoves, FoundInTable
  <2>3. \A j \in Index \ {i} : sessions[j] # id
    BY <2>2 DEF SessionsDistinct
  <2> QED
    BY <1>1, <2>2, <2>3 DEF Allocated, TypeOK, TableTypeOK
<1>2. CASE ~ Reachable(id)
  <2>1. sessions' = sessions
    BY <1>2 DEF session_destroy, Reachable, TypeOK, TableTypeOK
  <2> QED
    BY <1>2, <2>1 DEF Allocated
<1> QED
  BY <1>1, <1>2

-----------------------------------------------------------------------------
(* The invariant is inductive *)

\* The empty table of session_manager_init satisfies the invariant.
LEMMA InitEstablishes == Init => IInv
<1> SUFFICES ASSUME Init PROVE IInv
  OBVIOUS
<1> USE DEF Init, TableInit
<1>1. TypeOK /\ IdsHandedOut /\ StageShape /\ SessionsDistinct
  BY MaxSessionsAssumption
  DEF TypeOK, TableTypeOK, IdsHandedOut, StageShape, SessionsDistinct, Stages, NULL
<1>2. {i \in Index : sessions[i] # NULL} = {}
  OBVIOUS
<1>3. StatisticsExact
  BY <1>2, FS_EmptySet DEF StatisticsExact
<1>4. SessionsKept
  BY DEF SessionsKept
<1> QED
  BY <1>1, <1>3, <1>4 DEF IInv

\* Every call of a client thread keeps the invariant.
LEMMA StepPreserves == IInv /\ [Next]_lifevars => IInv'
<1> SUFFICES ASSUME IInv, [Next]_lifevars
             PROVE  IInv'
  OBVIOUS
<1> USE DEF IInv
<1>1. ASSUME NEW c \in Clients, NEW i \in Index, Create(c, i)
      PROVE  IInv'
  <2> USE DEF Create
  <2>1. next_session_id \in Ids /\ next_session_id \in Nat
    BY <1>1, MaxSessionsAssumption DEF TypeOK, TableTypeOK, Ids
  <2>2. StatisticsExact' /\ TableTypeOK'
    BY <1>1, <2>1, CreateCounts
  <2>3. TypeOK'
    BY <1>1, <2>1, <2>2 DEF TypeOK, Stages
  <2>4. /\ sessions' = [sessions EXCEPT ![i] = next_session_id]
        /\ next_session_id' = next_session_id + 1
        /\ sid' = [sid EXCEPT ![c] = next_session_id]
        /\ stage' = [stage EXCEPT ![c] = "created"]
    BY <1>1 DEF session_create
  <2>5. IdsHandedOut'
    BY <2>1, <2>4 DEF IdsHandedOut, TypeOK, TableTypeOK, Ids, NULL
  <2>6. StageShape'
    BY <2>1, <2>4 DEF StageShape, TypeOK, Ids, NULL
  <2>7. SessionsDistinct'
    BY <2>1, <2>4 DEF SessionsDistinct, IdsHandedOut, TypeOK, TableTypeOK, Ids, NULL
  <2>8. SessionsKept'
    <3>1. Allocated' = Allocated \cup {next_session_id}
      BY <1>1, <2>1, CreateAllocates
    <3>2. active' = active \cup {next_session_id}
      BY <1>1 DEF session_create
    <3> QED
      BY <2>4, <3>1, <3>2 DEF SessionsKept, TypeOK
  <2> QED
    BY <2>2, <2>3, <2>5, <2>6, <2>7, <2>8
<1>2. ASSUME NEW c \in Clients, Destroy(c)
      PROVE  IInv'
  <2> USE DEF Destroy
  <2>1. sid[c] \in Ids \cup {NULL}
    BY DEF TypeOK
  <2>2. StatisticsExact' /\ TableTypeOK'
    BY <1>2, <2>1, DestroyCounts
  <2>3. /\ sessions' = [i \in Index |-> IF FindsAt(sid[c], i) THEN NULL ELSE sessions[i]]
        /\ next_session_id' = next_session_id
        /\ sid' = [sid EXCEPT ![c] = NULL]
        /\ stage' = [stage EXCEPT ![c] = "none"]
    BY <1>2 DEF session_destroy
  <2>4. \A i \in Index : sessions'[i] = NULL \/ sessions'[i] = sessions[i]
    BY <2>3
  <2>5. TypeOK'
    BY <2>2, <2>3 DEF TypeOK, Stages
  <2>6. IdsHandedOut'
    BY <2>3, <2>4 DEF IdsHandedOut, TypeOK, TableTypeOK, NULL
  <2>7. StageShape'
    BY <2>3 DEF StageShape, TypeOK
  <2>8. SessionsDistinct'
    BY <2>3, <2>4 DEF SessionsDistinct, TypeOK
  <2>9. SessionsKept'
    <3>1. \A d \in Clients \ {c} : sid[d] # NULL => sid[d] # sid[c]
      BY DEF SessionsDistinct
    <3>2. Allocated \ {sid[c]} \subseteq Allocated' /\ active \ {sid[c]} \subseteq active'
      BY <1>2, <2>1, DestroyFrees DEF session_destroy
    <3>3. \A d \in Clients : stage[d] \in {"created", "open"} => sid[d] # NULL
      BY DEF StageShape
    <3> QED
      BY <2>3, <3>1, <3>2, <3>3 DEF SessionsKept, TypeOK
  <2> QED
    BY <2>2, <2>5, <2>6, <2>7, <2>8, <2>9
<1>3. ASSUME NEW c \in Clients,
             GetSession(c) \/ GetMisses(c) \/ MarkInactive(c)
      PROVE  IInv'
  <2>1. /\ UNCHANGED <<sessions, next_session_id, active_session_count,
                       peak_session_count, sid>>
        /\ active' \subseteq active
        /\ stage[c] # "none"
        /\ \E s \in Stages \ {"none"} : stage' = [stage EXCEPT ![c] = s]
    BY <1>3 DEF GetSession, GetMisses, MarkInactive, session_mark_inactive,
                tablevars, Stages
  <2>2. SessionsKept'
    <3>1. \A d \in Clients \ {c} : sid[d] # NULL => sid[d] # sid[c]
      BY DEF SessionsDistinct
    <3>2. /\ active \ {sid[c]} \subseteq active'
          /\ stage'[c] = "open" => active' = active /\ stage[c] = "created"
          /\ stage'[c] \in {"open", "ending"}
      BY <1>3 DEF GetSession, GetMisses, MarkInactive, session_mark_inactive, tablevars, TypeOK
    <3>3. \A d \in Clients : stage[d] \in {"created", "open"} => sid[d] # NULL
      BY DEF StageShape
    <3>4. Allocated' = Allocated
      BY <2>1 DEF Allocated
    <3> QED
      BY <2>1, <3>1, <3>2, <3>3, <3>4 DEF SessionsKept, TypeOK
  <2> QED
    BY <2>1, <2>2 DEF TypeOK, TableTypeOK, IdsHandedOut, StageShape, SessionsDistinct,
                StatisticsExact
<1>4. ASSUME NEW c \in Clients, CreateFails(c)
      PROVE  IInv'
  <2>1. /\ UNCHANGED <<sessions, active, active_session_count,
                       peak_session_count, sid, stage>>
        /\ next_session_id <= MaxIds
        /\ next_session_id' \in {next_session_id, next_session_id + 1}
    BY <1>4 DEF CreateFails, session_create_fails
  <2>2. next_session_id' \in 1 .. MaxIds + 1 /\ next_session_id <= next_session_id'
    BY <2>1, MaxSessionsAssumption DEF TypeOK, TableTypeOK
  <2>3. IdsHandedOut'
    BY <2>1, <2>2, MaxSessionsAssumption
    DEF IdsHandedOut, TypeOK, TableTypeOK, Ids, NULL
  <2> QED
    BY <2>1, <2>2, <2>3 DEF TypeOK, TableTypeOK, StageShape, SessionsDistinct,
                            StatisticsExact, SessionsKept, Allocated
<1>5. CASE UNCHANGED lifevars
  BY <1>5 DEF lifevars, TypeOK, TableTypeOK, IdsHandedOut, StageShape,
              SessionsDistinct, StatisticsExact, SessionsKept, Allocated
<1> QED
  BY <1>1, <1>2, <1>3, <1>4, <1>5 DEF Next, Exhausted

-----------------------------------------------------------------------------
(* Any number of connections *)

\* Every reachable state of the session table satisfies the invariant.
THEOREM Invariance == Spec => []IInv
  BY InitEstablishes, StepPreserves, PTL DEF Spec

\* The session table and the threads' variables are well typed.
THEOREM TypeCorrect == Spec => []TypeOK
<1>1. IInv => TypeOK
  BY DEF IInv
<1> QED
  BY <1>1, Invariance, PTL

\* Identifiers are unique and the statistics are exact for ever, also after
\* the table has lost track of a session.
THEOREM TableBookkeeping == Spec => [](SessionsDistinct /\ StatisticsExact)
<1>1. IInv => SessionsDistinct /\ StatisticsExact
  BY DEF IInv
<1> QED
  BY <1>1, Invariance, PTL

\* A session is in the table and active as long as its thread serves a client:
\* nobody else marks or destroys it, even when a search loses it.
THEOREM SessionsStay == Spec => []SessionsKept
<1>1. IInv => SessionsKept
  BY DEF IInv
<1> QED
  BY <1>1, Invariance, PTL

-----------------------------------------------------------------------------
(* The first lap *)

\* A session sits in the entry its identifier hashes to, and each is a thread's.
Home ==
  /\ \A i \in Index : sessions[i] # NULL => sessions[i] % MaxSessions = i
  /\ EveryEntryOwned

\* The first MaxSessions identifiers hash to entries of their own.
LEMMA HashInjective ==
  ASSUME NEW m \in 1 .. MaxSessions, NEW n \in 1 .. MaxSessions,
         m % MaxSessions = n % MaxSessions
  PROVE  m = n
<1>1. MaxSessions \in Nat \ {0}
  BY MaxSessionsAssumption
<1>2. ASSUME NEW k \in 1 .. MaxSessions
      PROVE  k % MaxSessions = IF k = MaxSessions THEN 0 ELSE k
  BY <1>1
<1>3. m % MaxSessions = IF m = MaxSessions THEN 0 ELSE m
  BY <1>1, <1>2
<1>4. n % MaxSessions = IF n = MaxSessions THEN 0 ELSE n
  BY <1>1, <1>2
<1> QED
  BY <1>1, <1>3, <1>4

\* The first entry of a probe sequence is the hash.
LEMMA ProbeStart ==
  ASSUME NEW id \in Nat
  PROVE  SlotOf(id, 0) = id % MaxSessions /\ id % MaxSessions \in Index
<1>1. MaxSessions \in Nat \ {0}
  BY MaxSessionsAssumption
<1>2. id % MaxSessions \in 0 .. MaxSessions - 1
  BY <1>1
<1>3. ((id % MaxSessions) + 0) % MaxSessions = id % MaxSessions
  BY <1>1, <1>2
<1> QED
  BY <1>2, <1>3 DEF SlotOf, Index

\* A session that sits at the entry it hashes to is found at once.
LEMMA AllocatedReachable ==
  ASSUME IInv, Home, NEW id \in Allocated
  PROVE  id \in Ids /\ Reachable(id) /\ FindsAt(id, id % MaxSessions)
<1>1. PICK i \in Index : sessions[i] = id /\ id # NULL
  BY DEF Allocated
<1>2. id \in Ids /\ id \in Nat
  BY <1>1 DEF IInv, TypeOK, TableTypeOK, Ids
<1>3. i = id % MaxSessions
  BY <1>1 DEF Home
<1>4. 0 \in Index
  BY MaxSessionsAssumption DEF Index
<1>5. FindsAt(id, i)
  BY <1>1, <1>2, <1>3, <1>4, ProbeStart DEF FindsAt
<1> QED
  BY <1>1, <1>2, <1>3, <1>5 DEF Reachable

\* Identifiers are handed out in increasing order: laps do not come back.
LEMMA FirstLapBefore ==
  ASSUME IInv, IInv', [Next]_lifevars, FirstLap'
  PROVE  FirstLap
<1>1. /\ next_session_id \in Int /\ next_session_id' \in Int
      /\ MaxSessions \in Int
  BY MaxSessionsAssumption DEF IInv, TypeOK, TableTypeOK
<1>2. next_session_id' \in {next_session_id, next_session_id + 1}
  BY DEF Next, Create, CreateFails, GetSession, GetMisses, MarkInactive, Destroy,
     Exhausted, session_create, session_create_fails, session_mark_inactive,
     session_destroy, tablevars, lifevars
<1> QED
  BY <1>1, <1>2 DEF FirstLap

\* In the first lap every call keeps the sessions at the entries they hash to.
LEMMA HomePreserved ==
  IInv /\ (FirstLap => Home) /\ [Next]_lifevars => (FirstLap => Home)'
<1> SUFFICES ASSUME IInv, IInv', Home, [Next]_lifevars, FirstLap'
             PROVE  Home'
  BY StepPreserves, FirstLapBefore
<1>1. ASSUME NEW c \in Clients, NEW i \in Index, Create(c, i)
      PROVE  Home'
  <2> DEFINE id == next_session_id
             h == id % MaxSessions
  <2>1. id \in Ids /\ id \in Nat
    BY <1>1, MaxSessionsAssumption DEF Create, IInv, TypeOK, TableTypeOK, Ids
  <2>2. sessions[h] = NULL
    <3> SUFFICES ASSUME sessions[h] # NULL PROVE FALSE
      OBVIOUS
    <3>1. h \in Index
      BY <2>1, ProbeStart
    <3>2. sessions[h] \in Ids /\ sessions[h] % MaxSessions = h
      BY <3>1 DEF Home, IInv, TypeOK, TableTypeOK
    <3>3. sessions[h] < id /\ id <= MaxSessions
      BY <1>1, <2>1, <3>1, MaxSessionsAssumption
      DEF Create, session_create, FirstLap, IInv, IdsHandedOut
    <3>4. sessions[h] = id
      BY <2>1, <3>2, <3>3, HashInjective, MaxSessionsAssumption DEF Ids
    <3> QED
      BY <2>1, <3>3, <3>4
  <2>3. i = h
    <3>1. PICK k \in Index :
            i = SlotOf(id, k) /\ \A j \in 0 .. k - 1 : sessions[SlotOf(id, j)] # NULL
      BY <1>1 DEF Create, session_create, InsertsAt
    <3>2. k = 0
      BY <2>1, <2>2, <3>1, ProbeStart DEF Index
    <3> QED
      BY <2>1, <3>1, <3>2, ProbeStart
  <2>4. /\ sessions' = [sessions EXCEPT ![i] = id]
        /\ sid' = [sid EXCEPT ![c] = id]
    BY <1>1 DEF Create, session_create
  <2>5. sid[c] = NULL /\ id # NULL
    BY <1>1, <2>1 DEF Create, IInv, StageShape, Ids, NULL
  <2>6. \A j \in Index : sessions'[j] # NULL => sessions'[j] % MaxSessions = j
    BY <2>3, <2>4 DEF Home, IInv, TypeOK, TableTypeOK
  <2>7. EveryEntryOwned'
    <3> SUFFICES ASSUME NEW j \in Index, sessions'[j] # NULL
                 PROVE  \E d \in Clients : sid'[d] = sessions'[j]
      BY DEF EveryEntryOwned
    <3>1. CASE j = i
      BY <2>4, <3>1 DEF IInv, TypeOK, TableTypeOK
    <3>2. CASE j # i
      <4>1. sessions'[j] = sessions[j]
        BY <2>4, <3>2 DEF IInv, TypeOK, TableTypeOK
      <4>2. PICK d \in Clients : sid[d] = sessions[j]
        BY <4>1 DEF Home, EveryEntryOwned
      <4>3. d # c
        BY <2>5, <4>1, <4>2
      <4> QED
        BY <2>4, <4>1, <4>2, <4>3 DEF IInv, TypeOK
    <3> QED
      BY <3>1, <3>2
  <2> QED
    BY <2>6, <2>7 DEF Home
<1>2. ASSUME NEW c \in Clients, Destroy(c)
      PROVE  Home'
  <2> DEFINE id == sid[c]
             h == id % MaxSessions
  <2>1. id # NULL /\ id \in Allocated /\ id \in Ids
    BY <1>2 DEF Destroy, IInv, StageShape, SessionsKept, TypeOK
  <2>2. FindsAt(id, h) /\ Reachable(id) /\ h \in Index /\ sessions[h] = id
    BY <2>1, AllocatedReachable, FoundInTable
  <2>3. sessions' = [sessions EXCEPT ![h] = NULL]
    BY <1>2, <2>1, <2>2, DestroyRemoves DEF Destroy, IInv
  <2>4. sid' = [sid EXCEPT ![c] = NULL]
    BY <1>2 DEF Destroy
  <2>5. \A j \in Index \ {h} : sessions[j] # id
    BY <2>1, <2>2 DEF IInv, SessionsDistinct
  <2>6. \A j \in Index : sessions'[j] # NULL => sessions'[j] % MaxSessions = j
    BY <2>3 DEF Home, IInv, TypeOK, TableTypeOK
  <2>7. EveryEntryOwned'
    BY <2>3, <2>4, <2>5 DEF Home, EveryEntryOwned, IInv, TypeOK, TableTypeOK
  <2> QED
    BY <2>6, <2>7 DEF Home
<1>3. CASE UNCHANGED <<sessions, sid>>
  BY <1>3 DEF Home, EveryEntryOwned
<1> QED
  BY <1>1, <1>2, <1>3
  DEF Next, GetSession, GetMisses, MarkInactive, session_mark_inactive, CreateFails,
      session_create_fails, Exhausted, lifevars, tablevars

\* ... in every reachable state, next to the inductive invariant.
THEOREM HomeInvariance == Spec => [](IInv /\ (FirstLap => Home))
<1>1. Init => Home
  BY DEF Init, TableInit, Home, EveryEntryOwned
<1> QED
  BY <1>1, InitEstablishes, StepPreserves, HomePreserved, PTL DEF Spec

\* Until identifiers fall on one entry a second time a client thread always
\* finds its session, as session_manager.h says.
THEOREM LookupsSucceed == Spec => []FirstLapLookups
<1>1. IInv /\ (FirstLap => Home) => FirstLapLookups
  BY AllocatedReachable
  DEF FirstLapLookups, session_get, SessionsKept, IInv, StageShape
<1> QED
  BY <1>1, HomeInvariance, PTL

\* ... and no session is forgotten in the table.
THEOREM NothingLeaks == Spec => []NoSessionLeaked
<1>1. (FirstLap => Home) => NoSessionLeaked
  BY DEF Home, NoSessionLeaked
<1> QED
  BY <1>1, HomeInvariance, PTL

\* A non-empty set of numbers has a least element.
LEMMA LeastNumber ==
  ASSUME NEW K, K \subseteq Nat, K # {}
  PROVE  \E n \in K : \A j \in K : n <= j
<1>1. PICK n \in K : \A j \in K : ~ (<<j, n>> \in OpToRel(<, Nat))
  BY NatLessThanWellFounded, WFMin
<1>2. \A j \in K : ~ (j < n)
  BY <1>1 DEF OpToRel
<1> QED
  BY <1>2

\* If any entry is null, session_create reaches a null entry.
LEMMA NullEntryIsReached ==
  ASSUME NEW id \in Nat, NEW t \in Index, sessions[t] = NULL
  PROVE  \E i \in Index : InsertsAt(id, i)
<1> DEFINE h == id % MaxSessions
           k == IF h <= t THEN t - h ELSE t + MaxSessions - h
           K == {n \in Index : sessions[SlotOf(id, n)] = NULL}
<1>1. MaxSessions \in Nat \ {0}
  BY MaxSessionsAssumption
<1>2. h \in 0 .. MaxSessions - 1 /\ t \in 0 .. MaxSessions - 1
  BY <1>1 DEF Index
<1>3. k \in 0 .. MaxSessions - 1 /\ (h + k = t \/ h + k = t + MaxSessions)
  BY <1>1, <1>2
<1>4. SlotOf(id, k) = t
  <2> HIDE DEF h, k
  <2>1. t % MaxSessions = t /\ (t + MaxSessions) % MaxSessions = t
    BY <1>1, <1>2
  <2>2. (h + k) % MaxSessions = t
    BY <1>3, <2>1
  <2> QED
    BY <2>2 DEF SlotOf, h
<1> HIDE DEF k
<1>5. K \subseteq Nat /\ k \in K
  BY <1>1, <1>3, <1>4 DEF Index
<1>6. PICK n \in K : \A j \in K : n <= j
  BY <1>5, LeastNumber
<1>7. n \in Index /\ sessions[SlotOf(id, n)] = NULL
  BY <1>6
<1>8. ASSUME NEW j \in 0 .. n - 1
      PROVE  sessions[SlotOf(id, j)] # NULL
  BY <1>1, <1>6, <1>7, <1>8 DEF Index
<1>9. InsertsAt(id, SlotOf(id, n))
  BY <1>7, <1>8 DEF InsertsAt
<1> QED
  BY <1>9, InsertInTable

\* A thread without a connection leaves an entry over.
LEMMA SomeEntryNull ==
  ASSUME IInv, EveryEntryOwned, Cardinality(Clients) <= MaxSessions,
         NEW c \in Clients, stage[c] = "none"
  PROVE  \E t \in Index : sessions[t] = NULL
<1> SUFFICES ASSUME \A t \in Index : sessions[t] # NULL
             PROVE  FALSE
  OBVIOUS
<1> DEFINE owner == [i \in Index |-> CHOOSE d \in Clients \ {c} : sid[d] = sessions[i]]
<1>1. ASSUME NEW i \in Index
      PROVE  \E d \in Clients \ {c} : sid[d] = sessions[i]
  BY DEF EveryEntryOwned, IInv, StageShape
<1>2. \A i \in Index : owner[i] \in Clients \ {c} /\ sid[owner[i]] = sessions[i]
  BY <1>1
<1>3. owner \in [Index -> Clients \ {c}]
  BY <1>2
<1>4. /\ IsFiniteSet(Clients \ {c})
      /\ Cardinality(Clients \ {c}) = Cardinality(Clients) - 1
      /\ Cardinality(Clients) \in Nat
  BY ClientsAssumption, FS_RemoveElement, FS_CardinalityType
<1>5. IsFiniteSet(Index) /\ Cardinality(Index) = MaxSessions
  BY IndexFinite
<1>6. Cardinality(Clients \ {c}) < Cardinality(Index)
  BY <1>4, <1>5, MaxSessionsAssumption
<1> HIDE DEF owner
<1>7. PICK i \in Index, j \in Index : i # j /\ owner[i] = owner[j]
  BY <1>3, <1>4, <1>5, <1>6, FS_PigeonHole
<1>8. sessions[i] = sessions[j] /\ sessions[i] # NULL
  BY <1>2, <1>7
<1> QED
  BY <1>7, <1>8 DEF IInv, SessionsDistinct

\* ... and with no more client threads than entries session_create never
\* finds the table full.
THEOREM NobodyTurnedAway == Spec => []RoomForEveryClient
<1>1. IInv /\ (FirstLap => Home) => RoomForEveryClient
  <2> SUFFICES ASSUME IInv, Home, Cardinality(Clients) <= MaxSessions,
                      NEW c \in Clients, stage[c] = "none"
               PROVE  \E i \in Index : InsertsAt(next_session_id, i)
    BY DEF RoomForEveryClient
  <2>1. next_session_id \in Nat
    BY MaxSessionsAssumption DEF IInv, TypeOK, TableTypeOK
  <2>2. PICK t \in Index : sessions[t] = NULL
    BY SomeEntryNull DEF Home
  <2> QED
    BY <2>1, <2>2, NullEntryIsReached
<1> QED
  BY <1>1, HomeInvariance, PTL

=============================================================================
