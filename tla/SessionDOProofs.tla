--------------------------- MODULE SessionDOProofs ---------------------------
(***************************************************************************)
(* Proofs about one SessionDO instance, for any number of concurrent       *)
(* PATCHes, any fields and any TTLs, whether or not deleteAll() drops the  *)
(* alarm and whether or not the object may be reset inside a handler.      *)
(***************************************************************************)
EXTENDS SessionDO, TLAPS

\* Every value a session can be given has the type of a session.
LEMMA NewSessionType ==
  ASSUME NEW remembered \in BOOLEAN, NEW ttl \in {Never, TtlFor(remembered)}
  PROVE  /\ NewSession(remembered, ttl) \in Session
         /\ TtlFor(remembered) \in Ttl
  <1>1. TtlFor(remembered) \in Ttl
    BY SessionDOAssumption DEF TtlFor, Ttl
  <1>2. QED
    BY <1>1 DEF NewSession, Session

\* A session merged with permitted fields is a session.
LEMMA MergedType ==
  ASSUME NEW s \in Session \cup {NoSession}, NEW remember \in BOOLEAN,
         NEW fields \in SUBSET (AllowedFields \cup ProtectedFields)
  PROVE  /\ Merged(s, Permitted(fields), remember) \in Session
         /\ Extended(Merged(s, Permitted(fields), remember)) \in Session
  <1> DEFINE m == Merged(s, Permitted(fields), remember)
  <1>1. m \in Session
    BY DEF Merged, Permitted, Session
  <1>2. RememberedTtl \in Ttl
    BY SessionDOAssumption DEF Ttl
  <1>3. Extended(m) \in Session
    BY <1>1, <1>2 DEF Extended, Session
  <1> QED
    BY <1>1, <1>3

\* Whatever is written by a PATCH is a session.
LEMMA UpdatedType ==
  ASSUME TypeOK, NEW r \in Requests, NEW remember \in BOOLEAN,
         NEW fields \in SUBSET (AllowedFields \cup ProtectedFields)
  PROVE  /\ Merged(session, Permitted(fields), remember) \in Session
         /\ Updated(r, fields, remember) \in Session
  BY MergedType DEF TypeOK, Updated

\* The passage of time keeps a session a session.
LEMMA ElapseType ==
  /\ \A t \in Ttl \cup {Never} : Elapse(t) \in Ttl \cup {Never}
  /\ \A s \in Session \cup {NoSession} : ElapseIn(s) \in Session \cup {NoSession}
  <1>1. \A t \in Ttl \cup {Never} : Elapse(t) \in Ttl \cup {Never}
    BY SessionDOAssumption DEF Elapse, Ttl
  <1>2. ASSUME NEW s \in Session \cup {NoSession}
        PROVE  ElapseIn(s) \in Session \cup {NoSession}
    BY <1>1 DEF ElapseIn, Session
  <1> QED
    BY <1>1, <1>2
-----------------------------------------------------------------------------
\* Type correctness of the Durable Object: every handler, reset and tick keeps
\* the two copies of the session, the alarm and the PATCHes in flight typed.
THEOREM TypeCorrect == Spec => []TypeOK
  <1>1. Init => TypeOK
    BY DEF Init, TypeOK
  <1>2. TypeOK /\ [Next]_vars => TypeOK'
    <2> SUFFICES ASSUME TypeOK, [Next]_vars PROVE TypeOK'
      OBVIOUS
    <2>1. ASSUME NEW remembered \in BOOLEAN, Create(remembered) PROVE TypeOK'
      BY <2>1, NewSessionType DEF TypeOK, Create, Write
    <2>2. CASE GetLive
      BY <2>2 DEF TypeOK, GetLive, Loaded
    <2>3. CASE GetExpired
      BY <2>3 DEF TypeOK, GetExpired, Cleanup, Write, LeftAlarm
    <2>4. ASSUME NEW r \in Requests, UpdateStart(r) PROVE TypeOK'
      BY <2>4 DEF TypeOK, UpdateStart, Loaded
    <2>5. ASSUME NEW r \in Requests, NEW remember \in BOOLEAN,
                 NEW fields \in SUBSET (AllowedFields \cup ProtectedFields),
                 UpdateFinish(r, fields, remember)
          PROVE  TypeOK'
      <3>1. RememberedTtl \in Ttl
        BY SessionDOAssumption DEF Ttl
      <3> QED
        BY <2>5, <3>1, UpdatedType
        DEF TypeOK, UpdateFinish, Write, AlarmAfter, Permitted
    <2>6. CASE Destroy
      BY <2>6 DEF TypeOK, Destroy, Cleanup, Write, LeftAlarm
    <2>7. CASE AlarmFires
      BY <2>7 DEF TypeOK, AlarmFires, Cleanup, Write
    <2>8. CASE Reset
      BY <2>8 DEF TypeOK, Reset, ForgetMemory
    <2>9. ASSUME NEW remembered \in BOOLEAN, CrashInCreate(remembered)
          PROVE  TypeOK'
      BY <2>9, NewSessionType DEF TypeOK, CrashInCreate, ForgetMemory
    <2>10. ASSUME NEW r \in Requests, NEW remember \in BOOLEAN,
                  NEW fields \in SUBSET (AllowedFields \cup ProtectedFields),
                  CrashInUpdate(r, fields, remember)
           PROVE  TypeOK'
      <3>1. torn' \in BOOLEAN
        BY <2>10 DEF TypeOK, CrashInUpdate, Extends
      <3> QED
        BY <2>10, <3>1, UpdatedType DEF TypeOK, CrashInUpdate, ForgetMemory
    <2>11. CASE Tick
      BY <2>11, ElapseType DEF TypeOK, Tick
    <2>12. CASE UNCHANGED vars
      BY <2>12 DEF TypeOK, vars
    <2> QED
      BY <2>1, <2>2, <2>3, <2>4, <2>5, <2>6, <2>7, <2>8, <2>9, <2>10, <2>11,
         <2>12 DEF Next
  <1> QED
    BY <1>1, <1>2, PTL DEF Spec
-----------------------------------------------------------------------------
(***************************************************************************)
(* The inductive invariant.  The safety invariants are not inductive *)
(* alone.  A PATCH that resumes merges into this.session, so it is sound   *)
(* only because a PATCH in flight keeps the object in memory (a reset ends *)
(* the PATCH too): this.session is then what storage holds, null after a   *)
(* cleanup.  And POST /create overwrites, so it must find nothing.         *)
(***************************************************************************)
InFlightLoaded == \A r \in Requests : patch[r] # "idle" => session = stored

NothingBeforeCreate ==
  ~created => /\ session = NoSession /\ stored = NoSession /\ acked = {}
              /\ \A r \in Requests : patch[r] = "idle"

OnlyAllowedFields == stored # NoSession => stored.fields \subseteq AllowedFields

IInv ==
  /\ TypeOK
  /\ OnlyAllowedFields
  /\ MemoryIsStorage
  /\ AckedUpdatesSurvive
  /\ AlarmAtExpiry
  /\ InFlightLoaded
  /\ NothingBeforeCreate

\* When IInv holds, the session a handler loads is the stored one.
LEMMA LoadedIsStored == ASSUME IInv PROVE Loaded = stored
  BY DEF IInv, MemoryIsStorage, Loaded

\* What a PATCH writes: always a session, holding the permitted fields of the
\* PATCH and the fields that were there, with its expiry moved only by an
\* extension.
LEMMA UpdatedFacts ==
  ASSUME TypeOK, NEW r \in Requests, NEW remember \in BOOLEAN,
         NEW fields \in SUBSET (AllowedFields \cup ProtectedFields)
  PROVE  LET u == Updated(r, fields, remember)
             m == Merged(session, Permitted(fields), remember)
         IN  /\ u \in Session /\ m \in Session
             /\ u.fields = m.fields
             /\ m.fields = IF session = NoSession THEN Permitted(fields)
                           ELSE session.fields \cup Permitted(fields)
             /\ m.expiresIn = IF session = NoSession THEN Never
                              ELSE session.expiresIn
             /\ u.expiresIn = IF Extends(r, remember) THEN RememberedTtl
                              ELSE m.expiresIn
  <1> DEFINE m == Merged(session, Permitted(fields), remember)
  <1>1. m \in Session
    BY UpdatedType
  <1>2. /\ m.fields = IF session = NoSession THEN Permitted(fields)
                      ELSE session.fields \cup Permitted(fields)
        /\ m.expiresIn = IF session = NoSession THEN Never
                         ELSE session.expiresIn
    <2>1. CASE session = NoSession
      BY <2>1 DEF Merged
    <2>2. CASE session # NoSession
      BY <2>2 DEF TypeOK, Session, Merged
    <2> QED
      BY <2>1, <2>2
  <1>3. Extended(m).fields = m.fields /\ Extended(m).expiresIn = RememberedTtl
    BY <1>1 DEF Extended, Session
  <1> QED
    BY <1>1, <1>2, <1>3, UpdatedType DEF Updated

\* Removing the session leaves nothing the invariant could object to.
LEMMA CleanupPreservesIInv ==
  ASSUME IInv, TypeOK', Cleanup, patch' = patch, created' = created
  PROVE  IInv'
  BY DEF IInv, Cleanup, Write, OnlyAllowedFields, MemoryIsStorage, AckedUpdatesSurvive,
         AlarmAtExpiry, InFlightLoaded, NothingBeforeCreate

\* A reset empties the memory and ends the PATCHes: what is left to show is
\* about storage alone.
LEMMA ResetPreservesIInv ==
  ASSUME IInv, TypeOK', ForgetMemory,
         OnlyAllowedFields', AckedUpdatesSurvive', AlarmAtExpiry',
         NothingBeforeCreate'
  PROVE  IInv'
  BY DEF IInv, ForgetMemory, MemoryIsStorage, InFlightLoaded

\* The inductive step for PATCH, once its body is read.
LEMMA UpdateFinishPreservesIInv ==
  ASSUME IInv, TypeOK', NEW r \in Requests, NEW remember \in BOOLEAN,
         NEW fields \in SUBSET (AllowedFields \cup ProtectedFields),
         UpdateFinish(r, fields, remember)
  PROVE  IInv'
  <1> DEFINE m == Merged(session, Permitted(fields), remember)
             u == Updated(r, fields, remember)
  <1>f. /\ u \in Session /\ m \in Session
        /\ u.fields = m.fields
        /\ m.fields = IF session = NoSession THEN Permitted(fields)
                      ELSE session.fields \cup Permitted(fields)
        /\ m.expiresIn = IF session = NoSession THEN Never
                         ELSE session.expiresIn
        /\ u.expiresIn = IF Extends(r, remember) THEN RememberedTtl
                         ELSE m.expiresIn
    BY UpdatedFacts, Zenon DEF IInv
  <1> USE DEF IInv
  <1>1. session' = u /\ stored' = u /\ u # NoSession
    BY <1>f, NoSessionAssumption DEF UpdateFinish, Write
  <1>2. session = stored
    BY DEF UpdateFinish, InFlightLoaded
  <1>3. AckedUpdatesSurvive'
    BY <1>1, <1>2, <1>f DEF UpdateFinish, AckedUpdatesSurvive
  <1>o. OnlyAllowedFields'
    BY <1>1, <1>2, <1>f DEF OnlyAllowedFields, Permitted
  <1>4. AlarmAtExpiry'
    <2>1. CASE Extends(r, remember)
      <3>1. u.expiresIn = RememberedTtl /\ alarm' = RememberedTtl
        BY <1>f, <2>1 DEF UpdateFinish, AlarmAfter
      <3> QED
        BY <1>1, <3>1 DEF AlarmAtExpiry
    <2>2. CASE ~Extends(r, remember)
      <3>1. /\ u.expiresIn = IF session = NoSession THEN Never
                             ELSE session.expiresIn
            /\ alarm' = alarm /\ torn' = torn
        BY <1>f, <2>2 DEF UpdateFinish, AlarmAfter
      <3> QED
        BY <1>1, <1>2, <3>1 DEF AlarmAtExpiry
    <2> QED
      BY <2>1, <2>2
  <1>5. NothingBeforeCreate'
    <2>1. created
      \* A PATCH in flight has found a session.
      BY DEF UpdateFinish, NothingBeforeCreate
    <2> QED
      BY <2>1 DEF UpdateFinish, NothingBeforeCreate
  <1> QED
    BY <1>1, <1>o, <1>3, <1>4, <1>5 DEF UpdateFinish, MemoryIsStorage,
                                        InFlightLoaded

\* Time leaves a session where it is and counts both deadlines alike.
LEMMA TickPreservesIInv ==
  ASSUME IInv, TypeOK', Tick PROVE IInv'
  <1> USE DEF IInv, Tick
  <1>1. \A s \in Session \cup {NoSession} :
          /\ ElapseIn(s) = NoSession <=> s = NoSession
          /\ s # NoSession => /\ ElapseIn(s).fields = s.fields
                              /\ ElapseIn(s).expiresIn = Elapse(s.expiresIn)
    BY NoSessionAssumption, ElapseType DEF ElapseIn, Session
  <1>2. stored \in Session \cup {NoSession} /\ session \in Session \cup {NoSession}
    BY DEF TypeOK
  <1>3. AckedUpdatesSurvive' /\ OnlyAllowedFields'
    BY <1>1, <1>2 DEF AckedUpdatesSurvive, OnlyAllowedFields
  <1>4. AlarmAtExpiry'
    <2>1. Elapse(Never) = Never
      BY DEF Elapse
    <2>2. SUFFICES ASSUME stored' # NoSession, stored'.expiresIn # Never, ~torn'
                   PROVE  alarm' = stored'.expiresIn
      BY DEF AlarmAtExpiry
    <2>3. stored # NoSession /\ stored'.expiresIn = Elapse(stored.expiresIn)
      BY <1>1, <1>2, <2>2
    <2>4. alarm = stored.expiresIn
      BY <2>1, <2>2, <2>3 DEF AlarmAtExpiry
    <2> QED
      BY <2>3, <2>4
  <1>5. MemoryIsStorage' /\ InFlightLoaded' /\ NothingBeforeCreate'
    BY <1>1, <1>2 DEF MemoryIsStorage, InFlightLoaded, NothingBeforeCreate
  <1> QED
    BY <1>3, <1>4, <1>5

\* The invariant is inductive.
LEMMA Induction == IInv /\ TypeOK' /\ [Next]_vars => IInv'
  <1> SUFFICES ASSUME IInv, TypeOK', [Next]_vars PROVE IInv'
    OBVIOUS
  <1>1. ASSUME NEW remembered \in BOOLEAN, Create(remembered) PROVE IInv'
    <2>1. stored' # NoSession
      BY <1>1, NewSessionType, NoSessionAssumption DEF Create, Write
    <2>2. /\ stored'.fields = {}
          /\ stored'.expiresIn = TtlFor(remembered)
      BY <1>1 DEF Create, Write, NewSession
    <2> QED
      BY <1>1, <2>1, <2>2
      DEF IInv, Create, Write, OnlyAllowedFields, MemoryIsStorage, AckedUpdatesSurvive,
          AlarmAtExpiry, InFlightLoaded, NothingBeforeCreate
  <1>2. CASE GetLive
    BY <1>2, LoadedIsStored
    DEF IInv, GetLive, OnlyAllowedFields, MemoryIsStorage, AckedUpdatesSurvive, AlarmAtExpiry,
        InFlightLoaded, NothingBeforeCreate
  <1>3. CASE GetExpired
    BY <1>3, CleanupPreservesIInv DEF GetExpired
  <1>4. ASSUME NEW r \in Requests, UpdateStart(r) PROVE IInv'
    <2>1. session' = stored /\ stored' = stored
      BY <1>4, LoadedIsStored DEF UpdateStart
    <2>2. created
      BY <1>4, LoadedIsStored DEF IInv, UpdateStart, NothingBeforeCreate
    <2> QED
      BY <1>4, <2>1, <2>2
      DEF IInv, UpdateStart, OnlyAllowedFields, MemoryIsStorage, AckedUpdatesSurvive,
          AlarmAtExpiry, InFlightLoaded, NothingBeforeCreate
  <1>5. ASSUME NEW r \in Requests, NEW remember \in BOOLEAN,
               NEW fields \in SUBSET (AllowedFields \cup ProtectedFields),
               UpdateFinish(r, fields, remember)
        PROVE  IInv'
    BY <1>5, UpdateFinishPreservesIInv
  <1>6. CASE Destroy
    BY <1>6, CleanupPreservesIInv DEF Destroy
  <1>7. CASE AlarmFires
    BY <1>7, CleanupPreservesIInv DEF AlarmFires
  <1>8. CASE Reset
    <2>1. /\ OnlyAllowedFields' /\ AckedUpdatesSurvive'
          /\ AlarmAtExpiry' /\ NothingBeforeCreate'
      BY <1>8
      DEF IInv, Reset, ForgetMemory, OnlyAllowedFields, AckedUpdatesSurvive, AlarmAtExpiry,
          NothingBeforeCreate
    <2> QED
      BY <1>8, <2>1, ResetPreservesIInv DEF Reset
  <1>9. ASSUME NEW remembered \in BOOLEAN, CrashInCreate(remembered) PROVE IInv'
    <2>1. acked = {}
      BY <1>9 DEF IInv, CrashInCreate, NothingBeforeCreate
    <2>2. /\ OnlyAllowedFields' /\ AckedUpdatesSurvive'
          /\ AlarmAtExpiry' /\ NothingBeforeCreate'
      BY <1>9, <2>1
      DEF CrashInCreate, NewSession, OnlyAllowedFields, AckedUpdatesSurvive,
          AlarmAtExpiry, NothingBeforeCreate
    <2> QED
      BY <1>9, <2>2, ResetPreservesIInv DEF CrashInCreate
  <1>10. ASSUME NEW r \in Requests, NEW remember \in BOOLEAN,
                NEW fields \in SUBSET (AllowedFields \cup ProtectedFields),
                CrashInUpdate(r, fields, remember)
         PROVE  IInv'
    <2> DEFINE m == Merged(session, Permitted(fields), remember)
               u == Updated(r, fields, remember)
    <2>f. /\ u \in Session /\ m \in Session
          /\ u.fields = m.fields
          /\ m.fields = IF session = NoSession THEN Permitted(fields)
                        ELSE session.fields \cup Permitted(fields)
          /\ m.expiresIn = IF session = NoSession THEN Never
                           ELSE session.expiresIn
          /\ u.expiresIn = IF Extends(r, remember) THEN RememberedTtl
                           ELSE m.expiresIn
      BY UpdatedFacts, Zenon DEF IInv
    <2> HIDE DEF m, u
    <2>1. session = stored /\ created
      BY <1>10 DEF IInv, CrashInUpdate, InFlightLoaded, NothingBeforeCreate
    <2>2. stored' \in {m, u} /\ stored' # NoSession
      BY <1>10, <2>f, NoSessionAssumption DEF CrashInUpdate, m, u
    <2>3. AckedUpdatesSurvive'
      BY <1>10, <2>1, <2>2, <2>f
      DEF IInv, CrashInUpdate, AckedUpdatesSurvive
    <2>o. OnlyAllowedFields'
      BY <1>10, <2>1, <2>2, <2>f DEF IInv, OnlyAllowedFields, Permitted
    <2>4. AlarmAtExpiry'
      <3>1. CASE torn'
        BY <3>1 DEF AlarmAtExpiry
      <3>2. CASE ~torn'
        <4>1. ~torn /\ ~Extends(r, remember) /\ alarm' = alarm
          BY <1>10, <3>2 DEF CrashInUpdate
        <4>2. stored'.expiresIn = IF session = NoSession THEN Never
                                  ELSE session.expiresIn
          BY <2>2, <2>f, <4>1
        <4> QED
          BY <2>1, <4>1, <4>2 DEF IInv, AlarmAtExpiry
      <3> QED
        BY <3>1, <3>2
    <2>5. NothingBeforeCreate'
      BY <1>10, <2>1 DEF CrashInUpdate, NothingBeforeCreate
    <2> QED
      BY <1>10, <2>o, <2>3, <2>4, <2>5, ResetPreservesIInv DEF CrashInUpdate
  <1>11. CASE Tick
    BY <1>11, TickPreservesIInv
  <1>12. CASE UNCHANGED vars
    BY <1>12
    DEF IInv, vars, OnlyAllowedFields, MemoryIsStorage, AckedUpdatesSurvive, AlarmAtExpiry,
        InFlightLoaded, NothingBeforeCreate
  <1> QED
    BY <1>1, <1>2, <1>3, <1>4, <1>5, <1>6, <1>7, <1>8, <1>9, <1>10, <1>11,
       <1>12 DEF Next

\* IInv holds throughout every behaviour.
LEMMA Invariance == Spec => []IInv
  <1>1. Init => IInv
    BY DEF Init, IInv, TypeOK, OnlyAllowedFields, MemoryIsStorage,
           AckedUpdatesSurvive, AlarmAtExpiry, InFlightLoaded,
           NothingBeforeCreate
  <1> QED
    BY <1>1, Induction, TypeCorrect, PTL DEF Spec

\* No reader is served a session that storage no longer holds: the copy in
\* memory is the stored one in every reachable state.
THEOREM MemoryMatchesStorage == Spec => []MemoryIsStorage
  <1>1. IInv => MemoryIsStorage
    BY DEF IInv
  <1> QED
    BY <1>1, Invariance, PTL

\* No concurrent PATCH, reset or eviction takes back a field that a PATCH was
\* answered ok for.
THEOREM NoLostUpdate == Spec => []AckedUpdatesSurvive
  <1>1. IInv => AckedUpdatesSurvive
    BY DEF IInv
  <1> QED
    BY <1>1, Invariance, PTL

\* Every untorn session with an expiry has its alarm at that expiry.
THEOREM AlarmMatchesExpiry == Spec => []AlarmAtExpiry
  <1>1. IInv => AlarmAtExpiry
    BY DEF IInv
  <1> QED
    BY <1>1, Invariance, PTL
-----------------------------------------------------------------------------
\* Which steps can take a stored session away.
LEMMA RemovingSteps ==
  ASSUME IInv, [Next]_vars, stored # NoSession, stored' = NoSession
  PROVE  GetExpired \/ Destroy \/ AlarmFires
  <1>1. ASSUME NEW r \in Requests, NEW remember \in BOOLEAN,
               NEW fields \in SUBSET (AllowedFields \cup ProtectedFields)
        PROVE  /\ Updated(r, fields, remember) # NoSession
               /\ Merged(session, Permitted(fields), remember) # NoSession
    BY UpdatedType, NoSessionAssumption DEF IInv
  <1>2. ASSUME NEW remembered \in BOOLEAN PROVE ~Create(remembered)
    BY DEF IInv, Create, NothingBeforeCreate
  <1>3. ASSUME NEW remembered \in BOOLEAN PROVE ~CrashInCreate(remembered)
    BY DEF IInv, CrashInCreate, NothingBeforeCreate
  <1>4. ASSUME NEW r \in Requests, NEW remember \in BOOLEAN,
               NEW fields \in SUBSET (AllowedFields \cup ProtectedFields)
        PROVE  /\ ~UpdateFinish(r, fields, remember)
               /\ ~CrashInUpdate(r, fields, remember)
    BY <1>1, <1>4 DEF UpdateFinish, Write, CrashInUpdate
  <1>5. ~GetLive /\ ~Reset /\ ~UNCHANGED vars
    BY DEF GetLive, Reset, vars
  <1>6. \A r \in Requests : ~UpdateStart(r)
    BY DEF UpdateStart
  <1>7. ~Tick
    <2>1. stored \in Session
      BY DEF IInv, TypeOK
    <2>2. ElapseIn(stored) \in Session
      BY <2>1, ElapseType DEF ElapseIn, Session
    <2> QED
      BY <2>2, NoSessionAssumption DEF Tick
  <1> QED
    BY <1>2, <1>3, <1>4, <1>5, <1>6, <1>7 DEF Next

\* Before its expiry a session is removed by DELETE /destroy alone: neither by
\* a reader nor, unless a reset tore its writes, by an alarm.
THEOREM OnlyDestroyRemovesEarly == Spec => NoEarlyRemoval
  <1> DEFINE A == stored # NoSession /\ stored' = NoSession
                  => /\ remover' = "reader" => Expired(stored)
                     /\ remover' = "alarm" /\ ~torn /\ stored.expiresIn # Never
                          => stored.expiresIn <= 0
  <1>1. IInv /\ [Next]_vars => A
    <2> SUFFICES ASSUME IInv, [Next]_vars, stored # NoSession, stored' = NoSession
                 PROVE  A
      OBVIOUS
    <2>1. GetExpired \/ Destroy \/ AlarmFires
      BY RemovingSteps
    <2>2. CASE GetExpired
      BY <2>2, LoadedIsStored DEF GetExpired
    <2>3. CASE Destroy
      BY <2>3 DEF Destroy
    <2>4. CASE AlarmFires
      BY <2>4 DEF AlarmFires, IInv, AlarmAtExpiry
    <2> QED
      BY <2>1, <2>2, <2>3, <2>4
  <1>2. IInv /\ [Next]_vars => [A]_vars
    BY <1>1
  <1> QED
    BY <1>2, Invariance, PTL DEF Spec, NoEarlyRemoval

\* The flow fields of a session written over a session.
LEMMA UpdatedFlow ==
  ASSUME TypeOK, session # NoSession,
         NEW r \in Requests, NEW remember \in BOOLEAN,
         NEW fields \in SUBSET (AllowedFields \cup ProtectedFields)
  PROVE  /\ Merged(session, Permitted(fields), remember).flow = session.flow
         /\ Updated(r, fields, remember).flow = session.flow
  <1> DEFINE m == Merged(session, Permitted(fields), remember)
  <1>1. m.flow = session.flow
    BY DEF TypeOK, Session, Merged
  <1>2. m \in Session
    BY UpdatedType
  <1>3. Extended(m).flow = m.flow
    BY <1>2 DEF Extended, Session
  <1> QED
    BY <1>1, <1>3 DEF Updated

\* A session keeps the OIDC flow state it was created with until it is removed.
THEOREM FlowStateIsFixed == Spec => FlowStateFixed
  <1> DEFINE A == stored # NoSession /\ stored' # NoSession
                  => /\ stored'.flow = stored.flow
                     /\ stored'.fields \cap ProtectedFields = {}
  <1>1. IInv /\ IInv' /\ [Next]_vars => A
    <2> SUFFICES ASSUME IInv, IInv', [Next]_vars,
                        stored # NoSession, stored' # NoSession
                 PROVE  stored'.flow = stored.flow
      BY SessionDOAssumption DEF IInv, OnlyAllowedFields
    <2>1. ASSUME NEW remembered \in BOOLEAN
          PROVE  ~Create(remembered) /\ ~CrashInCreate(remembered)
      BY DEF IInv, Create, CrashInCreate, NothingBeforeCreate
    <2>2. CASE stored' = stored
      BY <2>2
    <2>3. ASSUME NEW r \in Requests, NEW remember \in BOOLEAN,
                 NEW fields \in SUBSET (AllowedFields \cup ProtectedFields),
                 UpdateFinish(r, fields, remember)
                   \/ CrashInUpdate(r, fields, remember)
          PROVE  stored'.flow = stored.flow
      <3>1. session = stored /\ TypeOK
        BY <2>3 DEF IInv, UpdateFinish, CrashInUpdate, InFlightLoaded
      <3>2. /\ Merged(session, Permitted(fields), remember).flow = session.flow
            /\ Updated(r, fields, remember).flow = session.flow
        BY <3>1, UpdatedFlow, Zenon
      <3> QED
        BY <2>3, <3>1, <3>2 DEF UpdateFinish, Write, CrashInUpdate
    <2>4. CASE Tick
      BY <2>4 DEF Tick, ElapseIn, IInv, TypeOK, Session
    <2>5. CASE Cleanup
      BY <2>5 DEF Cleanup, Write
    <2> QED
      BY <2>1, <2>2, <2>3, <2>4, <2>5
      DEF Next, GetLive, GetExpired, UpdateStart, Destroy, AlarmFires, Reset,
          vars
  <1>2. IInv /\ IInv' /\ [Next]_vars => [A]_vars
    BY <1>1
  <1> QED
    BY <1>2, Invariance, PTL DEF Spec, FlowStateFixed
-----------------------------------------------------------------------------
(***************************************************************************)
(* What is left of "Sessions expire automatically": the sessions that no   *)
(* alarm removes are those a resumed PATCH put where there was none, and   *)
(* those a reset tore.                                                     *)
(***************************************************************************)
CreatedHasExpiry ==
  stored # NoSession /\ stored.flow /\ ~torn => stored.expiresIn # Never

LEMMA CreatedHasExpiryStep ==
  ASSUME IInv, CreatedHasExpiry, [Next]_vars
  PROVE  CreatedHasExpiry'
  <1>1. TypeOK
    BY DEF IInv
  <1>2. ASSUME NEW remembered \in BOOLEAN, Create(remembered) \/ CrashInCreate(remembered)
        PROVE  CreatedHasExpiry'
    BY <1>2, SessionDOAssumption
    DEF Create, CrashInCreate, Write, NewSession, TtlFor, CreatedHasExpiry
  <1>3. ASSUME NEW r \in Requests, NEW remember \in BOOLEAN,
               NEW fields \in SUBSET (AllowedFields \cup ProtectedFields),
               UpdateFinish(r, fields, remember) \/ CrashInUpdate(r, fields, remember)
        PROVE  CreatedHasExpiry'
    <2> DEFINE m == Merged(session, Permitted(fields), remember)
               u == Updated(r, fields, remember)
    <2>1. session = stored
      BY <1>3 DEF IInv, UpdateFinish, CrashInUpdate, InFlightLoaded
    <2>2. /\ m.expiresIn = IF session = NoSession THEN Never ELSE session.expiresIn
          /\ u.expiresIn = IF Extends(r, remember) THEN RememberedTtl ELSE m.expiresIn
      BY <1>1, UpdatedFacts
    <2>3. CASE session = NoSession
      <3>1. ~m.flow
        BY <2>3 DEF Merged
      <3>2. m \in Session
        BY <1>1, UpdatedType
      <3>3. ~u.flow
        BY <3>1, <3>2 DEF Updated, Extended, Session
      <3> QED
        BY <1>3, <3>1, <3>3 DEF UpdateFinish, CrashInUpdate, Write, CreatedHasExpiry
    <2>4. CASE session # NoSession
      <3>1. m.flow = session.flow /\ u.flow = session.flow
        BY <1>1, <2>4, UpdatedFlow, Zenon
      <3>2. torn => torn'
        BY <1>3 DEF UpdateFinish, CrashInUpdate
      <3>3. stored' \in {m, u}
        BY <1>3 DEF UpdateFinish, CrashInUpdate, Write
      <3> QED
        BY <2>1, <2>2, <2>4, <3>1, <3>2, <3>3, SessionDOAssumption DEF CreatedHasExpiry
    <2> QED
      BY <2>3, <2>4
  <1>4. CASE Tick
    <2>1. \A t \in Ttl : Elapse(t) # Never
      BY SessionDOAssumption DEF Elapse, Ttl
    <2>2. stored' = ElapseIn(stored) /\ torn' = torn
      BY <1>4 DEF Tick
    <2>3. stored # NoSession => stored'.flow = stored.flow
                                /\ stored'.expiresIn = Elapse(stored.expiresIn)
      BY <1>1, <2>2 DEF ElapseIn, TypeOK, Session
    <2>4. stored = NoSession => stored' = NoSession
      BY <2>2 DEF ElapseIn
    <2>5. stored # NoSession => stored.expiresIn \in Ttl \cup {Never}
      BY <1>1 DEF TypeOK, Session
    <2> QED
      BY <2>1, <2>2, <2>3, <2>4, <2>5 DEF CreatedHasExpiry
  <1>5. CASE Cleanup
    BY <1>5 DEF Cleanup, Write, CreatedHasExpiry
  <1>6. CASE UNCHANGED <<stored, torn>>
    BY <1>6 DEF CreatedHasExpiry
  <1> QED
    BY <1>2, <1>3, <1>4, <1>5, <1>6
    DEF Next, GetLive, GetExpired, UpdateStart, Destroy, AlarmFires, Reset, vars

\* Every session POST /create made, unless a reset cut the writes of a handler
\* short, has the alarm that removes it set for its expiry, through any PATCHes
\* and evictions.
THEOREM CreatedSessionsHaveAlarms ==
  Spec => [](stored # NoSession /\ stored.flow /\ ~torn
               => alarm # Never /\ alarm = stored.expiresIn)
  <1>1. Init => CreatedHasExpiry
    BY DEF Init, CreatedHasExpiry
  <1>2. IInv /\ CreatedHasExpiry /\ [Next]_vars => CreatedHasExpiry'
    BY CreatedHasExpiryStep
  <1>3. IInv /\ CreatedHasExpiry =>
          (stored # NoSession /\ stored.flow /\ ~torn
             => alarm # Never /\ alarm = stored.expiresIn)
    BY DEF IInv, AlarmAtExpiry, CreatedHasExpiry
  <1> QED
    BY <1>1, <1>2, <1>3, Invariance, PTL DEF Spec
=============================================================================
