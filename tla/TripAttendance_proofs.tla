------------------------ MODULE TripAttendance_proofs ------------------------
(* Proofs of TripAttendance's safety properties for every set of students,   *)
(* tokens and handlers.                                                     *)
EXTENDS TripAttendance, FiniteSetTheorems, TLAPS

(* Every reachable state is well typed. *)
THEOREM TypeCorrect == Spec => []TypeOK
<1>1. Init => TypeOK
  <2> SUFFICES ASSUME Init PROVE TypeOK
    OBVIOUS
  <2>1. /\ trip \in [status : {"SCHEDULED", "ACTIVE", "COMPLETED"}, boarded : 0..MaxBoarded, outage : BOOLEAN]
        /\ crashes \in 0..MaxCrashes /\ starting \in 0..MaxStarts
    BY BoundsNat DEF Init
  <2>2. log \in [Students -> Logs] /\ lastEvent \in [Students -> Statuses \cup {"NONE"}]
    BY DEF Init, Logs
  <2>3. /\ scan \in [Scanners -> Scans \cup {Idle}]
        /\ mark \in [Markers -> Marks \cup {Idle}]
    BY DEF Init
  <2>4. /\ override \in Overrides \cup {Idle}
        /\ job \in [Enders -> Jobs \cup {Idle}]
        /\ tasks \in [Enders -> TaskKinds \cup {"none"}]
    BY DEF Init
  <2> QED
    BY <2>1, <2>2, <2>3, <2>4 DEF Init, TypeOK
<1>2. TypeOK /\ [Next]_vars => TypeOK'
  <2> SUFFICES ASSUME TypeOK, [Next]_vars PROVE TypeOK'
    OBVIOUS
  <2> USE BoundsNat DEF TypeOK, Logs, NoLog, Idle, Scans, Marks, Overrides, Jobs, TaskKinds, Statuses, OnBoard, Present, Methods, Fences
  <2>1. ASSUME NEW n \in Nonces, IssueNonce(n) PROVE TypeOK'
    BY <2>1 DEF IssueNonce, vars, rowVars, jobVars, histVars
  <2>2. ASSUME NEW n \in Nonces, ExpireNonce(n) PROVE TypeOK'
    BY <2>2 DEF ExpireNonce, vars, rowVars, jobVars, histVars
  <2>3. ASSUME NEW r \in Scanners, NEW s \in Students, NEW n \in Nonces, ScanStart(r, s, n) PROVE TypeOK'
    BY <2>3 DEF ScanStart, vars, rowVars, jobVars, histVars
  <2>4. ASSUME NEW r \in Scanners, ScanBurn(r) PROVE TypeOK'
    BY <2>4 DEF ScanBurn, GetDel, vars, rowVars, jobVars, histVars
  <2>5. ASSUME NEW r \in Scanners, ScanRefused(r) PROVE TypeOK'
    BY <2>5 DEF ScanRefused, GetDel, vars, rowVars, jobVars, histVars
  <2>6. ASSUME NEW r \in Scanners, ScanValidate(r) PROVE TypeOK'
    BY <2>6 DEF ScanValidate, vars, rowVars, jobVars, histVars
  <2>7. ASSUME NEW r \in Scanners, NEW fence \in Fences, ScanExisting(r, fence) PROVE TypeOK'
    BY <2>7 DEF ScanExisting, vars, rowVars, jobVars, histVars
  <2>8. ASSUME NEW r \in Scanners, ScanFail(r) PROVE TypeOK'
    BY <2>8 DEF ScanFail, FailedAttempt, vars, rowVars, jobVars, histVars
  <2>9. ASSUME NEW r \in Scanners, ScanCommit(r) PROVE TypeOK'
    BY <2>9 DEF ScanCommit, Board, vars, rowVars, jobVars, histVars
  <2>10. ASSUME NEW r \in Scanners, ScanEvent(r) PROVE TypeOK'
    BY <2>10 DEF ScanEvent, vars, rowVars, jobVars, histVars
  <2>11. ASSUME NEW r \in Scanners, ScanAbort(r) PROVE TypeOK'
    BY <2>11 DEF ScanAbort, vars, rowVars, jobVars, histVars
  <2>12. ASSUME NEW m \in Markers, NEW s \in Students, MarkStart(m, s) PROVE TypeOK'
    BY <2>12 DEF MarkStart, vars, rowVars, jobVars, histVars
  <2>13. ASSUME NEW m \in Markers, MarkWrite(m) PROVE TypeOK'
    BY <2>13 DEF MarkWrite, Board, vars, rowVars, jobVars, histVars
  <2>14. ASSUME NEW m \in Markers, MarkEvent(m) PROVE TypeOK'
    BY <2>14 DEF MarkEvent, vars, rowVars, jobVars, histVars
  <2>15. ASSUME NEW m \in Markers, MarkAbort(m) PROVE TypeOK'
    BY <2>15 DEF MarkAbort, vars, rowVars, jobVars, histVars
  <2>16. ASSUME OverrideStart PROVE TypeOK'
    BY <2>16 DEF OverrideStart, vars, rowVars, jobVars, histVars
  <2>17. ASSUME OverrideWrite PROVE TypeOK'
    BY <2>17 DEF OverrideWrite, vars, rowVars, jobVars, histVars
  <2>18. ASSUME OverrideEvents PROVE TypeOK'
    BY <2>18 DEF OverrideEvents, vars, rowVars, jobVars, histVars
  <2>19. ASSUME OverrideAbort PROVE TypeOK'
    BY <2>19 DEF OverrideAbort, vars, rowVars, jobVars, histVars
  <2>20. ASSUME DelegateStart PROVE TypeOK'
    BY <2>20 DEF DelegateStart, vars, rowVars, jobVars, histVars
  <2>21. ASSUME DelegateActivate PROVE TypeOK'
    BY <2>21 DEF DelegateActivate, vars, rowVars, jobVars, histVars
  <2>22. ASSUME NEW e \in Enders, EndStart(e) PROVE TypeOK'
    BY <2>22 DEF EndStart, vars, rowVars, jobVars, histVars
  <2>23. ASSUME NEW e \in Enders, EndUpdate(e) PROVE TypeOK'
    BY <2>23 DEF EndUpdate, vars, rowVars, jobVars, histVars
  <2>24. ASSUME NEW e \in Enders, EndSchedule(e) PROVE TypeOK'
    BY <2>24 DEF EndSchedule, CreateTask, vars, rowVars, jobVars, histVars
  <2>25. ASSUME NEW e \in Enders, EndAbort(e) PROVE TypeOK'
    BY <2>25 DEF EndAbort, vars, rowVars, jobVars, histVars
  <2>26. ASSUME NEW e \in Enders, JobStart(e) PROVE TypeOK'
    BY <2>26 DEF JobStart, Answer, Acknowledge, Fail, vars, rowVars, jobVars, histVars
  <2>27. ASSUME NEW e \in Enders, JobDefer(e) PROVE TypeOK'
    BY <2>27 DEF JobDefer, Answer, Acknowledge, Fail, PendingLogs, vars, rowVars, jobVars, histVars
  <2>28. ASSUME NEW e \in Enders, JobUpdate(e) PROVE TypeOK'
    <3>1. log' \in [Students -> Logs]
      BY <2>28 DEF JobUpdate, ToMarkAbsent, PendingLogs
    <3>2. tasks' \in [Enders -> TaskKinds \cup {"none"}] /\ job' \in [Enders -> Jobs \cup {Idle}]
      BY <2>28 DEF JobUpdate, Answer, Acknowledge
    <3> QED
      BY <2>28, <3>1, <3>2 DEF JobUpdate, histVars
  <2>29. ASSUME NEW e \in Enders, JobSelect(e) PROVE TypeOK'
    BY <2>29 DEF JobSelect, vars, rowVars, jobVars, histVars
  <2>30. ASSUME NEW e \in Enders, JobEvents(e) PROVE TypeOK'
    BY <2>30 DEF JobEvents, Answer, Acknowledge, Fail, vars, rowVars, jobVars, histVars
  <2>31. ASSUME NEW e \in Enders, JobCrash(e) PROVE TypeOK'
    BY <2>31 DEF JobCrash, Answer, Acknowledge, Fail, vars, rowVars, jobVars, histVars
  <2>32. ASSUME NEW e \in Enders, OutageStart(e) PROVE TypeOK'
    BY <2>32 DEF OutageStart, Answer, Acknowledge, Fail, PendingLogs, vars, rowVars, jobVars, histVars
  <2>33. ASSUME NEW e \in Enders, NEW s \in Students, OutageFinalise(e, s) PROVE TypeOK'
    BY <2>33 DEF OutageFinalise, vars, rowVars, jobVars, histVars
  <2>34. ASSUME NEW e \in Enders, OutageDone(e) PROVE TypeOK'
    BY <2>34 DEF OutageDone, Answer, Acknowledge, Fail, vars, rowVars, jobVars, histVars
  <2>36. ASSUME StartRead PROVE TypeOK'
    BY <2>36 DEF StartRead, vars, rowVars, jobVars, histVars
  <2>37. ASSUME StartUpdate PROVE TypeOK'
    BY <2>37 DEF StartUpdate, vars, rowVars, jobVars, histVars
  <2>38. ASSUME StartAbort PROVE TypeOK'
    BY <2>38 DEF StartAbort, vars, rowVars, jobVars, histVars
  <2>35. CASE UNCHANGED vars
    BY <2>35 DEF vars, rowVars, jobVars, histVars
  <2> QED
    BY <2>1, <2>2, <2>3, <2>4, <2>5, <2>6, <2>7, <2>8, <2>9, <2>10, <2>11, <2>12, <2>13, <2>14, <2>15, <2>16, <2>17, <2>18, <2>19, <2>20, <2>21, <2>22, <2>23, <2>24, <2>25, <2>26, <2>27, <2>28, <2>29, <2>30, <2>31, <2>32, <2>33, <2>34, <2>35, <2>36, <2>37, <2>38
       DEF Next, ScanStep, MarkStep, OverrideStep, StartStep, EndStep, JobStep
<1> QED
  BY <1>1, <1>2, PTL DEF Spec

-----------------------------------------------------------------------------
(* A scan that has burnt its nonce and not committed yet is the nonce's only *)
(* owner: the nonce is gone, nobody else can burn it, nothing has been       *)
(* admitted with it.                                                        *)
Owns(r) == scan[r].pc \in {"validate", "existing", "write"}

NonceInv ==
  /\ \A r \in Scanners : Owns(r) => nonce[scan[r].nonce] = "gone" /\ admitted[scan[r].nonce] = 0
  /\ \A r, q \in Scanners : Owns(r) /\ Owns(q) /\ scan[r].nonce = scan[q].nonce => r = q
  /\ \A n \in Nonces : nonce[n] # "gone" => admitted[n] = 0
  /\ NonceAdmitsOnce

(* The handlers and jobs other than checkIn.                                *)
OtherStep ==
  \/ \E m \in Markers, s \in Students : MarkStart(m, s)
  \/ \E m \in Markers : MarkStep(m)
  \/ OverrideStart \/ OverrideStep
  \/ DelegateStart \/ DelegateActivate
  \/ StartRead \/ StartStep
  \/ \E e \in Enders : EndStart(e) \/ EndStep(e) \/ JobStep(e) \/ JobCrash(e)

LEMMA OthersLeaveNonces ==
  ASSUME OtherStep PROVE UNCHANGED <<scan, nonce, admitted>>
<1> USE DEF rowVars, jobVars, histVars
<1>1. ASSUME NEW m \in Markers, NEW s \in Students, MarkStart(m, s) PROVE UNCHANGED <<scan, nonce, admitted>>
  BY <1>1 DEF MarkStart
<1>2. ASSUME NEW m \in Markers, MarkWrite(m) PROVE UNCHANGED <<scan, nonce, admitted>>
  BY <1>2 DEF MarkWrite
<1>3. ASSUME NEW m \in Markers, MarkEvent(m) PROVE UNCHANGED <<scan, nonce, admitted>>
  BY <1>3 DEF MarkEvent
<1>4. ASSUME NEW m \in Markers, MarkAbort(m) PROVE UNCHANGED <<scan, nonce, admitted>>
  BY <1>4 DEF MarkAbort
<1>5. ASSUME OverrideStart PROVE UNCHANGED <<scan, nonce, admitted>>
  BY <1>5 DEF OverrideStart
<1>6. ASSUME OverrideWrite PROVE UNCHANGED <<scan, nonce, admitted>>
  BY <1>6 DEF OverrideWrite
<1>7. ASSUME OverrideEvents PROVE UNCHANGED <<scan, nonce, admitted>>
  BY <1>7 DEF OverrideEvents
<1>8. ASSUME OverrideAbort PROVE UNCHANGED <<scan, nonce, admitted>>
  BY <1>8 DEF OverrideAbort
<1>9. ASSUME DelegateStart PROVE UNCHANGED <<scan, nonce, admitted>>
  BY <1>9 DEF DelegateStart
<1>10. ASSUME DelegateActivate PROVE UNCHANGED <<scan, nonce, admitted>>
  BY <1>10 DEF DelegateActivate
<1>11. ASSUME NEW e \in Enders, EndStart(e) PROVE UNCHANGED <<scan, nonce, admitted>>
  BY <1>11 DEF EndStart
<1>12. ASSUME NEW e \in Enders, EndUpdate(e) PROVE UNCHANGED <<scan, nonce, admitted>>
  BY <1>12 DEF EndUpdate
<1>13. ASSUME NEW e \in Enders, EndSchedule(e) PROVE UNCHANGED <<scan, nonce, admitted>>
  BY <1>13 DEF EndSchedule, CreateTask
<1>14. ASSUME NEW e \in Enders, EndAbort(e) PROVE UNCHANGED <<scan, nonce, admitted>>
  BY <1>14 DEF EndAbort
<1>15. ASSUME NEW e \in Enders, JobStart(e) PROVE UNCHANGED <<scan, nonce, admitted>>
  BY <1>15 DEF JobStart, Answer, Acknowledge, Fail
<1>16. ASSUME NEW e \in Enders, JobDefer(e) PROVE UNCHANGED <<scan, nonce, admitted>>
  BY <1>16 DEF JobDefer, Answer, Acknowledge, Fail
<1>17. ASSUME NEW e \in Enders, JobUpdate(e) PROVE UNCHANGED <<scan, nonce, admitted>>
  BY <1>17 DEF JobUpdate, Answer, Acknowledge, Fail
<1>18. ASSUME NEW e \in Enders, JobSelect(e) PROVE UNCHANGED <<scan, nonce, admitted>>
  BY <1>18 DEF JobSelect
<1>19. ASSUME NEW e \in Enders, JobEvents(e) PROVE UNCHANGED <<scan, nonce, admitted>>
  BY <1>19 DEF JobEvents, Answer, Acknowledge, Fail
<1>20. ASSUME NEW e \in Enders, JobCrash(e) PROVE UNCHANGED <<scan, nonce, admitted>>
  BY <1>20 DEF JobCrash, Answer, Acknowledge, Fail
<1>21. ASSUME NEW e \in Enders, OutageStart(e) PROVE UNCHANGED <<scan, nonce, admitted>>
  BY <1>21 DEF OutageStart, Answer, Acknowledge, Fail
<1>22. ASSUME NEW e \in Enders, NEW s \in Students, OutageFinalise(e, s) PROVE UNCHANGED <<scan, nonce, admitted>>
  BY <1>22 DEF OutageFinalise
<1>23. ASSUME NEW e \in Enders, OutageDone(e) PROVE UNCHANGED <<scan, nonce, admitted>>
  BY <1>23 DEF OutageDone, Answer, Acknowledge, Fail
<1>24. ASSUME StartRead \/ StartStep PROVE UNCHANGED <<scan, nonce, admitted>>
  BY <1>24 DEF StartRead, StartStep, StartUpdate, StartAbort
<1> QED
  BY <1>1, <1>2, <1>3, <1>4, <1>5, <1>6, <1>7, <1>8, <1>9, <1>10, <1>11, <1>12, <1>13, <1>14, <1>15, <1>16, <1>17, <1>18, <1>19, <1>20, <1>21, <1>22, <1>23, <1>24
     DEF OtherStep, MarkStep, OverrideStep, StartStep, EndStep, JobStep

LEMMA NonceInvariant == Spec => []NonceInv
<1>1. Init => NonceInv
  BY DEF Init, NonceInv, NonceAdmitsOnce, Owns, Idle
<1>2. TypeOK /\ NonceInv /\ [Next]_vars => NonceInv'
  <2> SUFFICES ASSUME TypeOK, NonceInv, [Next]_vars PROVE NonceInv'
    OBVIOUS
  <2> USE DEF NonceInv, NonceAdmitsOnce, Owns, TypeOK, Scans, Idle, histVars
  <2>1. ASSUME NEW n \in Nonces, IssueNonce(n) PROVE NonceInv'
    BY <2>1 DEF IssueNonce
  <2>2. ASSUME NEW n \in Nonces, ExpireNonce(n) PROVE NonceInv'
    BY <2>2 DEF ExpireNonce
  <2>3. ASSUME NEW r \in Scanners, NEW s \in Students, NEW n \in Nonces, ScanStart(r, s, n) PROVE NonceInv'
    BY <2>3 DEF ScanStart
  <2>4. ASSUME NEW r \in Scanners, ScanBurn(r) PROVE NonceInv'
    BY <2>4 DEF ScanBurn, GetDel
  <2>5. ASSUME NEW r \in Scanners, ScanRefused(r) PROVE NonceInv'
    BY <2>5 DEF ScanRefused, GetDel
  <2>6. ASSUME NEW r \in Scanners, ScanValidate(r) PROVE NonceInv'
    BY <2>6 DEF ScanValidate
  <2>7. ASSUME NEW r \in Scanners, NEW fence \in Fences, ScanExisting(r, fence) PROVE NonceInv'
    BY <2>7 DEF ScanExisting
  <2>8. ASSUME NEW r \in Scanners, ScanFail(r) PROVE NonceInv'
    BY <2>8 DEF ScanFail
  <2>9. ASSUME NEW r \in Scanners, ScanCommit(r) PROVE NonceInv'
    BY <2>9 DEF ScanCommit
  <2>10. ASSUME NEW r \in Scanners, ScanEvent(r) PROVE NonceInv'
    BY <2>10 DEF ScanEvent
  <2>11. ASSUME NEW r \in Scanners, ScanAbort(r) PROVE NonceInv'
    BY <2>11 DEF ScanAbort
  <2>12. CASE OtherStep \/ UNCHANGED vars
    BY <2>12, OthersLeaveNonces DEF vars
  <2> QED
    BY <2>1, <2>2, <2>3, <2>4, <2>5, <2>6, <2>7, <2>8, <2>9, <2>10, <2>11, <2>12 DEF Next, ScanStep, OtherStep
<1> QED
  BY <1>1, <1>2, TypeCorrect, PTL DEF Spec

(* A token admits at most one check-in, for any number of tokens, concurrent *)
(* scans, retries and replays.                                              *)
THEOREM NonceOnce == Spec => []NonceAdmitsOnce
<1>1. NonceInv => NonceAdmitsOnce
  BY DEF NonceInv
<1> QED
  BY <1>1, NonceInvariant, PTL

-----------------------------------------------------------------------------
(* What the finalisation tasks know of the trip without reading it: a task,  *)
(* or a handler about to create one, exists only once the trip was over, and *)
(* gps-outage-absent only once an outage was recorded.  And what the         *)
(* handlers past their check of the status know: the trip has begun.         *)
Begun == trip.status # "SCHEDULED"
FinalisationInv ==
  /\ AbsentOnlyAfterEnd
  /\ reopened => Begun
  /\ \A r \in Scanners : scan[r].pc \in {"existing", "write", "event"} => Begun
  /\ \A m \in Markers : mark[m] # Idle => Begun
  /\ delegate # "idle" => Begun
  /\ \A e \in Enders :
       /\ ender[e] # "idle" => Begun
       /\ ender[e] \in TaskKinds \/ tasks[e] # "none" \/ job[e] # Idle => Over
       /\ "gps-outage-absent" \in {ender[e], tasks[e]} \/ job[e].pc = "finalise" => trip.outage

LEMMA FinalisationInvariant == Spec => []FinalisationInv
<1>1. Init => FinalisationInv
  BY DEF Init, FinalisationInv, AbsentOnlyAfterEnd, Over, Begun, NoLog, Idle, TaskKinds
<1>2. TypeOK /\ FinalisationInv /\ [Next]_vars => FinalisationInv'
  <2> SUFFICES ASSUME TypeOK, FinalisationInv, [Next]_vars PROVE FinalisationInv'
    OBVIOUS
  <2> USE DEF FinalisationInv, AbsentOnlyAfterEnd, Over, Begun, TypeOK, Logs, NoLog, Idle, Scans, Marks, Present,
              Fences, Jobs, TaskKinds, rowVars, jobVars, histVars
  <2>1. ASSUME NEW n \in Nonces, IssueNonce(n) PROVE FinalisationInv'
    BY <2>1 DEF IssueNonce
  <2>2. ASSUME NEW n \in Nonces, ExpireNonce(n) PROVE FinalisationInv'
    BY <2>2 DEF ExpireNonce
  <2>3. ASSUME NEW r \in Scanners, NEW s \in Students, NEW n \in Nonces, ScanStart(r, s, n) PROVE FinalisationInv'
    BY <2>3 DEF ScanStart
  <2>4. ASSUME NEW r \in Scanners, ScanBurn(r) PROVE FinalisationInv'
    BY <2>4 DEF ScanBurn, GetDel
  <2>5. ASSUME NEW r \in Scanners, ScanRefused(r) PROVE FinalisationInv'
    BY <2>5 DEF ScanRefused, GetDel
  <2>6. ASSUME NEW r \in Scanners, ScanValidate(r) PROVE FinalisationInv'
    BY <2>6 DEF ScanValidate
  <2>7. ASSUME NEW r \in Scanners, NEW fence \in Fences, ScanExisting(r, fence) PROVE FinalisationInv'
    BY <2>7 DEF ScanExisting
  <2>8. ASSUME NEW r \in Scanners, ScanFail(r) PROVE FinalisationInv'
    BY <2>8 DEF ScanFail, FailedAttempt
  <2>9. ASSUME NEW r \in Scanners, ScanCommit(r) PROVE FinalisationInv'
    BY <2>9 DEF ScanCommit, Board
  <2>10. ASSUME NEW r \in Scanners, ScanEvent(r) PROVE FinalisationInv'
    BY <2>10 DEF ScanEvent
  <2>11. ASSUME NEW r \in Scanners, ScanAbort(r) PROVE FinalisationInv'
    BY <2>11 DEF ScanAbort
  <2>12. ASSUME NEW m \in Markers, NEW s \in Students, MarkStart(m, s) PROVE FinalisationInv'
    BY <2>12 DEF MarkStart
  <2>13. ASSUME NEW m \in Markers, MarkWrite(m) PROVE FinalisationInv'
    BY <2>13 DEF MarkWrite, Board
  <2>14. ASSUME NEW m \in Markers, MarkEvent(m) PROVE FinalisationInv'
    BY <2>14 DEF MarkEvent
  <2>15. ASSUME NEW m \in Markers, MarkAbort(m) PROVE FinalisationInv'
    BY <2>15 DEF MarkAbort
  <2>16. ASSUME OverrideStart PROVE FinalisationInv'
    BY <2>16 DEF OverrideStart
  <2>17. ASSUME OverrideWrite PROVE FinalisationInv'
    BY <2>17 DEF OverrideWrite
  <2>18. ASSUME OverrideEvents PROVE FinalisationInv'
    BY <2>18 DEF OverrideEvents
  <2>19. ASSUME OverrideAbort PROVE FinalisationInv'
    BY <2>19 DEF OverrideAbort
  <2>20. ASSUME DelegateStart PROVE FinalisationInv'
    BY <2>20 DEF DelegateStart
  <2>21. ASSUME DelegateActivate PROVE FinalisationInv'
    BY <2>21 DEF DelegateActivate
  <2>22. ASSUME NEW e \in Enders, EndStart(e) PROVE FinalisationInv'
    BY <2>22 DEF EndStart
  <2>23. ASSUME NEW e \in Enders, EndUpdate(e) PROVE FinalisationInv'
    BY <2>23 DEF EndUpdate
  <2>24. ASSUME NEW e \in Enders, EndSchedule(e) PROVE FinalisationInv'
    BY <2>24 DEF EndSchedule, CreateTask
  <2>25. ASSUME NEW e \in Enders, EndAbort(e) PROVE FinalisationInv'
    BY <2>25 DEF EndAbort
  <2>26. ASSUME NEW e \in Enders, JobStart(e) PROVE FinalisationInv'
    BY <2>26 DEF JobStart, Answer, Acknowledge, Fail
  <2>27. ASSUME NEW e \in Enders, JobDefer(e) PROVE FinalisationInv'
    BY <2>27 DEF JobDefer, Answer, Acknowledge, Fail, PendingLogs
  <2>28. ASSUME NEW e \in Enders, JobUpdate(e) PROVE FinalisationInv'
    BY <2>28 DEF JobUpdate, Answer, Acknowledge, Fail, ToMarkAbsent, PendingLogs
  <2>29. ASSUME NEW e \in Enders, JobSelect(e) PROVE FinalisationInv'
    BY <2>29 DEF JobSelect
  <2>30. ASSUME NEW e \in Enders, JobEvents(e) PROVE FinalisationInv'
    BY <2>30 DEF JobEvents, Answer, Acknowledge, Fail
  <2>31. ASSUME NEW e \in Enders, JobCrash(e) PROVE FinalisationInv'
    BY <2>31 DEF JobCrash, Answer, Acknowledge, Fail
  <2>32. ASSUME NEW e \in Enders, OutageStart(e) PROVE FinalisationInv'
    BY <2>32 DEF OutageStart, Answer, Acknowledge, Fail, PendingLogs
  <2>33. ASSUME NEW e \in Enders, NEW s \in Students, OutageFinalise(e, s) PROVE FinalisationInv'
    BY <2>33 DEF OutageFinalise
  <2>34. ASSUME NEW e \in Enders, OutageDone(e) PROVE FinalisationInv'
    BY <2>34 DEF OutageDone, Answer, Acknowledge, Fail
  <2>36. ASSUME StartRead PROVE FinalisationInv'
    BY <2>36 DEF StartRead
  <2>37. ASSUME StartUpdate PROVE FinalisationInv'
    BY <2>37 DEF StartUpdate
  <2>38. ASSUME StartAbort PROVE FinalisationInv'
    BY <2>38 DEF StartAbort
  <2>35. CASE UNCHANGED vars
    BY <2>35 DEF vars
  <2> QED
    BY <2>1, <2>2, <2>3, <2>4, <2>5, <2>6, <2>7, <2>8, <2>9, <2>10, <2>11, <2>12, <2>13, <2>14, <2>15, <2>16, <2>17, <2>18, <2>19, <2>20, <2>21, <2>22, <2>23, <2>24, <2>25, <2>26, <2>27, <2>28, <2>29, <2>30, <2>31, <2>32, <2>33, <2>34, <2>35, <2>36, <2>37, <2>38
       DEF Next, ScanStep, MarkStep, OverrideStep, StartStep, EndStep, JobStep
<1> QED
  BY <1>1, <1>2, TypeCorrect, PTL DEF Spec

(* No log says ABSENT before the trip was over. *)
THEOREM AbsentAfterEnd == Spec => []AbsentOnlyAfterEnd
<1>1. FinalisationInv => AbsentOnlyAfterEnd
  BY DEF FinalisationInv
<1> QED
  BY <1>1, FinalisationInvariant, PTL

(* Without an outage no step takes a log from on board to ABSENT. *)
THEOREM BoardedSpared == Spec => MarkAbsentSparesBoarded
<1> DEFINE Spared == \A s \in Students :
             log[s].status \in OnBoard /\ log'[s].status = "ABSENT" => trip.outage
<1>1. TypeOK /\ FinalisationInv /\ [Next]_vars => [Spared]_vars
  <2> SUFFICES ASSUME TypeOK, FinalisationInv, [Next]_vars PROVE Spared
    OBVIOUS
  <2> USE DEF FinalisationInv, TypeOK, Logs, NoLog, Idle, Scans, OnBoard, Present, Fences,
              Jobs, rowVars, jobVars, histVars
  <2>1. ASSUME NEW n \in Nonces, IssueNonce(n) PROVE Spared
    BY <2>1 DEF IssueNonce
  <2>2. ASSUME NEW n \in Nonces, ExpireNonce(n) PROVE Spared
    BY <2>2 DEF ExpireNonce
  <2>3. ASSUME NEW r \in Scanners, NEW s \in Students, NEW n \in Nonces, ScanStart(r, s, n) PROVE Spared
    BY <2>3 DEF ScanStart
  <2>4. ASSUME NEW r \in Scanners, ScanBurn(r) PROVE Spared
    BY <2>4 DEF ScanBurn, GetDel
  <2>5. ASSUME NEW r \in Scanners, ScanRefused(r) PROVE Spared
    BY <2>5 DEF ScanRefused, GetDel
  <2>6. ASSUME NEW r \in Scanners, ScanValidate(r) PROVE Spared
    BY <2>6 DEF ScanValidate
  <2>7. ASSUME NEW r \in Scanners, NEW fence \in Fences, ScanExisting(r, fence) PROVE Spared
    BY <2>7 DEF ScanExisting
  <2>8. ASSUME NEW r \in Scanners, ScanFail(r) PROVE Spared
    BY <2>8 DEF ScanFail, FailedAttempt
  <2>9. ASSUME NEW r \in Scanners, ScanCommit(r) PROVE Spared
    BY <2>9 DEF ScanCommit, Board
  <2>10. ASSUME NEW r \in Scanners, ScanEvent(r) PROVE Spared
    BY <2>10 DEF ScanEvent
  <2>11. ASSUME NEW r \in Scanners, ScanAbort(r) PROVE Spared
    BY <2>11 DEF ScanAbort
  <2>12. ASSUME NEW m \in Markers, NEW s \in Students, MarkStart(m, s) PROVE Spared
    BY <2>12 DEF MarkStart
  <2>13. ASSUME NEW m \in Markers, MarkWrite(m) PROVE Spared
    BY <2>13 DEF MarkWrite, Board
  <2>14. ASSUME NEW m \in Markers, MarkEvent(m) PROVE Spared
    BY <2>14 DEF MarkEvent
  <2>15. ASSUME NEW m \in Markers, MarkAbort(m) PROVE Spared
    BY <2>15 DEF MarkAbort
  <2>16. ASSUME OverrideStart PROVE Spared
    BY <2>16 DEF OverrideStart
  <2>17. ASSUME OverrideWrite PROVE Spared
    BY <2>17 DEF OverrideWrite
  <2>18. ASSUME OverrideEvents PROVE Spared
    BY <2>18 DEF OverrideEvents
  <2>19. ASSUME OverrideAbort PROVE Spared
    BY <2>19 DEF OverrideAbort
  <2>20. ASSUME DelegateStart PROVE Spared
    BY <2>20 DEF DelegateStart
  <2>21. ASSUME DelegateActivate PROVE Spared
    BY <2>21 DEF DelegateActivate
  <2>22. ASSUME NEW e \in Enders, EndStart(e) PROVE Spared
    BY <2>22 DEF EndStart
  <2>23. ASSUME NEW e \in Enders, EndUpdate(e) PROVE Spared
    BY <2>23 DEF EndUpdate
  <2>24. ASSUME NEW e \in Enders, EndSchedule(e) PROVE Spared
    BY <2>24 DEF EndSchedule, CreateTask
  <2>25. ASSUME NEW e \in Enders, EndAbort(e) PROVE Spared
    BY <2>25 DEF EndAbort
  <2>26. ASSUME NEW e \in Enders, JobStart(e) PROVE Spared
    BY <2>26 DEF JobStart, Answer, Acknowledge, Fail
  <2>27. ASSUME NEW e \in Enders, JobDefer(e) PROVE Spared
    BY <2>27 DEF JobDefer, Answer, Acknowledge, Fail, PendingLogs
  <2>28. ASSUME NEW e \in Enders, JobUpdate(e) PROVE Spared
    BY <2>28 DEF JobUpdate, Answer, Acknowledge, Fail, ToMarkAbsent, PendingLogs
  <2>29. ASSUME NEW e \in Enders, JobSelect(e) PROVE Spared
    BY <2>29 DEF JobSelect
  <2>30. ASSUME NEW e \in Enders, JobEvents(e) PROVE Spared
    BY <2>30 DEF JobEvents, Answer, Acknowledge, Fail
  <2>31. ASSUME NEW e \in Enders, JobCrash(e) PROVE Spared
    BY <2>31 DEF JobCrash, Answer, Acknowledge, Fail
  <2>32. ASSUME NEW e \in Enders, OutageStart(e) PROVE Spared
    BY <2>32 DEF OutageStart, Answer, Acknowledge, Fail, PendingLogs
  <2>33. ASSUME NEW e \in Enders, NEW s \in Students, OutageFinalise(e, s) PROVE Spared
    BY <2>33 DEF OutageFinalise
  <2>34. ASSUME NEW e \in Enders, OutageDone(e) PROVE Spared
    BY <2>34 DEF OutageDone, Answer, Acknowledge, Fail
  <2>36. ASSUME StartRead PROVE Spared
    BY <2>36 DEF StartRead
  <2>37. ASSUME StartUpdate PROVE Spared
    BY <2>37 DEF StartUpdate
  <2>38. ASSUME StartAbort PROVE Spared
    BY <2>38 DEF StartAbort
  <2>35. CASE UNCHANGED vars
    BY <2>35 DEF vars
  <2> QED
    BY <2>1, <2>2, <2>3, <2>4, <2>5, <2>6, <2>7, <2>8, <2>9, <2>10, <2>11, <2>12, <2>13, <2>14, <2>15, <2>16, <2>17, <2>18, <2>19, <2>20, <2>21, <2>22, <2>23, <2>24, <2>25, <2>26, <2>27, <2>28, <2>29, <2>30, <2>31, <2>32, <2>33, <2>34, <2>35, <2>36, <2>37, <2>38
       DEF Next, ScanStep, MarkStep, OverrideStep, StartStep, EndStep, JobStep
<1> QED
  BY <1>1, TypeCorrect, FinalisationInvariant, PTL DEF Spec, MarkAbsentSparesBoarded

-----------------------------------------------------------------------------
(* Every boarding is audited, in flight, or known lost. *)
THEOREM BoardingsAreAudited == Spec => []BoardingsAudited
<1>1. Init => BoardingsAudited
  BY DEF Init, BoardingsAudited, NoLog, OnBoard, Present
<1>2. TypeOK /\ BoardingsAudited /\ [Next]_vars => BoardingsAudited'
  <2> SUFFICES ASSUME TypeOK, BoardingsAudited, [Next]_vars PROVE BoardingsAudited'
    OBVIOUS
  <2> USE DEF BoardingsAudited, EventInFlight, TypeOK, Logs, NoLog, Idle, Scans, Marks, Overrides,
              OnBoard, Present, Fences, Statuses, rowVars, jobVars, histVars
  <2>1. ASSUME NEW n \in Nonces, IssueNonce(n) PROVE BoardingsAudited'
    BY <2>1 DEF IssueNonce
  <2>2. ASSUME NEW n \in Nonces, ExpireNonce(n) PROVE BoardingsAudited'
    BY <2>2 DEF ExpireNonce
  <2>3. ASSUME NEW r \in Scanners, NEW s \in Students, NEW n \in Nonces, ScanStart(r, s, n) PROVE BoardingsAudited'
    BY <2>3 DEF ScanStart
  <2>4. ASSUME NEW r \in Scanners, ScanBurn(r) PROVE BoardingsAudited'
    BY <2>4 DEF ScanBurn, GetDel
  <2>5. ASSUME NEW r \in Scanners, ScanRefused(r) PROVE BoardingsAudited'
    BY <2>5 DEF ScanRefused, GetDel
  <2>6. ASSUME NEW r \in Scanners, ScanValidate(r) PROVE BoardingsAudited'
    BY <2>6 DEF ScanValidate
  <2>7. ASSUME NEW r \in Scanners, NEW fence \in Fences, ScanExisting(r, fence) PROVE BoardingsAudited'
    BY <2>7 DEF ScanExisting
  <2>8. ASSUME NEW r \in Scanners, ScanFail(r) PROVE BoardingsAudited'
    BY <2>8 DEF ScanFail, FailedAttempt
  <2>9. ASSUME NEW r \in Scanners, ScanCommit(r) PROVE BoardingsAudited'
    BY <2>9 DEF ScanCommit, Board
  <2>10. ASSUME NEW r \in Scanners, ScanEvent(r) PROVE BoardingsAudited'
    BY <2>10 DEF ScanEvent
  <2>11. ASSUME NEW r \in Scanners, ScanAbort(r) PROVE BoardingsAudited'
    BY <2>11 DEF ScanAbort
  <2>12. ASSUME NEW m \in Markers, NEW s \in Students, MarkStart(m, s) PROVE BoardingsAudited'
    BY <2>12 DEF MarkStart
  <2>13. ASSUME NEW m \in Markers, MarkWrite(m) PROVE BoardingsAudited'
    BY <2>13 DEF MarkWrite, Board
  <2>14. ASSUME NEW m \in Markers, MarkEvent(m) PROVE BoardingsAudited'
    BY <2>14 DEF MarkEvent
  <2>15. ASSUME NEW m \in Markers, MarkAbort(m) PROVE BoardingsAudited'
    BY <2>15 DEF MarkAbort
  <2>16. ASSUME OverrideStart PROVE BoardingsAudited'
    BY <2>16 DEF OverrideStart
  <2>17. ASSUME OverrideWrite PROVE BoardingsAudited'
    BY <2>17 DEF OverrideWrite
  <2>18. ASSUME OverrideEvents PROVE BoardingsAudited'
    BY <2>18 DEF OverrideEvents
  <2>19. ASSUME OverrideAbort PROVE BoardingsAudited'
    BY <2>19 DEF OverrideAbort
  <2>20. ASSUME DelegateStart PROVE BoardingsAudited'
    BY <2>20 DEF DelegateStart
  <2>21. ASSUME DelegateActivate PROVE BoardingsAudited'
    BY <2>21 DEF DelegateActivate
  <2>22. ASSUME NEW e \in Enders, EndStart(e) PROVE BoardingsAudited'
    BY <2>22 DEF EndStart
  <2>23. ASSUME NEW e \in Enders, EndUpdate(e) PROVE BoardingsAudited'
    BY <2>23 DEF EndUpdate
  <2>24. ASSUME NEW e \in Enders, EndSchedule(e) PROVE BoardingsAudited'
    BY <2>24 DEF EndSchedule, CreateTask
  <2>25. ASSUME NEW e \in Enders, EndAbort(e) PROVE BoardingsAudited'
    BY <2>25 DEF EndAbort
  <2>26. ASSUME NEW e \in Enders, JobStart(e) PROVE BoardingsAudited'
    BY <2>26 DEF JobStart, Answer, Acknowledge, Fail
  <2>27. ASSUME NEW e \in Enders, JobDefer(e) PROVE BoardingsAudited'
    BY <2>27 DEF JobDefer, Answer, Acknowledge, Fail, PendingLogs
  <2>28. ASSUME NEW e \in Enders, JobUpdate(e) PROVE BoardingsAudited'
    BY <2>28 DEF JobUpdate, Answer, Acknowledge, Fail, ToMarkAbsent, PendingLogs
  <2>29. ASSUME NEW e \in Enders, JobSelect(e) PROVE BoardingsAudited'
    BY <2>29 DEF JobSelect
  <2>30. ASSUME NEW e \in Enders, JobEvents(e) PROVE BoardingsAudited'
    BY <2>30 DEF JobEvents, Answer, Acknowledge, Fail
  <2>31. ASSUME NEW e \in Enders, JobCrash(e) PROVE BoardingsAudited'
    BY <2>31 DEF JobCrash, Answer, Acknowledge, Fail
  <2>32. ASSUME NEW e \in Enders, OutageStart(e) PROVE BoardingsAudited'
    BY <2>32 DEF OutageStart, Answer, Acknowledge, Fail, PendingLogs
  <2>33. ASSUME NEW e \in Enders, NEW s \in Students, OutageFinalise(e, s) PROVE BoardingsAudited'
    BY <2>33 DEF OutageFinalise
  <2>34. ASSUME NEW e \in Enders, OutageDone(e) PROVE BoardingsAudited'
    BY <2>34 DEF OutageDone, Answer, Acknowledge, Fail
  <2>36. ASSUME StartRead PROVE BoardingsAudited'
    BY <2>36 DEF StartRead
  <2>37. ASSUME StartUpdate PROVE BoardingsAudited'
    BY <2>37 DEF StartUpdate
  <2>38. ASSUME StartAbort PROVE BoardingsAudited'
    BY <2>38 DEF StartAbort
  <2>35. CASE UNCHANGED vars
    BY <2>35 DEF vars
  <2> QED
    BY <2>1, <2>2, <2>3, <2>4, <2>5, <2>6, <2>7, <2>8, <2>9, <2>10, <2>11, <2>12, <2>13, <2>14, <2>15, <2>16, <2>17, <2>18, <2>19, <2>20, <2>21, <2>22, <2>23, <2>24, <2>25, <2>26, <2>27, <2>28, <2>29, <2>30, <2>31, <2>32, <2>33, <2>34, <2>35, <2>36, <2>37, <2>38
       DEF Next, ScanStep, MarkStep, OverrideStep, StartStep, EndStep, JobStep
<1> QED
  BY <1>1, <1>2, TypeCorrect, PTL DEF Spec

-----------------------------------------------------------------------------
(* The logs that a scan or the driver wrote. *)
CountedLogs == {s \in Students : log[s].method \in {"QR_SCAN", "MANUAL_DRIVER"}}

LEMMA CountedLogsFinite ==
  /\ IsFiniteSet(CountedLogs) /\ Cardinality(CountedLogs) \in Nat
  /\ IsFiniteSet(CountedLogs') /\ Cardinality(CountedLogs') \in Nat
<1>1. CountedLogs \subseteq Students /\ CountedLogs' \subseteq Students
  BY DEF CountedLogs
<1> QED
  BY <1>1, StudentsFinite, FS_Subset, FS_CardinalityType

(* A step that counts no new log and leaves boardedCount alone. *)
LEMMA NoNewCountedLog ==
  ASSUME TypeOK, BoardedCoversLogs, CountedLogs' \subseteq CountedLogs, trip'.boarded = trip.boarded
  PROVE  BoardedCoversLogs'
<1>1. Cardinality(CountedLogs') <= Cardinality(CountedLogs)
  BY CountedLogsFinite, FS_Subset
<1>2. Cardinality(CountedLogs) <= trip.boarded
  BY DEF BoardedCoversLogs, CountedLogs
<1>3. Cardinality(CountedLogs') <= trip'.boarded
  BY <1>1, <1>2, CountedLogsFinite DEF TypeOK
<1> QED
  BY <1>3 DEF BoardedCoversLogs, CountedLogs

(* A boarding counts at most one new log and increments boardedCount. *)
LEMMA BoardKeepsCover ==
  ASSUME TypeOK, BoardedCoversLogs, NEW s \in Students, NEW status, NEW method, Board(s, status, method)
  PROVE  BoardedCoversLogs'
<1>1. CountedLogs' \subseteq CountedLogs \cup {s}
  BY DEF Board, CountedLogs, TypeOK
<1>2. /\ IsFiniteSet(CountedLogs \cup {s})
      /\ Cardinality(CountedLogs \cup {s}) \in Nat
      /\ Cardinality(CountedLogs \cup {s}) <= Cardinality(CountedLogs) + 1
  <2>1. /\ IsFiniteSet(CountedLogs \cup {s})
        /\ \/ Cardinality(CountedLogs \cup {s}) = Cardinality(CountedLogs)
           \/ Cardinality(CountedLogs \cup {s}) = Cardinality(CountedLogs) + 1
    BY CountedLogsFinite, FS_AddElement
  <2> HIDE DEF CountedLogs
  <2> QED
    BY <2>1, CountedLogsFinite
<1>3. Cardinality(CountedLogs') <= Cardinality(CountedLogs) + 1
  BY <1>1, <1>2, CountedLogsFinite, FS_Subset
<1>4. Cardinality(CountedLogs) <= trip.boarded
  BY DEF BoardedCoversLogs, CountedLogs
<1>5. trip'.boarded = trip.boarded + 1 /\ trip.boarded \in Nat
  BY DEF Board, TypeOK
<1>6. Cardinality(CountedLogs') <= trip'.boarded
  BY <1>3, <1>4, <1>5, CountedLogsFinite
<1> QED
  BY <1>6 DEF BoardedCoversLogs, CountedLogs

(* boardedCount never falls behind the logs of scans and manual marks. *)
THEOREM BoardedCovers == Spec => []BoardedCoversLogs
<1>1. Init => BoardedCoversLogs
  <2> SUFFICES ASSUME Init PROVE BoardedCoversLogs
    OBVIOUS
  <2>1. {s \in Students : log[s].method \in {"QR_SCAN", "MANUAL_DRIVER"}} = {}
    BY DEF Init, NoLog
  <2>2. Cardinality({s \in Students : log[s].method \in {"QR_SCAN", "MANUAL_DRIVER"}}) = 0
    BY <2>1, FS_EmptySet
  <2> QED
    BY <2>2 DEF Init, BoardedCoversLogs
<1>2. TypeOK /\ BoardedCoversLogs /\ [Next]_vars => BoardedCoversLogs'
  <2> SUFFICES ASSUME TypeOK, BoardedCoversLogs, [Next]_vars PROVE BoardedCoversLogs'
    OBVIOUS
  <2> DEFINE Quiet == CountedLogs' \subseteq CountedLogs /\ trip'.boarded = trip.boarded
  <2>1. ASSUME NEW r \in Scanners, ScanCommit(r) PROVE BoardedCoversLogs'
    BY <2>1, BoardKeepsCover DEF ScanCommit, TypeOK, Scans, Idle
  <2>2. ASSUME NEW m \in Markers, MarkWrite(m) PROVE BoardedCoversLogs'
    BY <2>2, BoardKeepsCover DEF MarkWrite, TypeOK, Marks, Idle
  <2>3. ASSUME NEW r \in Scanners, ScanFail(r) PROVE Quiet
    BY <2>3 DEF ScanFail, FailedAttempt, CountedLogs, TypeOK, Scans, Idle
  <2>4. ASSUME OverrideWrite PROVE Quiet
    BY <2>4 DEF OverrideWrite, CountedLogs, TypeOK
  <2>5. ASSUME NEW e \in Enders, JobUpdate(e) PROVE Quiet
    BY <2>5 DEF JobUpdate, Answer, Acknowledge, Fail, ToMarkAbsent, CountedLogs, TypeOK, Logs, NoLog
  <2>6. ASSUME NEW e \in Enders, NEW s \in Students, OutageFinalise(e, s) PROVE Quiet
    BY <2>6 DEF OutageFinalise, CountedLogs, TypeOK
  <2>7. ASSUME UNCHANGED log, trip'.boarded = trip.boarded PROVE Quiet
    BY <2>7 DEF CountedLogs
  <2>8. DelegateActivate \/ StartUpdate \/ (\E e \in Enders : EndUpdate(e))
          => UNCHANGED log /\ trip'.boarded = trip.boarded
    BY DEF DelegateActivate, StartUpdate, EndUpdate, TypeOK
  <2>9. (\/ \E n \in Nonces : IssueNonce(n) \/ ExpireNonce(n)
         \/ \E r \in Scanners, s \in Students, n \in Nonces : ScanStart(r, s, n)
         \/ \E r \in Scanners : ScanBurn(r) \/ ScanRefused(r) \/ ScanValidate(r) \/ ScanEvent(r) \/ ScanAbort(r)
         \/ \E r \in Scanners, fence \in Fences : ScanExisting(r, fence)
         \/ \E m \in Markers, s \in Students : MarkStart(m, s)
         \/ \E m \in Markers : MarkEvent(m) \/ MarkAbort(m)
         \/ OverrideStart \/ OverrideEvents \/ OverrideAbort \/ DelegateStart \/ StartRead \/ StartAbort)
        => UNCHANGED <<log, trip>>
    BY DEF IssueNonce, ExpireNonce, ScanStart, ScanBurn, ScanRefused, ScanValidate, ScanEvent, ScanAbort,
           ScanExisting, MarkStart, MarkEvent, MarkAbort, OverrideStart, OverrideEvents, OverrideAbort,
           DelegateStart, StartRead, StartAbort, rowVars
  <2>10. (\/ \E e \in Enders : \/ EndStart(e) \/ EndSchedule(e) \/ EndAbort(e)
                              \/ JobStart(e) \/ JobDefer(e) \/ JobSelect(e) \/ JobEvents(e) \/ JobCrash(e)
                              \/ OutageStart(e) \/ OutageDone(e)
          \/ UNCHANGED vars)
         => UNCHANGED <<log, trip>>
    BY DEF EndStart, EndSchedule, EndAbort, JobStart, JobDefer, JobSelect, JobEvents, JobCrash, OutageStart,
           OutageDone, vars, rowVars
  <2>11. BoardedCoversLogs' \/ Quiet
    BY <2>1, <2>2, <2>3, <2>4, <2>5, <2>6, <2>7, <2>8, <2>9, <2>10
       DEF Next, ScanStep, MarkStep, OverrideStep, StartStep, EndStep, JobStep
  <2> QED
    BY <2>11, NoNewCountedLog
<1> QED
  BY <1>1, <1>2, TypeCorrect, PTL DEF Spec
-----------------------------------------------------------------------------
(* The refinement of Attendance.  A log once written is never taken away, so *)
(* what gps-outage-absent has in its snapshot has a log.                     *)
SnapshotInv ==
  \A e \in Enders : job[e].pc = "finalise" => \A s \in job[e].targets : log[s] # NoLog

(* The steps that touch neither the rows nor the history of the tokens.      *)
RowsUntouched ==
  \/ \E n \in Nonces : IssueNonce(n) \/ ExpireNonce(n)
  \/ \E r \in Scanners, s \in Students, n \in Nonces : ScanStart(r, s, n)
  \/ \E r \in Scanners : ScanBurn(r) \/ ScanRefused(r) \/ ScanValidate(r) \/ ScanEvent(r) \/ ScanAbort(r)
  \/ \E r \in Scanners, fence \in Fences : ScanExisting(r, fence)
  \/ \E m \in Markers, s \in Students : MarkStart(m, s)
  \/ \E m \in Markers : MarkEvent(m) \/ MarkAbort(m)
  \/ OverrideStart \/ OverrideEvents \/ OverrideAbort \/ DelegateStart
  \/ StartRead \/ StartAbort
  \/ \E e \in Enders : EndStart(e) \/ EndSchedule(e) \/ EndAbort(e) \/ JobCrash(e)
  \/ \E e \in Enders : JobStart(e) \/ JobDefer(e) \/ JobSelect(e) \/ JobEvents(e) \/ OutageStart(e) \/ OutageDone(e)

LEMMA RowsAreUntouched == RowsUntouched => UNCHANGED <<trip, log, admitted>>
<1>1. (\/ \E n \in Nonces : IssueNonce(n) \/ ExpireNonce(n)
       \/ \E r \in Scanners, s \in Students, n \in Nonces : ScanStart(r, s, n)
       \/ \E r \in Scanners : ScanBurn(r) \/ ScanRefused(r) \/ ScanValidate(r) \/ ScanEvent(r) \/ ScanAbort(r)
       \/ \E r \in Scanners, fence \in Fences : ScanExisting(r, fence))
      => UNCHANGED <<trip, log, admitted>>
  BY DEF IssueNonce, ExpireNonce, ScanStart, ScanBurn, ScanRefused, ScanValidate, ScanEvent, ScanAbort,
         ScanExisting, rowVars, histVars
<1>2. (\/ \E m \in Markers, s \in Students : MarkStart(m, s)
       \/ \E m \in Markers : MarkEvent(m) \/ MarkAbort(m)
       \/ OverrideStart \/ OverrideEvents \/ OverrideAbort \/ DelegateStart \/ StartRead \/ StartAbort)
      => UNCHANGED <<trip, log, admitted>>
  BY DEF MarkStart, MarkEvent, MarkAbort, OverrideStart, OverrideEvents, OverrideAbort, DelegateStart,
         StartRead, StartAbort, rowVars, histVars
<1>3. (\/ \E e \in Enders : EndStart(e) \/ EndSchedule(e) \/ EndAbort(e) \/ JobCrash(e)
       \/ \E e \in Enders : JobStart(e) \/ JobDefer(e) \/ JobSelect(e) \/ JobEvents(e) \/ OutageStart(e) \/ OutageDone(e))
      => UNCHANGED <<trip, log, admitted>>
  BY DEF EndStart, EndSchedule, EndAbort, JobCrash, JobStart, JobDefer, JobSelect, JobEvents, OutageStart,
         OutageDone, rowVars, histVars
<1> QED
  BY <1>1, <1>2, <1>3 DEF RowsUntouched

LEMMA NextCases ==
  ASSUME [Next]_vars
  PROVE  \/ RowsUntouched \/ UNCHANGED vars
         \/ \E r \in Scanners : ScanFail(r) \/ ScanCommit(r)
         \/ \E m \in Markers : MarkWrite(m)
         \/ OverrideWrite \/ DelegateActivate \/ StartUpdate
         \/ \E e \in Enders : EndUpdate(e) \/ JobUpdate(e)
         \/ \E e \in Enders, s \in Students : OutageFinalise(e, s)
  BY DEF Next, ScanStep, MarkStep, OverrideStep, StartStep, EndStep, JobStep, RowsUntouched

(* A step keeps the logs that exist. *)
LogsKept == \A s \in Students : log[s] # NoLog => log'[s] # NoLog
LEMMA LogsAreKept ==
  ASSUME TypeOK, [Next]_vars PROVE LogsKept
<1> USE DEF LogsKept, TypeOK, Logs, NoLog
<1>1. ASSUME NEW r \in Scanners, ScanFail(r) PROVE LogsKept
  BY <1>1 DEF ScanFail, FailedAttempt
<1>2. ASSUME NEW r \in Scanners, ScanCommit(r) PROVE LogsKept
  BY <1>2 DEF ScanCommit, Board, Fences, Present
<1>3. ASSUME NEW m \in Markers, MarkWrite(m) PROVE LogsKept
  BY <1>3 DEF MarkWrite, Board
<1>4. ASSUME OverrideWrite PROVE LogsKept
  BY <1>4 DEF OverrideWrite
<1>5. ASSUME NEW e \in Enders, JobUpdate(e) PROVE LogsKept
  BY <1>5 DEF JobUpdate
<1>6. ASSUME NEW e \in Enders, NEW s \in Students, OutageFinalise(e, s) PROVE LogsKept
  BY <1>6 DEF OutageFinalise
<1>7. CASE DelegateActivate \/ StartUpdate \/ \E e \in Enders : EndUpdate(e)
  BY <1>7 DEF DelegateActivate, StartUpdate, EndUpdate
<1>8. CASE RowsUntouched \/ UNCHANGED vars
  BY <1>8, RowsAreUntouched DEF vars, rowVars
<1> QED
  BY <1>1, <1>2, <1>3, <1>4, <1>5, <1>6, <1>7, <1>8, NextCases

(* The steps of the requests leave the ends, the tasks and the jobs alone.   *)
RequestStep ==
  \/ \E n \in Nonces : IssueNonce(n) \/ ExpireNonce(n)
  \/ \E r \in Scanners, s \in Students, n \in Nonces : ScanStart(r, s, n)
  \/ \E r \in Scanners : ScanStep(r)
  \/ \E m \in Markers, s \in Students : MarkStart(m, s)
  \/ \E m \in Markers : MarkStep(m)
  \/ OverrideStart \/ OverrideStep \/ DelegateStart \/ DelegateActivate
  \/ StartRead \/ StartStep \/ UNCHANGED vars

LEMMA RequestsLeaveJobs == RequestStep => UNCHANGED <<ender, tasks, job>>
<1>1. ASSUME \/ \E n \in Nonces : IssueNonce(n) \/ ExpireNonce(n)
             \/ \E r \in Scanners, s \in Students, n \in Nonces : ScanStart(r, s, n)
             \/ \E r \in Scanners : ScanStep(r)
      PROVE  UNCHANGED <<ender, tasks, job>>
  BY <1>1 DEF IssueNonce, ExpireNonce, ScanStart, ScanStep, ScanBurn, ScanRefused, ScanValidate, ScanExisting,
              ScanFail, ScanCommit, ScanEvent, ScanAbort, jobVars
<1>2. ASSUME \/ \E m \in Markers, s \in Students : MarkStart(m, s)
             \/ \E m \in Markers : MarkStep(m)
             \/ OverrideStart \/ OverrideStep \/ DelegateStart \/ DelegateActivate
             \/ StartRead \/ StartStep \/ UNCHANGED vars
      PROVE  UNCHANGED <<ender, tasks, job>>
  BY <1>2 DEF MarkStart, MarkStep, MarkWrite, MarkEvent, MarkAbort, OverrideStart, OverrideStep, OverrideWrite,
              OverrideEvents, OverrideAbort, DelegateStart, DelegateActivate, StartRead, StartStep, StartUpdate,
              StartAbort, vars, jobVars
<1> QED
  BY <1>1, <1>2 DEF RequestStep

(* The snapshot of a delivery is taken from the PENDING logs and only shrinks.*)
LEMMA SnapshotsShrink ==
  ASSUME TypeOK, [Next]_vars, NEW e \in Enders, job'[e].pc = "finalise"
  PROVE  \/ job'[e].targets = PendingLogs
         \/ job[e].pc = "finalise" /\ job'[e].targets \subseteq job[e].targets
<1> DEFINE Shrinks == \/ job'[e].targets = PendingLogs
                      \/ job[e].pc = "finalise" /\ job'[e].targets \subseteq job[e].targets
<1> USE DEF TypeOK, Jobs, Idle
<1>1. ASSUME NEW f \in Enders, \/ JobStart(f) \/ JobDefer(f) \/ JobUpdate(f) \/ JobSelect(f) \/ JobEvents(f)
                               \/ OutageDone(f) \/ JobCrash(f)
      PROVE  Shrinks
  BY <1>1 DEF JobStart, JobDefer, JobUpdate, JobSelect, JobEvents, OutageDone, JobCrash, Acknowledge, Fail, Answer
<1>2. ASSUME NEW f \in Enders, OutageStart(f) PROVE Shrinks
  BY <1>2 DEF OutageStart, Acknowledge, Answer
<1>3. ASSUME NEW f \in Enders, NEW s \in Students, OutageFinalise(f, s) PROVE Shrinks
  BY <1>3 DEF OutageFinalise
<1>4. ASSUME UNCHANGED job PROVE Shrinks
  BY <1>4
<1>5. ASSUME NEW f \in Enders, EndStart(f) \/ EndStep(f) PROVE UNCHANGED job
  BY <1>5 DEF EndStart, EndStep, EndUpdate, EndSchedule, EndAbort, jobVars
<1> QED
  BY <1>1, <1>2, <1>3, <1>4, <1>5, RequestsLeaveJobs DEF Next, JobStep, RequestStep

LEMMA SnapshotInvariant == Spec => []SnapshotInv
<1>1. Init => SnapshotInv
  BY DEF Init, SnapshotInv, Idle
<1>2. TypeOK /\ SnapshotInv /\ [Next]_vars => SnapshotInv'
  <2> SUFFICES ASSUME TypeOK, SnapshotInv, [Next]_vars,
                      NEW e \in Enders, job'[e].pc = "finalise", NEW s \in job'[e].targets
               PROVE  log'[s] # NoLog
    BY DEF SnapshotInv, NoLog
  <2>1. s \in Students /\ log[s] # NoLog
    BY SnapshotsShrink DEF PendingLogs, SnapshotInv, NoLog, TypeOK, Jobs, Idle
  <2> QED
    BY <2>1, LogsAreKept DEF LogsKept
<1> QED
  BY <1>1, <1>2, TypeCorrect, PTL DEF Spec

-----------------------------------------------------------------------------
(* Only the steps of startTrip start, and only they may reopen the trip.     *)
LEMMA OnlyStartsStart ==
  RowsUntouched => UNCHANGED <<starting, reopened>> \/ StartRead \/ StartAbort
<1>1. (\/ \E n \in Nonces : IssueNonce(n) \/ ExpireNonce(n)
       \/ \E r \in Scanners, s \in Students, n \in Nonces : ScanStart(r, s, n)
       \/ \E r \in Scanners : ScanBurn(r) \/ ScanRefused(r) \/ ScanValidate(r) \/ ScanEvent(r) \/ ScanAbort(r)
       \/ \E r \in Scanners, fence \in Fences : ScanExisting(r, fence))
      => UNCHANGED <<starting, reopened>>
  BY DEF IssueNonce, ExpireNonce, ScanStart, ScanBurn, ScanRefused, ScanValidate, ScanEvent, ScanAbort,
         ScanExisting, histVars
<1>2. (\/ \E m \in Markers, s \in Students : MarkStart(m, s)
       \/ \E m \in Markers : MarkEvent(m) \/ MarkAbort(m)
       \/ OverrideStart \/ OverrideEvents \/ OverrideAbort \/ DelegateStart)
      => UNCHANGED <<starting, reopened>>
  BY DEF MarkStart, MarkEvent, MarkAbort, OverrideStart, OverrideEvents, OverrideAbort, DelegateStart, histVars
<1>3. (\/ \E e \in Enders : EndStart(e) \/ EndSchedule(e) \/ EndAbort(e) \/ JobCrash(e)
       \/ \E e \in Enders : JobStart(e) \/ JobDefer(e) \/ JobSelect(e) \/ JobEvents(e) \/ OutageStart(e) \/ OutageDone(e))
      => UNCHANGED <<starting, reopened>>
  BY DEF EndStart, EndSchedule, EndAbort, JobCrash, JobStart, JobDefer, JobSelect, JobEvents, OutageStart,
         OutageDone, histVars
<1> QED
  BY <1>1, <1>2, <1>3 DEF RowsUntouched

-----------------------------------------------------------------------------
Shown == [s \in Students |-> Standing(s)]

(* What the rows become is what the abstract attendance becomes.             *)
LEMMA StandingBecomes ==
  ASSUME NEW S, NEW what,
         \A s \in Students : Standing(s)' = IF s \in S THEN what ELSE Standing(s)
  PROVE  Abstract!Become(S, what)
<1>1. Shown' = [s \in Students |-> IF s \in S THEN what ELSE Standing(s)]
  BY DEF Shown
<1> QED
  BY <1>1 DEF Abstract!Become, Shown

(* The attendance handlers and jobs implement the abstract attendance.       *)
THEOREM AttendanceImplemented == Spec => ImplementsAttendance
<1> USE BoundsNat DEF TypeOK, Logs, Statuses, OnBoard, Present, NoLog, Idle
<1>1. Init => Abstract!Init
  BY DEF Init, Abstract!Init, Standing, Phase, Over
<1>2. TypeOK /\ NonceInv /\ FinalisationInv /\ SnapshotInv /\ [Next]_vars
        => [Abstract!Next]_(Abstract!vars)
  <2> SUFFICES ASSUME TypeOK, NonceInv, FinalisationInv, SnapshotInv, [Next]_vars
               PROVE  Abstract!Next \/ UNCHANGED Abstract!vars
    OBVIOUS
  <2>1. ASSUME NEW r \in Scanners, ScanCommit(r) PROVE Abstract!Next
    <3>1. PICK s \in Students, n \in Nonces :
                 scan[r].pc = "write" /\ scan[r].student = s /\ scan[r].nonce = n
      BY <2>1 DEF ScanCommit, Scans
    <3>2. admitted[n] = 0 /\ admitted' = [admitted EXCEPT ![n] = admitted[n] + 1]
      BY <2>1, <3>1 DEF ScanCommit, NonceInv, Owns
    <3>3. \A q \in Students : Standing(q)' = IF q \in {s} THEN "onBoard" ELSE Standing(q)
      BY <2>1, <3>1 DEF ScanCommit, Board, Standing, Fences
    <3>4. UNCHANGED <<trip.status, trip.outage, starting, reopened>> /\ trip'.boarded = trip.boarded + 1
      BY <2>1 DEF ScanCommit, Board
    <3>7. UNCHANGED <<Phase, Over>> /\ Phase # "scheduled"
      BY <3>1, <3>4 DEF Phase, Over, FinalisationInv, Begun
    <3>5. {m \in Nonces : admitted[m] > 0}' = {m \in Nonces : admitted[m] > 0} \cup {n}
      BY <3>2
    <3>6. Abstract!Admit(s, n)
      BY <3>2, <3>3, <3>4, <3>5, <3>7, StandingBecomes DEF Abstract!Admit, Abstract!course
    <3> QED
      BY <3>6 DEF Abstract!Next
  <2>2. ASSUME NEW m \in Markers, MarkWrite(m) PROVE Abstract!Next
    <3> DEFINE s == mark[m].student
    <3>1. s \in Students
      BY <2>2 DEF MarkWrite, Marks
    <3>2. \A q \in Students : Standing(q)' = IF q \in {s} THEN "onBoard" ELSE Standing(q)
      BY <2>2, <3>1 DEF MarkWrite, Board, Standing
    <3>3. UNCHANGED <<trip.status, trip.outage, admitted, starting, reopened>> /\ trip'.boarded = trip.boarded + 1
      BY <2>2 DEF MarkWrite, Board
    <3>5. UNCHANGED <<Phase, Over>> /\ Phase # "scheduled"
      BY <2>2, <3>3 DEF MarkWrite, Phase, Over, FinalisationInv, Begun
    <3>4. Abstract!Mark(s)
      BY <3>2, <3>3, <3>5, StandingBecomes DEF Abstract!Mark, Abstract!course
    <3> QED
      BY <3>1, <3>4 DEF Abstract!Next
  <2>3. ASSUME NEW r \in Scanners, ScanFail(r) PROVE Abstract!Next
    <3> DEFINE s == scan[r].student
    <3>1. s \in Students
      BY <2>3 DEF ScanFail, Scans
    <3>2. \A q \in Students : Standing(q)' = IF q \in {s} THEN "pending" ELSE Standing(q)
      BY <2>3, <3>1 DEF ScanFail, FailedAttempt, Standing
    <3>3. UNCHANGED <<trip, admitted, starting, reopened>>
      BY <2>3 DEF ScanFail, histVars
    <3>5. UNCHANGED <<Phase, Over>> /\ Phase # "scheduled"
      BY <2>3, <3>3 DEF ScanFail, Phase, Over, FinalisationInv, Begun
    <3>4. Abstract!Contest(s)
      BY <3>2, <3>3, <3>5, StandingBecomes DEF Abstract!Contest, Abstract!course
    <3> QED
      BY <3>1, <3>4 DEF Abstract!Next
  <2>4. ASSUME OverrideWrite PROVE Abstract!Next
    <3> DEFINE S == override.targets
    <3>1. S \in SUBSET Students
      BY <2>4 DEF OverrideWrite, Overrides
    <3>2. \A q \in Students : Standing(q)' = IF q \in S THEN "onBoard" ELSE Standing(q)
      BY <2>4, <3>1 DEF OverrideWrite, Standing
    <3>3. UNCHANGED <<trip, admitted, starting, reopened>>
      BY <2>4 DEF OverrideWrite
    <3>5. UNCHANGED <<Phase, Over>>
      BY <3>3 DEF Phase, Over
    <3>4. Abstract!Override(S)
      BY <3>2, <3>3, <3>5, StandingBecomes DEF Abstract!Override, Abstract!course
    <3> QED
      BY <3>1, <3>4 DEF Abstract!Next
  <2>5. ASSUME NEW e \in Enders, JobUpdate(e) PROVE Abstract!Next
    <3> DEFINE S == PendingLogs
    <3>1. S \in SUBSET Students /\ \A s \in S : Standing(s) = "pending"
      BY DEF PendingLogs, Standing
    <3>2. \A q \in Students : Standing(q)' = IF q \in S THEN "absent" ELSE Standing(q)
      BY <2>5 DEF JobUpdate, ToMarkAbsent, PendingLogs, Standing
    <3>3. UNCHANGED <<trip, admitted, starting, reopened>>
      BY <2>5 DEF JobUpdate, histVars
    <3>4. Over
      BY <2>5 DEF JobUpdate, FinalisationInv
    <3>7. UNCHANGED <<Phase, Over>>
      BY <3>3 DEF Phase, Over
    <3>5. \A s \in S : Shown[s] = "pending"
      BY <3>1 DEF Shown
    <3>6. Abstract!MarkAbsent(S)
      BY <3>2, <3>3, <3>4, <3>5, <3>7, StandingBecomes DEF Abstract!MarkAbsent, Abstract!course, Shown
    <3> QED
      BY <3>1, <3>6 DEF Abstract!Next
  <2>6. ASSUME NEW e \in Enders, NEW s \in Students, OutageFinalise(e, s) PROVE Abstract!Next
    <3>1. Over /\ trip.outage
      BY <2>6 DEF OutageFinalise, FinalisationInv
    <3>2. Standing(s) # "none"
      BY <2>6 DEF OutageFinalise, SnapshotInv, Standing
    <3>3. \A q \in Students : Standing(q)' = IF q \in {s} THEN "absent" ELSE Standing(q)
      BY <2>6 DEF OutageFinalise, Standing
    <3>4. UNCHANGED <<trip, admitted, starting, reopened>>
      BY <2>6 DEF OutageFinalise, histVars
    <3>6. UNCHANGED <<Phase, Over>>
      BY <3>4 DEF Phase, Over
    <3>5. Abstract!FinaliseOutage(s)
      BY <3>1, <3>2, <3>3, <3>4, <3>6, StandingBecomes DEF Abstract!FinaliseOutage, Abstract!course
    <3> QED
      BY <3>5 DEF Abstract!Next
  <2>7. ASSUME NEW e \in Enders, EndUpdate(e) PROVE Abstract!Next
    <3>1. UNCHANGED <<trip.outage, trip.boarded, admitted, starting, log>> /\ trip'.status = "COMPLETED"
      BY <2>7 DEF EndUpdate, histVars
    <3>2. Phase # "scheduled" /\ Phase' = "over" /\ Over'
      BY <2>7, <3>1 DEF EndUpdate, Phase, Over, FinalisationInv, Begun
    <3>3. Abstract!End
      BY <3>1, <3>2 DEF Abstract!End, Standing
    <3> QED
      BY <3>3 DEF Abstract!Next
  <2>8. ASSUME DelegateActivate PROVE Abstract!Next
    <3>1. UNCHANGED <<trip.status, trip.boarded, admitted, starting, reopened, log>> /\ trip'.outage = TRUE
      BY <2>8 DEF DelegateActivate, histVars
    <3>2. UNCHANGED <<Phase, Over>> /\ Phase # "scheduled"
      BY <2>8, <3>1 DEF DelegateActivate, Phase, Over, FinalisationInv, Begun
    <3>3. Abstract!RecordOutage
      BY <3>1, <3>2 DEF Abstract!RecordOutage, Abstract!course, Standing
    <3> QED
      BY <3>3 DEF Abstract!Next
  <2>9. ASSUME UNCHANGED <<trip, log, admitted, starting, reopened>> PROVE UNCHANGED Abstract!vars
    BY <2>9 DEF Abstract!vars, Abstract!course, Standing, Phase, Over
  <2>10. RowsUntouched \/ UNCHANGED vars
           => UNCHANGED <<trip, log, admitted, starting, reopened>> \/ StartRead \/ StartAbort
    BY RowsAreUntouched, OnlyStartsStart DEF vars, rowVars, histVars
  <2>11. ASSUME StartUpdate PROVE Abstract!Next
    <3>1. UNCHANGED <<trip.outage, trip.boarded, admitted, log>> /\ trip'.status = "ACTIVE" /\ starting > 0
      BY <2>11 DEF StartUpdate
    <3>2. Phase' = "running" /\ UNCHANGED Over
      BY <2>11, <3>1 DEF StartUpdate, Phase, Over
    <3>3. Abstract!Start
      BY <3>1, <3>2 DEF Abstract!Start, Standing
    <3> QED
      BY <3>3 DEF Abstract!Next
  <2>12. ASSUME StartRead PROVE Abstract!Next
    <3>1. UNCHANGED <<trip, log, admitted, reopened>> /\ starting' > 0 /\ trip.status = "SCHEDULED"
      BY <2>12 DEF StartRead, rowVars, histVars
    <3>2. UNCHANGED <<Phase, Over>> /\ Phase = "scheduled"
      BY <3>1 DEF Phase, Over
    <3>3. Abstract!Ask
      BY <3>1, <3>2 DEF Abstract!Ask, Standing
    <3> QED
      BY <3>3 DEF Abstract!Next
  <2>13. ASSUME StartAbort PROVE Abstract!Next \/ UNCHANGED Abstract!vars
    <3>1. UNCHANGED <<trip, log, admitted, reopened>> /\ starting > 0 /\ (starting' > 0 \/ starting' = 0)
      BY <2>13 DEF StartAbort, rowVars, histVars
    <3>2. UNCHANGED <<Phase, Over>>
      BY <3>1 DEF Phase, Over
    <3>3. Abstract!GiveUp \/ UNCHANGED Abstract!vars
      BY <3>1, <3>2 DEF Abstract!GiveUp, Abstract!vars, Abstract!course, Standing
    <3> QED
      BY <3>3 DEF Abstract!Next
  <2> QED
    BY <2>1, <2>2, <2>3, <2>4, <2>5, <2>6, <2>7, <2>8, <2>9, <2>10, <2>11, <2>12, <2>13, NextCases
<1> QED
  BY <1>1, <1>2, TypeCorrect, NonceInvariant, FinalisationInvariant, SnapshotInvariant, PTL
     DEF Spec, ImplementsAttendance, Abstract!Spec
-----------------------------------------------------------------------------
(* One task at a time per caller: an end of the trip finds no task of its    *)
(* caller queued, and only a queued task has a delivery.                    *)
OneTaskInv ==
  \A e \in Enders : /\ ender[e] # "idle" => tasks[e] = "none"
                    /\ job[e] # Idle => tasks[e] # "none"

LEMMA OneTaskInvariant == Spec => []OneTaskInv
<1>1. Init => OneTaskInv
  BY DEF Init, OneTaskInv
<1>2. TypeOK /\ OneTaskInv /\ [Next]_vars => OneTaskInv'
  <2> SUFFICES ASSUME TypeOK, OneTaskInv, [Next]_vars PROVE OneTaskInv'
    OBVIOUS
  <2> USE DEF OneTaskInv, TypeOK, Jobs, Idle, TaskKinds
  <2>1. ASSUME RequestStep PROVE OneTaskInv'
    BY <2>1, RequestsLeaveJobs
  <2>2. ASSUME NEW f \in Enders, EndStart(f) PROVE OneTaskInv'
    BY <2>2 DEF EndStart, jobVars
  <2>3. ASSUME NEW f \in Enders, EndUpdate(f) PROVE OneTaskInv'
    BY <2>3 DEF EndUpdate, jobVars
  <2>4. ASSUME NEW f \in Enders, EndSchedule(f) PROVE OneTaskInv'
    BY <2>4 DEF EndSchedule, CreateTask
  <2>5. ASSUME NEW f \in Enders, EndAbort(f) PROVE OneTaskInv'
    BY <2>5 DEF EndAbort, jobVars
  <2>6. ASSUME NEW f \in Enders, JobStart(f) \/ JobDefer(f) \/ JobUpdate(f) PROVE OneTaskInv'
    BY <2>6 DEF JobStart, JobDefer, JobUpdate, Acknowledge, Fail, Answer
  <2>7. ASSUME NEW f \in Enders, JobSelect(f) \/ JobEvents(f) \/ JobCrash(f) PROVE OneTaskInv'
    BY <2>7 DEF JobSelect, JobEvents, JobCrash, Acknowledge, Fail, Answer
  <2>8. ASSUME NEW f \in Enders, OutageStart(f) \/ OutageDone(f) PROVE OneTaskInv'
    BY <2>8 DEF OutageStart, OutageDone, Acknowledge, Answer
  <2>9. ASSUME NEW f \in Enders, NEW s \in Students, OutageFinalise(f, s) PROVE OneTaskInv'
    BY <2>9 DEF OutageFinalise
  <2> QED
    BY <2>1, <2>2, <2>3, <2>4, <2>5, <2>6, <2>7, <2>8, <2>9 DEF Next, EndStep, JobStep, RequestStep
<1> QED
  BY <1>1, <1>2, TypeCorrect, PTL DEF Spec

(* A PENDING log that a task covers stays covered until it is finalised, but  *)
(* for a createTask that fails or a trip that a late start reopened.         *)
THEOREM NobodyAbandoned == Spec => NoneAbandoned
<1> DEFINE Kept(e, s) == log[s].status = "PENDING" /\ Covers(e, s) =>
                           \/ log'[s].status # "PENDING" \/ Covers(e, s)'
                           \/ ender[e] \in TaskKinds /\ tasks'[e] = "none"
                           \/ tasks[e] = "mark-absent" /\ job[e] = Idle /\ trip.status = "ACTIVE"
           AllKept == \A s \in Students, e \in Enders : Kept(e, s)
<1>1. TypeOK /\ FinalisationInv /\ OneTaskInv /\ [Next]_vars => [AllKept]_vars
  <2> SUFFICES ASSUME TypeOK, FinalisationInv, OneTaskInv, [Next]_vars PROVE AllKept
    OBVIOUS
  <2> USE DEF TypeOK, Jobs, Idle, TaskKinds, Covers, FinalisationInv, OneTaskInv
  <2>1. ASSUME UNCHANGED <<ender, tasks, job>> PROVE AllKept
    BY <2>1
  <2>2. ASSUME NEW f \in Enders, EndStep(f) \/ EndStart(f) PROVE AllKept
    <3>1. CASE EndStart(f)
      BY <3>1 DEF EndStart, jobVars
    <3>2. CASE EndUpdate(f)
      BY <3>2 DEF EndUpdate, jobVars
    <3>3. CASE EndSchedule(f)
      BY <3>3 DEF EndSchedule, CreateTask
    <3>4. CASE EndAbort(f)
      BY <3>4 DEF EndAbort, jobVars
    <3> QED
      BY <2>2, <3>1, <3>2, <3>3, <3>4 DEF EndStep
  <2>3. ASSUME NEW f \in Enders, JobStart(f) PROVE AllKept
    <3>1. CASE trip.status = "COMPLETED"
      BY <2>3, <3>1 DEF JobStart
    <3>2. CASE trip.status # "COMPLETED"
      <4>1. trip.status = "ACTIVE" /\ tasks[f] = "mark-absent" /\ job[f] = Idle
        BY <2>3, <3>2 DEF JobStart, Over, Begun
      <4>2. \A e \in Enders : e # f => tasks'[e] = tasks[e] /\ job'[e] = job[e]
        BY <2>3, <3>2 DEF JobStart, Acknowledge, Answer
      <4>3. UNCHANGED <<ender, log>>
        BY <2>3 DEF JobStart, rowVars
      <4> QED
        BY <4>1, <4>2, <4>3
    <3> QED
      BY <3>1, <3>2
  <2>4. ASSUME NEW f \in Enders, JobDefer(f) PROVE AllKept
    BY <2>4 DEF JobDefer, PendingLogs, Acknowledge, Fail, Answer
  <2>5. ASSUME NEW f \in Enders, JobUpdate(f) PROVE AllKept
    BY <2>5 DEF JobUpdate, ToMarkAbsent, PendingLogs
  <2>6. ASSUME NEW f \in Enders, JobSelect(f) PROVE AllKept
    BY <2>6 DEF JobSelect
  <2>7. ASSUME NEW f \in Enders, JobEvents(f) PROVE AllKept
    BY <2>7 DEF JobEvents, Acknowledge, Fail, Answer
  <2>8. ASSUME NEW f \in Enders, OutageStart(f) PROVE AllKept
    BY <2>8 DEF OutageStart, PendingLogs, Acknowledge, Answer
  <2>9. ASSUME NEW f \in Enders, NEW q \in Students, OutageFinalise(f, q) PROVE AllKept
    BY <2>9 DEF OutageFinalise
  <2>10. ASSUME NEW f \in Enders, OutageDone(f) PROVE AllKept
    BY <2>10 DEF OutageDone, Acknowledge, Answer
  <2>11. ASSUME NEW f \in Enders, JobCrash(f) PROVE AllKept
    BY <2>11 DEF JobCrash, Fail, Answer
  <2> QED
    BY <2>1, <2>2, <2>3, <2>4, <2>5, <2>6, <2>7, <2>8, <2>9, <2>10, <2>11, RequestsLeaveJobs
       DEF Next, JobStep, RequestStep
<1> QED
  BY <1>1, TypeCorrect, FinalisationInvariant, OneTaskInvariant, PTL DEF Spec, NoneAbandoned

-----------------------------------------------------------------------------
LEMMA OnlyStartsMove ==
  ASSUME [Next]_vars PROVE UNCHANGED starting \/ StartRead \/ StartStep
<1>1. ASSUME \/ \E r \in Scanners : ScanFail(r) \/ ScanCommit(r)
             \/ \E m \in Markers : MarkWrite(m)
             \/ OverrideWrite \/ DelegateActivate
             \/ \E e \in Enders : EndUpdate(e) \/ JobUpdate(e)
             \/ \E e \in Enders, s \in Students : OutageFinalise(e, s)
      PROVE  UNCHANGED starting
  BY <1>1 DEF ScanFail, ScanCommit, MarkWrite, OverrideWrite, DelegateActivate, EndUpdate, JobUpdate, OutageFinalise
<1> QED
  BY <1>1, NextCases, OnlyStartsStart DEF vars, StartStep

(* Once the trip is over and no start is under way. *)
LEMMA StaysOver ==
  ASSUME TypeOK, [Next]_vars, trip.status = "COMPLETED", starting = 0
  PROVE  trip'.status = "COMPLETED" /\ starting' = 0
<1> USE DEF TypeOK
<1>1. ASSUME NEW r \in Scanners, ScanFail(r) \/ ScanCommit(r) PROVE trip'.status = trip.status
  BY <1>1 DEF ScanFail, ScanCommit, Board
<1>2. ASSUME NEW m \in Markers, MarkWrite(m) PROVE trip'.status = trip.status
  BY <1>2 DEF MarkWrite, Board
<1>3. OverrideWrite \/ DelegateActivate => trip'.status = trip.status
  BY DEF OverrideWrite, DelegateActivate
<1>4. ASSUME NEW e \in Enders, EndUpdate(e) PROVE trip'.status = "COMPLETED"
  BY <1>4 DEF EndUpdate
<1>5. ASSUME NEW e \in Enders, JobUpdate(e) \/ \E s \in Students : OutageFinalise(e, s) PROVE trip' = trip
  BY <1>5 DEF JobUpdate, OutageFinalise
<1>6. RowsUntouched \/ UNCHANGED vars => trip' = trip
  BY RowsAreUntouched DEF vars, rowVars
<1>7. ~StartRead /\ ~StartStep
  BY DEF StartRead, StartStep, StartUpdate, StartAbort
<1>8. starting' = starting
  BY <1>7, OnlyStartsMove
<1> QED
  BY <1>1, <1>2, <1>3, <1>4, <1>5, <1>6, <1>7, <1>8, NextCases DEF StartStep

(* Only a scan that gets past the check of the status adds to the latecomers. *)
LEMMA LatecomersLeave ==
  ASSUME TypeOK, [Next]_vars, trip.status = "COMPLETED"
  PROVE  Latecomers' \subseteq Latecomers
<1> SUFFICES ASSUME ~(UNCHANGED scan) PROVE Latecomers' \subseteq Latecomers
  BY DEF Latecomers
<1>1. ASSUME NEW r \in Scanners, NEW c, c.pc \in {"existing", "write"} => scan[r].pc \in {"existing", "write"},
             scan' = [scan EXCEPT ![r] = c]
      PROVE  Latecomers' \subseteq Latecomers
  BY <1>1 DEF Latecomers, TypeOK
<1>2. ASSUME NEW r \in Scanners, NEW s \in Students, NEW n \in Nonces, ScanStart(r, s, n)
      PROVE  Latecomers' \subseteq Latecomers
  BY <1>1, <1>2 DEF ScanStart
<1>3. ASSUME NEW r \in Scanners, ScanBurn(r) PROVE Latecomers' \subseteq Latecomers
  <2> DEFINE c == [scan[r] EXCEPT !.pc = "validate"]
  <2>1. scan' = [scan EXCEPT ![r] = c] /\ scan[r] \in Scans
    BY <1>3 DEF ScanBurn, TypeOK, Idle
  <2>2. c.pc = "validate"
    BY <2>1 DEF Scans
  <2> HIDE DEF c
  <2> QED
    BY <1>1, <2>1, <2>2
<1>4. ASSUME NEW r \in Scanners, ScanRefused(r) \/ ScanFail(r) \/ ScanEvent(r) \/ ScanAbort(r)
      PROVE  Latecomers' \subseteq Latecomers
  <2>1. scan' = [scan EXCEPT ![r] = Idle] /\ Idle.pc = "idle"
    BY <1>4 DEF ScanRefused, ScanFail, ScanEvent, ScanAbort, Idle
  <2> QED
    BY <1>1, <2>1
<1>5. ASSUME NEW r \in Scanners, ScanValidate(r) PROVE FALSE
  BY <1>5 DEF ScanValidate
<1>6. ASSUME NEW r \in Scanners, NEW fence \in Fences, ScanExisting(r, fence)
      PROVE  Latecomers' \subseteq Latecomers
  <2>1. scan[r].pc = "existing" /\ \E c : scan' = [scan EXCEPT ![r] = c]
    BY <1>6 DEF ScanExisting
  <2> QED
    BY <1>1, <2>1
<1>7. ASSUME NEW r \in Scanners, ScanCommit(r) PROVE Latecomers' \subseteq Latecomers
  <2>1. scan[r].pc = "write" /\ scan' = [scan EXCEPT ![r] = [scan[r] EXCEPT !.pc = "event"]]
    BY <1>7 DEF ScanCommit
  <2> QED
    BY <1>1, <2>1
<1>8. \E r \in Scanners : ScanStep(r) \/ \E s \in Students, n \in Nonces : ScanStart(r, s, n)
  BY DEF Next, vars, IssueNonce, ExpireNonce, MarkStart, MarkStep, MarkWrite, MarkEvent, MarkAbort, OverrideStart,
         OverrideStep, OverrideWrite, OverrideEvents, OverrideAbort, DelegateStart, DelegateActivate,
         StartRead, StartStep, StartUpdate, StartAbort, EndStart,
         EndStep, EndUpdate, EndSchedule, EndAbort, JobStep, JobStart, JobDefer, JobUpdate, JobSelect, JobEvents,
         OutageStart, OutageFinalise, OutageDone, JobCrash
<1> QED
  BY <1>2, <1>3, <1>4, <1>5, <1>6, <1>7, <1>8 DEF ScanStep

(* Only a latecomer makes a log PENDING. *)
LEMMA OnlyLatecomersPend ==
  ASSUME TypeOK, [Next]_vars
  PROVE  PendingLogs' \subseteq PendingLogs \/ Latecomers' # Latecomers
<1> USE DEF TypeOK, PendingLogs
<1>1. ASSUME NEW r \in Scanners, ScanFail(r) PROVE Latecomers' # Latecomers
  <2>1. r \in Latecomers /\ scan'[r] = Idle
    BY <1>1 DEF ScanFail, Latecomers
  <2> QED
    BY <2>1 DEF Latecomers, Idle
<1>2. ASSUME NEW r \in Scanners, ScanCommit(r) PROVE PendingLogs' \subseteq PendingLogs
  BY <1>2 DEF ScanCommit, Board, Present
<1>3. ASSUME NEW m \in Markers, MarkWrite(m) PROVE PendingLogs' \subseteq PendingLogs
  BY <1>3 DEF MarkWrite, Board
<1>4. CASE OverrideWrite
  BY <1>4 DEF OverrideWrite
<1>5. ASSUME NEW e \in Enders, JobUpdate(e) PROVE PendingLogs' \subseteq PendingLogs
  BY <1>5 DEF JobUpdate, ToMarkAbsent
<1>6. ASSUME NEW e \in Enders, NEW s \in Students, OutageFinalise(e, s) PROVE PendingLogs' \subseteq PendingLogs
  BY <1>6 DEF OutageFinalise
<1>7. CASE RowsUntouched \/ UNCHANGED vars \/ DelegateActivate \/ StartUpdate \/ \E e \in Enders : EndUpdate(e)
  BY <1>7, RowsAreUntouched DEF vars, rowVars, DelegateActivate, StartUpdate, EndUpdate
<1> QED
  BY <1>1, <1>2, <1>3, <1>4, <1>5, <1>6, <1>7, NextCases

(* What a delivery of gps-outage-absent set out to finalise only shrinks.    *)
LEMMA TargetsShrink ==
  ASSUME TypeOK, [Next]_vars, NEW e \in Enders, job[e].pc = "finalise"
  PROVE  job'[e] = Idle \/ (job'[e].pc = "finalise" /\ job'[e].targets \subseteq job[e].targets)
<1> DEFINE Shrinks == job'[e] = Idle \/ (job'[e].pc = "finalise" /\ job'[e].targets \subseteq job[e].targets)
<1> USE DEF TypeOK, Jobs, Idle
<1>1. ASSUME NEW f \in Enders, \/ JobStart(f) \/ JobDefer(f) \/ JobUpdate(f) \/ JobSelect(f) \/ JobEvents(f)
                               \/ OutageDone(f) \/ JobCrash(f)
      PROVE  Shrinks
  BY <1>1 DEF JobStart, JobDefer, JobUpdate, JobSelect, JobEvents, OutageDone, JobCrash, Acknowledge, Fail, Answer
<1>2. ASSUME NEW f \in Enders, OutageStart(f) PROVE Shrinks
  BY <1>2 DEF OutageStart, Acknowledge, Answer
<1>3. ASSUME NEW f \in Enders, NEW s \in Students, OutageFinalise(f, s) PROVE Shrinks
  BY <1>3 DEF OutageFinalise
<1>4. ASSUME UNCHANGED job PROVE Shrinks
  BY <1>4
<1>5. ASSUME NEW f \in Enders, EndStart(f) \/ EndStep(f) PROVE UNCHANGED job
  BY <1>5 DEF EndStart, EndStep, EndUpdate, EndSchedule, EndAbort, jobVars
<1> QED
  BY <1>1, <1>2, <1>3, <1>4, <1>5, RequestsLeaveJobs DEF Next, JobStep, RequestStep

(* Once the trip is over for good, what finalisation has to do only dwindles, but for *)
(* each scan that had passed the check of the status.                        *)
THEOREM Dwindles == Spec => PendingDwindles
<1>1. TypeOK /\ [Next]_vars =>
        [trip.status = "COMPLETED" /\ starting = 0 =>
           /\ trip'.status = "COMPLETED" /\ starting' = 0
           /\ Latecomers' \subseteq Latecomers
           /\ PendingLogs' \subseteq PendingLogs \/ Latecomers' # Latecomers
           /\ \A e \in Enders : job[e].pc = "finalise" =>
                \/ job'[e] = Idle
                \/ job'[e].pc = "finalise" /\ job'[e].targets \subseteq job[e].targets]_vars
  BY StaysOver, LatecomersLeave, OnlyLatecomersPend, TargetsShrink
<1> QED
  BY <1>1, TypeCorrect, PTL DEF Spec, PendingDwindles
=============================================================================
