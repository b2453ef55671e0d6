---------------------------- MODULE Probe_proofs -----------------------------
(***************************************************************************)
(* Theorems about Probe, for every value of its constants.  IInv is kept   *)
(* by every step as long as no stop cuts a renewal's two moves and every   *)
(* write succeeds (NoCutInRenewal); CAIsComplete when the enrolment and    *)
(* the rewriting of proxy.env aren't cut either (NoCutAtAll).  One lemma   *)
(* per part of the invariant, one step per group of actions.               *)
(***************************************************************************)
EXTENDS Probe, TLAPS

\* The two flags stay Booleans.
LEMMA FlagsKept == ASSUME Flags, Next PROVE Flags'
<1> USE DEF Flags, Forget, Goto, WriteFails, WriteMetaThen, volume, script,
          outside
<1>1. CASE StartContainer \/ EnrollStep
  BY <1>1, ZenonT(60) DEF StartContainer, EnrollStep, CheckFiles, GenerateKey,
     PostAccepted, PostFailed, RemoveKeyAndExit, OpenCert, FillCert, OpenCA,
     FillCA, CheckName, RemoveAll
<1>2. CASE StartStep
  BY <1>2, ZenonT(60) DEF StartStep, OpenMeta, FillMeta, ReadMeta, TakeEnvCred,
     SyncWithArgus, SaveCounts, HandOver
<1>3. CASE LoopStep \/ HourPasses
  BY <1>3, ZenonT(60) DEF LoopStep, HourPasses, CheckIn, CertCheck,
     RenewalFailed, NewKey, CertificateArrives, SaveOldPair, MoveKey, MoveCert,
     RenewalDone
<1>4. CASE Stop \/ Terminated \/ Reconfigure \/ ClearVolume \/ DayPasses \/
          ArgusRenewsCA \/ ArgusRepoints
  BY <1>4, ZenonT(60) DEF Stop, Terminated, Reconfigure, ClearVolume,
     DayPasses, ArgusRenewsCA, ArgusRepoints
<1>5. QED BY <1>1, <1>2, <1>3, <1>4 DEF Next, ScriptStep

\* What the exec in the start script hands the Zabbix proxy.
LEMMA HandedOver ==
    ASSUME IInv, HandOver, pc' = "up"
    PROVE  /\ Whole /\ run' \in Runs /\ UNCHANGED <<key, crt, ca, meta>>
           /\ run'.key = key /\ run'.crt = crt /\ run'.ca = ca /\ run'.name = meta.name
<1>1. pc = "host" /\ meta \in Metas /\ mem = meta /\ Whole
  <2>1. pc = "host"
    BY DEF HandOver
  <2>2. meta \in Metas /\ mem = meta
    BY <2>1 DEF IInv, MemoryIsSaved
  <2>3. QED BY <2>1, <2>2 DEF IInv, NameIsLast, SwapWindow
<1>2. PICK dial \in Hosts :
        run' = [key |-> key, crt |-> crt, ca |-> ca, name |-> mem.name, host |-> dial]
  BY <1>1, SentinelsAssumption DEF IInv, TypeOK, DataOK, HandOver, Forget,
     Metas, Envs
<1>3. UNCHANGED <<key, crt, ca, meta>>
  BY DEF HandOver, volume
<1>4. QED
  BY <1>1, <1>2, <1>3 DEF Runs, Whole, Pair, Metas

\* The types, apart from the flags.
LEMMA DataKept == ASSUME IInv, Next PROVE DataOK'
<1> USE SentinelsAssumption, DatesAssumption
    DEF DataOK, Goto, Forget, Steps, StartSteps, LoopSteps, volume, script,
       outside
<1>0. DataOK /\ OneAnswer /\ MemoryIsSaved /\ NewPair
  BY DEF IInv, TypeOK
<1>1. CASE PostAccepted
  <2>1. PICK kind \in Replies, n \in Names, h \in {argusHost}, c \in Creds \cup {None} :
          resp' = Answer(kind, key, n, h, c)
    BY <1>1 DEF PostAccepted
  <2>2. key \in Keys /\ now + Life \in Nat
    BY <1>0, <1>1 DEF PostAccepted, OneAnswer
  <2>3. [key |-> key, name |-> n, by |-> argusCA.id, end |-> now + Life] \in Certs
    BY <1>0, <2>2 DEF Certs, CACerts
  <2>4. resp' \in Answers
    BY <1>0, <2>1, <2>3 DEF Answer, Answers
  <2>5. spent' \subseteq Tokens
    BY <1>0, <1>1 DEF PostAccepted, Envs, OneAnswer
  <2>6. QED
    BY <1>0, <1>1, <2>4, <2>5 DEF PostAccepted
<1>2. CASE PostFailed
  <2>1. spent' \subseteq Tokens
    BY <1>0, <1>2 DEF PostFailed, Envs, OneAnswer
  <2>2. QED
    BY <1>0, <1>2, <2>1 DEF PostFailed
<1>3. CASE StartContainer \/ (EnrollStep /\ ~PostAccepted /\ ~PostFailed)
  BY <1>0, <1>3, SMTT(60) DEF StartContainer, EnrollStep, CheckFiles,
     GenerateKey, RemoveKeyAndExit,
     OpenCert, FillCert, OpenCA, FillCA, CheckName, RemoveAll, WriteFails,
     OneAnswer, Answers, Metas, Envs, Certs, CACerts
<1>4. CASE StartStep /\ ~HandOver
  BY <1>0, <1>4, SMTT(60) DEF StartStep, OpenMeta, FillMeta, ReadMeta,
     TakeEnvCred, SyncWithArgus, SaveCounts,
     WriteFails, WriteMetaThen, MemoryIsSaved, Metas, Envs
<1>5. CASE HandOver
  <2>1. CASE pc' = "up"
    BY <1>0, <1>5, <2>1, HandedOver DEF HandOver
  <2>2. QED
    BY <1>0, <1>5, <2>1 DEF HandOver
<1>6. CASE SaveOldPair
  <2>1. key \in Keys /\ crt \in Certs
    BY <1>6 DEF SaveOldPair, IInv, MemoryIsSaved, NameIsLast, SwapWindow,
       Whole, Pair
  <2>2. QED
    BY <1>0, <1>6, <2>1 DEF SaveOldPair, OldPairs
<1>7. CASE CheckIn
  <2>1. ca' \in CACerts \cup {None, Junk}
    <3>1. \/ ca' = ca
          \/ ca' = argusCA
          \/ \E id \in CAIds, end \in {now + 1, now + Life} :
               ca' = [id |-> id, end |-> end]
      BY <1>7 DEF CheckIn
    <3>2. \A id \in CAIds, end \in {now + 1, now + Life} :
             [id |-> id, end |-> end] \in CACerts
      BY <1>0 DEF CACerts
    <3>3. CASE \E id \in CAIds, end \in {now + 1, now + Life} :
                 ca' = [id |-> id, end |-> end]
      BY ONLY <3>2, <3>3
    <3>4. QED BY <1>0, <3>1, <3>3
  <2>2. QED
    BY <1>0, <1>7, <2>1 DEF CheckIn
<1>8. CASE CertificateArrives
  <2>1. PICK k \in {key, new.key}, n \in Names, by \in CAIds,
             end \in {now + Life} \cup (IF crt \in Certs THEN {crt.end} ELSE {}) :
          LET c == [key |-> k, name |-> n, by |-> by, end |-> end] IN
          Acceptable(c) /\ new' = [new EXCEPT !.crt = c]
    BY <1>8 DEF CertificateArrives
  <2>2. new \in NewPairs /\ k \in Keys /\ end \in Nat
    BY <1>0, <1>8, <2>1 DEF CertificateArrives, NewPair, NewPairs, Acceptable,
       Certs
  <2>3. new' \in NewPairs
    BY <2>1, <2>2 DEF NewPairs, Certs
  <2>4. QED
    BY <1>0, <1>8, <2>3 DEF CertificateArrives
<1>9. CASE CertCheck \/ RenewalFailed \/ NewKey \/ MoveKey \/ MoveCert \/
          RenewalDone \/ HourPasses
  BY <1>0, <1>9, SMTT(60) DEF HourPasses, CertCheck, RenewalFailed, NewKey,
     MoveKey, MoveCert, RenewalDone, NewPair, SwapWindow, NewPairs
<1>10. CASE Stop \/ Terminated \/ Reconfigure \/ ClearVolume \/ DayPasses \/
          ArgusRenewsCA \/ ArgusRepoints
  BY <1>0, <1>10, SMTT(60) DEF Stop, Terminated, Reconfigure, ClearVolume,
     DayPasses, ArgusRenewsCA, ArgusRepoints, Envs, CACerts
<1>11. QED
  BY <1>1, <1>2, <1>3, <1>4, <1>5, <1>6, <1>7, <1>8, <1>9, <1>10
     DEF Next, ScriptStep, LoopStep

\* Only a whole identity has a proxy.env that names it (entrypoint.sh writes
\* proxy.env last).
LEMMA NameKept == ASSUME NoCutInRenewal, IInv, Next PROVE NameIsLast'
<1> USE SentinelsAssumption, DatesAssumption, ArgusAssumption DEF IInv,
          NameIsLast, EnrolSteps, SwapWindow, Goto, Forget, LoopSteps, volume,
          script, outside
<1>1. CASE StartContainer \/ EnrollStep
  BY <1>1, SMTT(60) DEF StartContainer, EnrollStep, CheckFiles, GenerateKey,
     PostAccepted, PostFailed, RemoveKeyAndExit, OpenCert, FillCert, OpenCA,
     FillCA, CheckName, RemoveAll, WriteFails, Whole, Pair, TypeOK, DataOK,
     AllThree, OneAnswer
<1>2. CASE StartStep
  BY <1>2, SMTT(60) DEF StartStep, OpenMeta, FillMeta, ReadMeta, TakeEnvCred,
     SyncWithArgus, SaveCounts, HandOver, WriteFails, WriteMetaThen, Whole,
     Pair, TypeOK, DataOK, MemoryIsSaved, Metas
<1>3. CASE LoopStep \/ HourPasses
  BY <1>3, SMTT(60) DEF LoopStep, HourPasses, CheckIn, CertCheck,
     RenewalFailed, NewKey, CertificateArrives, SaveOldPair, MoveKey, MoveCert,
     RenewalDone, Whole, Pair, TypeOK, DataOK, MemoryIsSaved, NewPair,
     IsRenewalOf, NoCutInRenewal, CACerts, Certs, NewPairs
<1>4. CASE Stop \/ Terminated \/ Reconfigure \/ ClearVolume \/ DayPasses \/
          ArgusRenewsCA \/ ArgusRepoints
  BY <1>4, SMTT(60) DEF Stop, Terminated, Reconfigure, ClearVolume, DayPasses,
     ArgusRenewsCA, ArgusRepoints, Whole, Pair, TypeOK, DataOK, NoCutInRenewal,
     AllThree
<1>5. QED BY <1>1, <1>2, <1>3, <1>4 DEF Next, ScriptStep

\* The files the enrolment writes are from one answer, for the key it made.
LEMMA OneAnswerKept == ASSUME NoCutInRenewal, IInv, Next PROVE OneAnswer'
<1> USE SentinelsAssumption, DatesAssumption DEF IInv, OneAnswer, Goto, Forget,
          volume, script, outside
<1>1. CASE StartContainer \/ StartStep
  BY <1>1 DEF StartContainer, StartStep, OpenMeta, FillMeta, ReadMeta,
     TakeEnvCred, SyncWithArgus, SaveCounts, HandOver, WriteFails,
     WriteMetaThen, TypeOK, DataOK
<1>2. CASE LoopStep \/ HourPasses
  BY <1>2 DEF LoopStep, HourPasses, CheckIn, CertCheck, RenewalFailed, NewKey,
     CertificateArrives, SaveOldPair, MoveKey, MoveCert, RenewalDone, LoopSteps
<1>3. CASE Stop \/ Terminated \/ Reconfigure \/ ClearVolume \/ DayPasses \/
          ArgusRenewsCA \/ ArgusRepoints
  BY <1>3 DEF Stop, Terminated, Reconfigure, ClearVolume, DayPasses,
     ArgusRenewsCA, ArgusRepoints
<1>4. CASE EnrollStep
  BY <1>4, SMTT(60) DEF EnrollStep, CheckFiles, GenerateKey, PostAccepted,
     PostFailed, RemoveKeyAndExit, OpenCert, FillCert, OpenCA, FillCA,
     CheckName, RemoveAll, WriteFails, Answer, AllReplies, TypeOK, DataOK,
     Answers, Certs, CACerts
<1>5. QED BY <1>1, <1>2, <1>3, <1>4 DEF Next, ScriptStep

\* From write_meta on, the shell variables and proxy.env agree.
LEMMA MemoryKept == ASSUME NoCutInRenewal, IInv, Next PROVE MemoryIsSaved'
<1> USE SentinelsAssumption DEF IInv, MemoryIsSaved, Goto, Forget, LoopSteps,
          volume, script, outside
<1>1. CASE StartContainer \/ EnrollStep
  BY <1>1, SMTT(30) DEF StartContainer, EnrollStep, CheckFiles, GenerateKey,
     PostAccepted, PostFailed, RemoveKeyAndExit, OpenCert, FillCert, OpenCA,
     FillCA, CheckName, RemoveAll, WriteFails, OneAnswer, Pair, Answers, Metas
<1>2. CASE StartStep
  BY <1>2, SMTT(30) DEF StartStep, OpenMeta, FillMeta, ReadMeta, TakeEnvCred,
     SyncWithArgus, SaveCounts, HandOver, WriteFails, WriteMetaThen, TypeOK,
     DataOK, Metas, Envs, NameIsLast, SwapWindow, Whole, Pair
<1>3. CASE LoopStep \/ HourPasses
  BY <1>3, SMTT(30) DEF LoopStep, HourPasses, CheckIn, CertCheck,
     RenewalFailed, NewKey, CertificateArrives, SaveOldPair, MoveKey, MoveCert,
     RenewalDone
<1>4. CASE Stop \/ Terminated \/ Reconfigure \/ ClearVolume \/ DayPasses \/
          ArgusRenewsCA \/ ArgusRepoints
  BY <1>4, SMTT(30) DEF Stop, Terminated, Reconfigure, ClearVolume, DayPasses,
     ArgusRenewsCA, ArgusRepoints, Pair
<1>5. QED BY <1>1, <1>2, <1>3, <1>4 DEF Next, ScriptStep

\* The proxy that runs was handed a whole identity, and its name stays.
LEMMA RunKept == ASSUME NoCutInRenewal, IInv, Next PROVE RunInv'
<1> USE SentinelsAssumption, DatesAssumption, ArgusAssumption DEF IInv, RunInv,
          RunsAsItself, Goto, Forget, LoopSteps, volume, script, outside
<1>1. CASE StartContainer \/ EnrollStep
  BY <1>1, SMTT(60) DEF StartContainer, EnrollStep, CheckFiles, GenerateKey,
     PostAccepted, PostFailed, RemoveKeyAndExit, OpenCert, FillCert, OpenCA,
     FillCA, CheckName, RemoveAll, WriteFails, OneAnswer
<1>2. CASE StartStep
  <2>1. CASE HandOver
    <3>1. CASE pc' = "up"
      BY <2>1, <3>1, HandedOver DEF Whole, Pair, Runs
    <3>2. QED BY <2>1, <3>1 DEF HandOver
  <2>2. CASE OpenMeta \/ FillMeta \/ ReadMeta \/ TakeEnvCred \/ SyncWithArgus \/ SaveCounts
    BY <2>2 DEF OpenMeta, FillMeta, ReadMeta, TakeEnvCred, SyncWithArgus,
       SaveCounts, WriteFails, WriteMetaThen, TypeOK, DataOK
  <2>3. QED BY <1>2, <2>1, <2>2 DEF StartStep
<1>3. CASE LoopStep \/ HourPasses
  BY <1>3, SMTT(60) DEF LoopStep, HourPasses, CheckIn, CertCheck,
     RenewalFailed, NewKey, CertificateArrives, SaveOldPair, MoveKey, MoveCert,
     RenewalDone, MemoryIsSaved
<1>4. CASE Stop \/ Terminated \/ Reconfigure \/ ClearVolume \/ DayPasses \/
          ArgusRenewsCA \/ ArgusRepoints
  BY <1>4, SMTT(60) DEF Stop, Terminated, Reconfigure, ClearVolume, DayPasses,
     ArgusRenewsCA, ArgusRepoints, MemoryIsSaved, AllThree
<1>5. QED BY <1>1, <1>2, <1>3, <1>4 DEF Next, ScriptStep

\* renew_cert's new pair passed its checks and keeps passing them.
LEMMA NewPairKept == ASSUME NoCutInRenewal, IInv, Next PROVE NewPair'
<1> USE SentinelsAssumption, DatesAssumption, ArgusAssumption DEF IInv,
          NewPair, RunInv, SwapWindow, Goto, Forget, LoopSteps, volume, script,
          outside
<1>1. CASE StartContainer \/ EnrollStep
  BY <1>1, SMTT(60) DEF StartContainer, EnrollStep, CheckFiles, GenerateKey,
     PostAccepted, PostFailed, RemoveKeyAndExit, OpenCert, FillCert, OpenCA,
     FillCA, CheckName, RemoveAll, WriteFails
<1>2. CASE StartStep
  BY <1>2, SMTT(60) DEF StartStep, OpenMeta, FillMeta, ReadMeta, TakeEnvCred,
     SyncWithArgus, SaveCounts, HandOver, WriteFails, WriteMetaThen,
     MemoryIsSaved, NameIsLast, Whole, Pair, TypeOK, DataOK, Certs
<1>3. CASE LoopStep \/ HourPasses
  BY <1>3, SMTT(60) DEF LoopStep, HourPasses, CheckIn, CertCheck,
     RenewalFailed, NewKey, CertificateArrives, SaveOldPair, MoveKey, MoveCert,
     RenewalDone, RunsAsItself, Acceptable, NoCutInRenewal, IsRenewalOf,
     MemoryIsSaved, NameIsLast, NewPairs, Certs, Whole, Pair, TypeOK, DataOK
<1>4. CASE Stop \/ Terminated \/ Reconfigure \/ ClearVolume \/ DayPasses \/
          ArgusRenewsCA \/ ArgusRepoints
  BY <1>4, SMTT(60) DEF Stop, Terminated, Reconfigure, ClearVolume, DayPasses,
     ArgusRenewsCA, ArgusRepoints, AllThree, MemoryIsSaved, NameIsLast, Whole,
     Pair, TypeOK, DataOK
<1>5. QED BY <1>1, <1>2, <1>3, <1>4 DEF Next, ScriptStep

\* The CA file is the last of the three, and is taken back last.
LEMMA CAKept == ASSUME NoCutAtAll, IInvSafe, Next PROVE CAIsComplete'
<1> USE SentinelsAssumption, DatesAssumption, ArgusAssumption DEF IInvSafe,
          IInv, CAIsComplete, NoCutAtAll, NoCutInRenewal, EnrolWindow,
          MetaWindow, SwapWindow, Goto, Forget, LoopSteps, volume, script,
          outside
<1>1. CASE StartContainer \/ EnrollStep
  BY <1>1, SMTT(60) DEF StartContainer, EnrollStep, CheckFiles, GenerateKey,
     PostAccepted, PostFailed, RemoveKeyAndExit, OpenCert, FillCert, OpenCA,
     FillCA, CheckName, RemoveAll, WriteFails, AllThree, Answer, AllReplies,
     NameIsLast, OneAnswer, Answers, Whole, Pair, TypeOK, DataOK
<1>2. CASE StartStep
  BY <1>2, SMTT(60) DEF StartStep, OpenMeta, FillMeta, ReadMeta, TakeEnvCred,
     SyncWithArgus, SaveCounts, HandOver, WriteFails, WriteMetaThen,
     MemoryIsSaved, Metas, Whole, Pair, TypeOK, DataOK
<1>3. CASE LoopStep \/ HourPasses
  BY <1>3, SMTT(60) DEF LoopStep, HourPasses, CheckIn, CertCheck,
     RenewalFailed, NewKey, CertificateArrives, SaveOldPair, MoveKey, MoveCert,
     RenewalDone, MemoryIsSaved
<1>4. CASE Stop \/ Terminated \/ Reconfigure \/ ClearVolume \/ DayPasses \/
          ArgusRenewsCA \/ ArgusRepoints
  BY <1>4, StopsAssumption, SMTT(60) DEF Stop, Terminated, Reconfigure,
     ClearVolume, DayPasses, ArgusRenewsCA, ArgusRepoints, MemoryIsSaved,
     Steps, StartSteps, EnrolSteps
<1>5. QED BY <1>1, <1>2, <1>3, <1>4 DEF Next, ScriptStep

-------------------------------------------------------------------------------
\* A stuttering step keeps everything.
LEMMA Stutters == ASSUME IInvSafe \/ IInv, UNCHANGED vars
                  PROVE  IInv' /\ (IInvSafe => IInvSafe')
BY DEF IInv, IInvSafe, CAIsComplete, TypeOK, DataOK, Flags, NameIsLast,
   OneAnswer, MemoryIsSaved, RunInv,
   RunsAsItself, NewPair, Whole, Pair, EndsSoon, vars, volume, script, outside

\* A factory-new data volume satisfies everything.
LEMMA Starts == ASSUME Init PROVE IInvSafe
<1> USE SentinelsAssumption, DatesAssumption, ArgusAssumption
<1>1. DataOK
  BY DEF Init, DataOK, CACerts
<1>2. Flags
  BY Zenon DEF Init, Flags
<1>3. NameIsLast /\ CAIsComplete
  BY DEF Init, NameIsLast, CAIsComplete, EnrolSteps
<1>4. OneAnswer /\ MemoryIsSaved
  BY DEF Init, OneAnswer, MemoryIsSaved, LoopSteps
<1>5. RunInv /\ NewPair
  BY DEF Init, RunInv, RunsAsItself, NewPair, SwapWindow, LoopSteps
<1>6. QED
  BY <1>1, <1>2, <1>3, <1>4, <1>5 DEF IInvSafe, IInv, TypeOK

\* IInv is an invariant of every instance in which no stop hits a renewal's two
\* moves; the types are part of it.
THEOREM Inductive == NoCutInRenewal => (Spec => []IInv)
<1> SUFFICES ASSUME NoCutInRenewal PROVE Spec => []IInv
  OBVIOUS
<1>1. Init => IInv
  BY Starts DEF IInvSafe
<1>2. IInv /\ [Next]_vars => IInv'
  <2>1. ASSUME IInv, Next PROVE IInv'
    BY <2>1, DataKept, FlagsKept, NameKept, OneAnswerKept, MemoryKept, RunKept,
       NewPairKept DEF IInv, TypeOK
  <2>2. ASSUME IInv, UNCHANGED vars PROVE IInv'
    BY <2>2, Stutters
  <2>3. QED BY <2>1, <2>2
<1>3. QED BY <1>1, <1>2, PTL DEF Spec

\* Whatever is enrolled, re-pointed, renewed, stopped and started in between: the
\* proxy runs under one identity, its own.
THEOREM OwnIdentity == NoCutInRenewal => (Spec => []RunsAsItself)
<1> SUFFICES ASSUME NoCutInRenewal PROVE Spec => []RunsAsItself
  OBVIOUS
<1>1. IInv => RunsAsItself
  BY DEF IInv, RunInv
<1>2. Spec => []IInv
  BY Inductive
<1>3. QED BY <1>1, <1>2, PTL

\* The proxy restarts for a certificate only on a new pair, complete and with a
\* later end than the one it runs on.
THEOREM NewPairFirst == NoCutInRenewal => (Spec => RestartsOnNewPair)
<1> SUFFICES ASSUME NoCutInRenewal PROVE Spec => RestartsOnNewPair
  OBVIOUS
<1>1. IInv => (pc = "rn_done" => Pair /\ crt.end > run.crt.end)
  BY DEF IInv, NewPair, NameIsLast, MemoryIsSaved, LoopSteps, SwapWindow, Whole
<1>2. IInv /\ [Next]_vars => [pc = "rn_done" /\ pc' = "up" => Pair /\ crt.end > run.crt.end]_vars
  BY <1>1
<1>3. Spec => []IInv
  BY Inductive
<1>4. QED BY <1>2, <1>3, PTL DEF Spec, RestartsOnNewPair

\* The host it dials is settled at the hand-over, and the saved one stays.
LEMMA DialKept == ASSUME NoCutInRenewal, IInv, DialsSaved, Next PROVE DialsSaved'
<1> USE SentinelsAssumption DEF DialsSaved, Goto, Forget, LoopSteps, volume, script, outside
<1>1. CASE StartContainer \/ EnrollStep
  BY <1>1 DEF StartContainer, EnrollStep, CheckFiles, GenerateKey, PostAccepted, PostFailed,
     RemoveKeyAndExit, OpenCert, FillCert, OpenCA, FillCA, CheckName, RemoveAll, WriteFails
<1>2. CASE HandOver
  <2>1. CASE pc' = "up"
    <3>1. mem = meta /\ UNCHANGED <<env, meta>>
      BY <1>2 DEF HandOver, IInv, MemoryIsSaved
    <3>2. env.pin = None => run'.host = mem.host
      BY <1>2, <2>1 DEF HandOver
    <3> QED
      BY <3>1, <3>2
  <2>2. CASE pc' # "up"
    BY <1>2, <2>2 DEF HandOver
  <2> QED
    BY <2>1, <2>2
<1>3. CASE StartStep /\ ~HandOver
  <2>1. ret \in {"read", "sync", "procs"}
    BY DEF IInv, TypeOK, DataOK
  <2>2. CASE OpenMeta \/ FillMeta
    BY <2>1, <2>2 DEF OpenMeta, FillMeta, WriteFails
  <2>3. CASE ReadMeta \/ TakeEnvCred \/ SyncWithArgus \/ SaveCounts
    BY <2>3 DEF ReadMeta, TakeEnvCred, SyncWithArgus, SaveCounts, WriteMetaThen
  <2> QED
    BY <1>3, <2>2, <2>3 DEF StartStep
<1>4. CASE LoopStep \/ HourPasses
  BY <1>4 DEF LoopStep, HourPasses, CheckIn, CertCheck, RenewalFailed, NewKey, CertificateArrives,
     SaveOldPair, MoveKey, MoveCert, RenewalDone
<1>5. CASE Stop \/ Terminated \/ Reconfigure \/ ClearVolume \/ DayPasses \/
          ArgusRenewsCA \/ ArgusRepoints
  BY <1>5 DEF Stop, Terminated, Reconfigure, ClearVolume, DayPasses, ArgusRenewsCA, ArgusRepoints
<1> QED
  BY <1>1, <1>2, <1>3, <1>4, <1>5 DEF Next, ScriptStep

\* A token and a core host that the proxy runs with are the saved ones, also
\* after writes that failed and stops anywhere but in a renewal's two moves.
THEOREM SavedFirst == NoCutInRenewal => (Spec => []RunsWhatIsSaved)
<1> SUFFICES ASSUME NoCutInRenewal PROVE Spec => []RunsWhatIsSaved
  OBVIOUS
<1>1. Init => DialsSaved
  BY DEF Init, DialsSaved, LoopSteps
<1>2. IInv /\ DialsSaved /\ [Next]_vars => DialsSaved'
  <2>1. ASSUME DialsSaved, UNCHANGED vars PROVE DialsSaved'
    BY <2>1 DEF DialsSaved, vars, volume, script, outside
  <2> QED
    BY <2>1, DialKept
<1>3. IInv /\ DialsSaved => RunsWhatIsSaved
  BY DEF IInv, MemoryIsSaved, DialsSaved, RunsWhatIsSaved, LoopSteps
<1>4. Spec => []IInv
  BY Inductive
<1> QED
  BY <1>1, <1>2, <1>3, <1>4, PTL DEF Spec

\* Without any cut, the CA certificate is there only with all the rest.
THEOREM SafeInductive == NoCutAtAll => (Spec => []IInvSafe)
<1> SUFFICES ASSUME NoCutAtAll PROVE Spec => []IInvSafe
  OBVIOUS
<1>1. Init => IInvSafe
  BY Starts
<1>2. IInvSafe /\ [Next]_vars /\ IInv' => IInvSafe'
  <2>1. ASSUME IInvSafe, Next, IInv' PROVE IInvSafe'
    BY <2>1, CAKept DEF IInvSafe
  <2>2. ASSUME IInvSafe, UNCHANGED vars PROVE IInvSafe'
    BY <2>2, Stutters
  <2>3. QED BY <2>1, <2>2
<1>3. Spec => []IInv
  BY Inductive DEF NoCutAtAll
<1>4. QED BY <1>1, <1>2, <1>3, PTL DEF Spec

\* A container that is off has a volume its next start can work with.
THEOREM StartsAreSafe == NoCutAtAll => (Spec => []RestartSafe)
<1> SUFFICES ASSUME NoCutAtAll PROVE Spec => []RestartSafe
  OBVIOUS
<1>1. IInvSafe => RestartSafe
  BY DEF IInvSafe, IInv, CAIsComplete, NameIsLast, SwapWindow, RestartSafe, AllThree
<1>2. Spec => []IInvSafe
  BY SafeInductive
<1>3. QED BY <1>1, <1>2, PTL

\* No start is turned away for want of a name.
THEOREM StartsAreNamed == NoCutAtAll => (Spec => []NeverStranded)
<1> SUFFICES ASSUME NoCutAtAll PROVE Spec => []NeverStranded
  OBVIOUS
<1>1. IInvSafe => NeverStranded
  BY DEF IInvSafe, CAIsComplete, NeverStranded
<1>2. Spec => []IInvSafe
  BY SafeInductive
<1>3. QED BY <1>1, <1>2, PTL

\* Once a CA certificate is trusted, only a renewal of the same CA replaces it.
THEOREM OneTrustAnchor == NoCutAtAll => (Spec => SameTrustAnchor)
<1> SUFFICES ASSUME NoCutAtAll PROVE Spec => SameTrustAnchor
  OBVIOUS
<1> DEFINE Kept == (ca \in CACerts /\ ca' # ca /\ key' # None)
                     => (ca' \in CACerts /\ ca'.id = ca.id /\ ca'.end > ca.end)
<1>1. ASSUME IInvSafe, Next PROVE Kept
  <2>1. ca' = ca \/ OpenCA \/ FillCA \/ RemoveAll \/ ClearVolume \/ CheckIn
    BY <1>1 DEF Next, ScriptStep, StartContainer, EnrollStep, CheckFiles,
       GenerateKey, PostAccepted, PostFailed, RemoveKeyAndExit, OpenCert,
       FillCert, CheckName, StartStep, OpenMeta, FillMeta, ReadMeta,
       TakeEnvCred, SyncWithArgus, SaveCounts, HandOver, LoopStep, HourPasses,
       CertCheck, RenewalFailed, NewKey, CertificateArrives, SaveOldPair,
       MoveKey, MoveCert, RenewalDone, Stop, Terminated, Reconfigure,
       DayPasses, ArgusRenewsCA, ArgusRepoints, WriteFails, volume, outside
  <2>2. CASE OpenCA \/ FillCA \/ RemoveAll \/ ClearVolume
    BY <1>1, <2>2, SentinelsAssumption DEF OpenCA, FillCA, RemoveAll,
       ClearVolume, WriteFails, volume, IInvSafe, CAIsComplete
  <2>3. CASE CheckIn
    <3>1. argusCA \in CACerts /\ now \in Nat
      BY <1>1 DEF IInvSafe, IInv, TypeOK, DataOK
    <3>2. ca' = ca \/ \E c : c = ca' /\ IsRenewalOf(c, ca)
      BY <2>3 DEF CheckIn
    <3>3. ca' \in CACerts \cup {ca}
      <4>1. \/ ca' = ca
            \/ ca' = argusCA
            \/ \E id \in CAIds, end \in {now + 1, now + Life} :
                 ca' = [id |-> id, end |-> end]
        BY <2>3 DEF CheckIn
      <4>2. \A id \in CAIds, end \in {now + 1, now + Life} :
               [id |-> id, end |-> end] \in CACerts
        BY <3>1, DatesAssumption DEF CACerts
      <4>3. QED BY <3>1, <4>1, <4>2
    <3>4. QED BY <3>2, <3>3 DEF IsRenewalOf
  <2>4. QED BY <2>1, <2>2, <2>3
<1>2. IInvSafe /\ [Next]_vars => [Kept]_vars
  BY <1>1
<1>3. Spec => []IInvSafe
  BY SafeInductive
<1>4. QED BY <1>2, <1>3, PTL DEF Spec, SameTrustAnchor

-------------------------------------------------------------------------------
(* The container implements ProbeContract.                                 *)

\* What is rewritten is on its way back: proxy.env from memory, the certificate
\* from the new pair, with the present one in proxy.crt.old.
LEMMA RewritingKept == ASSUME NoCutAtAll, IInvContract, Next PROVE Rewriting'
<1> USE SentinelsAssumption DEF IInvContract, IInvSafe, IInv, Rewriting, Goto, Forget, volume,
          script, outside
<1>1. CASE StartContainer \/ EnrollStep
  BY <1>1, SMTT(60) DEF StartContainer, EnrollStep, CheckFiles, GenerateKey, PostAccepted,
     PostFailed, RemoveKeyAndExit, OpenCert, FillCert, OpenCA, FillCA, CheckName, RemoveAll,
     WriteFails, NameIsLast, EnrolSteps
<1>2. CASE StartStep
  BY <1>2, SMTT(60) DEF StartStep, OpenMeta, FillMeta, ReadMeta, TakeEnvCred, SyncWithArgus,
     SaveCounts, HandOver, WriteFails, WriteMetaThen, MemoryIsSaved, TypeOK, DataOK
<1>3. CASE LoopStep \/ HourPasses
  BY <1>3, DatesAssumption, SMTT(60) DEF LoopStep, HourPasses, CheckIn, CertCheck, RenewalFailed,
     NewKey, CertificateArrives, SaveOldPair, MoveKey, MoveCert, RenewalDone, Acceptable,
     NoCutAtAll, NoCutInRenewal, MemoryIsSaved, NameIsLast, SwapWindow, NewPair, NewPairs, Whole,
     Pair, TypeOK, DataOK, LoopSteps
<1>4. CASE Stop \/ Terminated \/ Reconfigure \/ ClearVolume \/ DayPasses \/
          ArgusRenewsCA \/ ArgusRepoints
  BY <1>4 DEF Stop, Terminated, Reconfigure, ClearVolume, DayPasses, ArgusRenewsCA, ArgusRepoints
<1>5. QED BY <1>1, <1>2, <1>3, <1>4 DEF Next, ScriptStep

\* The identity depends on these files and on two steps of the script.
LEMMA SameIdentity ==
    ASSUME UNCHANGED <<crt, ca, meta>>, pc \notin {"crtn_fill", "meta_fill"},
           pc' \notin {"crtn_fill", "meta_fill"}
    PROVE  Identity' = Identity
BY DEF Identity, PresentCert, Named


\* Every step of the container is one of the contract, or one it doesn't see.
LEMMA StepsKeepContract ==
    ASSUME NoCutAtAll, IInvContract, IInvContract', Next
    PROVE  Contract!Next \/ UNCHANGED <<Identity, run # None>>
<1> USE SentinelsAssumption DEF IInvContract, IInvSafe, IInv
<1>1. CASE \/ StartContainer \/ CheckFiles \/ GenerateKey \/ PostAccepted \/ PostFailed
           \/ RemoveKeyAndExit \/ CheckName
  <2>1. UNCHANGED <<crt, ca, meta>> /\ run = None /\ run' = None
    BY <1>1 DEF StartContainer, CheckFiles, GenerateKey, PostAccepted, PostFailed,
       RemoveKeyAndExit, CheckName, Goto, Forget, volume, RunInv, LoopSteps
  <2>2. pc \notin {"crtn_fill", "meta_fill"} /\ pc' \notin {"crtn_fill", "meta_fill"}
    BY <1>1 DEF StartContainer, CheckFiles, GenerateKey, PostAccepted, PostFailed,
       RemoveKeyAndExit, CheckName, Goto, Forget
  <2> QED
    BY <2>1, <2>2, SameIdentity
<1>2. CASE OpenCert \/ FillCert \/ OpenCA \/ FillCA \/ RemoveAll
  <2>1. UNCHANGED meta /\ run = None /\ run' = None
    BY <1>2 DEF OpenCert, FillCert, OpenCA, FillCA, RemoveAll, WriteFails, Goto, Forget, volume,
       RunInv, LoopSteps
  <2>2. meta \notin Metas /\ pc # "meta_fill" /\ pc' # "meta_fill"
    BY <1>2 DEF OpenCert, FillCert, OpenCA, FillCA, RemoveAll, WriteFails, Goto, Forget,
       NameIsLast, EnrolSteps
  <2>3. Identity = None /\ Identity' = None
    BY <2>1, <2>2 DEF Identity, Named
  <2> QED
    BY <2>1, <2>3
<1>3. CASE OpenMeta
  <2>1. /\ UNCHANGED <<crt, ca, ret>> /\ run = None /\ run' = None
        /\ pc = "meta_open" /\ pc' = "meta_fill" /\ meta' = Junk
    BY <1>3 DEF OpenMeta, Goto, RunInv, LoopSteps
  <2>2. Named <=> Named'
    BY <2>1 DEF Named, Rewriting
  <2> QED
    BY <2>1, <2>2 DEF Identity, PresentCert
<1>4. CASE FillMeta
  <2>1. /\ UNCHANGED <<crt, ca>> /\ run = None /\ run' = None
        /\ pc = "meta_fill" /\ pc' = ret /\ meta' = mem
    BY <1>4 DEF FillMeta, WriteFails, NoCutAtAll, NoCutInRenewal, Goto, RunInv, LoopSteps
  <2>2. mem \in Metas /\ crt \in Certs /\ ca \in CACerts
    BY <2>1 DEF MemoryIsSaved, Pair
  <2>3. Identity' = [name |-> crt.name, end |-> crt.end] /\ Identity' \in Contract!Ids
    BY <2>1, <2>2 DEF Identity, PresentCert, Named, TypeOK, DataOK, Certs, Contract!Ids
  <2>4. CASE ret = "read"
    <3>1. Identity = None
      BY <2>1, <2>4 DEF Identity, Named, Rewriting
    <3>2. Contract!Enrol
      BY <2>1, <2>3, <3>1 DEF Contract!Enrol
    <3> QED
      BY <3>2 DEF Contract!Next
  <2>5. CASE ret # "read"
    <3>1. Identity = [name |-> crt.name, end |-> crt.end]
      BY <2>1, <2>2, <2>5 DEF Identity, PresentCert, Named
    <3> QED
      BY <2>1, <2>3, <3>1
  <2> QED
    BY <2>4, <2>5
<1>5. CASE ReadMeta \/ TakeEnvCred \/ SyncWithArgus \/ SaveCounts
  <2>1. UNCHANGED <<crt, ca, meta>> /\ run = None /\ run' = None
    BY <1>5 DEF ReadMeta, TakeEnvCred, SyncWithArgus, SaveCounts, WriteMetaThen, Goto, Forget,
       volume, RunInv, LoopSteps
  <2>2. pc \notin {"crtn_fill", "meta_fill"} /\ pc' \notin {"crtn_fill", "meta_fill"}
    BY <1>5 DEF ReadMeta, TakeEnvCred, SyncWithArgus, SaveCounts, WriteMetaThen, Goto, Forget
  <2> QED
    BY <2>1, <2>2, SameIdentity
<1>6. CASE HandOver
  <2>1. /\ UNCHANGED <<crt, ca, meta>> /\ run = None
        /\ pc = "host" /\ pc' \in {"up", "off"}
    BY <1>6 DEF HandOver, Forget, volume, RunInv, LoopSteps
  <2>2. Identity' = Identity
    BY <2>1, SameIdentity
  <2>3. CASE pc' = "off"
    BY <1>6, <2>1, <2>2, <2>3 DEF HandOver, Forget
  <2>4. CASE pc' = "up"
    <3>1. Whole /\ run' # None
      BY <1>6, <2>4, HandedOver
    <3>2. Identity \in Contract!Ids
      BY <2>1, <3>1 DEF Identity, PresentCert, Named, Whole, Pair, Certs, Contract!Ids
    <3>3. Contract!Start
      BY <2>1, <2>2, <3>1, <3>2, IdentityAssumption DEF Contract!Start, Contract!Ids
    <3> QED
      BY <3>3 DEF Contract!Next
  <2> QED
    BY <2>1, <2>3, <2>4
<1>7. CASE CheckIn
  <2>1. /\ UNCHANGED <<crt, meta, run>>
        /\ pc \notin {"crtn_fill", "meta_fill"} /\ pc' \notin {"crtn_fill", "meta_fill"}
        /\ ca \in CACerts
    BY <1>7 DEF CheckIn, MemoryIsSaved, NameIsLast, LoopSteps, SwapWindow, Whole, Pair
  <2>2. ca' \in CACerts
    BY <1>7, <2>1 DEF CheckIn, MemoryIsSaved, NameIsLast, LoopSteps, SwapWindow, Whole, Pair
  <2> QED
    BY <2>1, <2>2 DEF Identity, PresentCert, Named
<1>8. CASE SaveOldPair \/ MoveKey
  <2>1. /\ UNCHANGED <<crt, ca, meta, run>>
        /\ pc \notin {"crtn_fill", "meta_fill"} /\ pc' \notin {"crtn_fill", "meta_fill"}
    BY <1>8 DEF SaveOldPair, MoveKey, Goto
  <2> QED
    BY <2>1, SameIdentity
<1>9. CASE MoveCert
  <2>1. pc \in SwapWindow /\ UNCHANGED <<ca, meta, old, run, new>>
    BY <1>9 DEF MoveCert, Goto, SwapWindow
  <2>2. meta \in Metas /\ new.crt \in Certs /\ ca \in CACerts /\ new.crt.name = meta.name
    BY <2>1 DEF MemoryIsSaved, NewPair, SwapWindow, LoopSteps
  <2>3. CASE pc = "crtn_open"
    <3>1. pc' = "crtn_fill"
      BY <1>9, <2>3 DEF MoveCert, Goto, NoCutAtAll, NoCutInRenewal
    <3> QED
      BY <2>1, <2>3, <3>1 DEF Identity, PresentCert, Named, Rewriting
  <2>4. CASE pc = "crtn_fill"
    <3>1. pc' = "rn_done" /\ crt' = new.crt
      BY <1>9, <2>4 DEF MoveCert, Goto, NoCutAtAll, NoCutInRenewal
    <3>2. /\ old.crt \in Certs /\ old.crt.name = meta.name /\ old.crt.end < new.crt.end
      BY <2>4 DEF Rewriting
    <3>3. Identity = [name |-> old.crt.name, end |-> old.crt.end]
      BY <2>2, <2>4, <3>2 DEF Identity, PresentCert, Named
    <3>4. Identity' = [name |-> new.crt.name, end |-> new.crt.end]
      BY <2>1, <2>2, <3>1 DEF Identity, PresentCert, Named
    <3>5. Identity \in Contract!Ids /\ Identity' \in Contract!Ids
      BY <2>2, <3>2, <3>3, <3>4 DEF Certs, Contract!Ids
    <3>6. Contract!Renew
      BY <2>1, <2>2, <3>2, <3>3, <3>4, <3>5, IdentityAssumption DEF Contract!Renew, Contract!Ids
    <3> QED
      BY <3>6 DEF Contract!Next
  <2> QED
    BY <1>9, <2>3, <2>4 DEF MoveCert
<1>10. CASE CertCheck \/ RenewalFailed \/ NewKey \/ CertificateArrives \/ RenewalDone \/ HourPasses
  <2>1. UNCHANGED <<crt, ca, meta, old, run>> /\ (pc = "crtn_fill" <=> pc' = "crtn_fill")
        /\ pc # "meta_fill" /\ pc' # "meta_fill"
    BY <1>10 DEF CertCheck, RenewalFailed, NewKey, CertificateArrives, RenewalDone, HourPasses,
       Goto, volume, LoopSteps
  <2> QED
    BY <2>1 DEF Identity, PresentCert, Named
<1>11. CASE Stop \/ Terminated
  <2>1. UNCHANGED <<crt, ca, meta>> /\ pc' = "off" /\ run' = None
    BY <1>11 DEF Stop, Terminated, Forget, volume
  <2>2. pc \notin {"crtn_fill", "meta_fill"}
    BY <1>11 DEF Stop, Terminated, NoCutAtAll, NoCutInRenewal, SwapWindow, MetaWindow
  <2>3. Identity' = Identity
    BY <2>1, <2>2, SameIdentity
  <2>4. CASE run # None
    <3>1. Contract!Stop
      BY <2>1, <2>3, <2>4 DEF Contract!Stop
    <3> QED
      BY <3>1 DEF Contract!Next
  <2> QED
    BY <2>1, <2>3, <2>4
<1>12. CASE Reconfigure \/ ClearVolume \/ DayPasses \/ ArgusRenewsCA \/ ArgusRepoints
  <2>1. ~ClearVolume
    BY DEF ClearVolume, AllThree, CAIsComplete
  <2>2. UNCHANGED <<crt, ca, meta, old, run, pc, ret>>
    BY <1>12, <2>1 DEF Reconfigure, DayPasses, ArgusRenewsCA, ArgusRepoints, volume, script
  <2> QED
    BY <2>2 DEF Identity, PresentCert, Named
<1> QED
  BY <1>1, <1>2, <1>3, <1>4, <1>5, <1>6, <1>7, <1>8, <1>9, <1>10, <1>11, <1>12
     DEF Next, ScriptStep, EnrollStep, StartStep, LoopStep

\* The container keeps the contract: it enrols once, keeps its name, replaces
\* its certificate only by a later one, and runs the proxy only with an identity.
THEOREM ContractKept == NoCutAtAll => (Spec => KeepsContract)
<1> SUFFICES ASSUME NoCutAtAll PROVE Spec => KeepsContract
  OBVIOUS
<1>1. Init => Contract!Init /\ Rewriting
  BY DEF Init, Contract!Init, Identity, PresentCert, Named, Rewriting, Certs, CACerts
<1>2. IInvSafe /\ Rewriting /\ [Next]_vars => Rewriting'
  <2>1. ASSUME Rewriting, UNCHANGED vars PROVE Rewriting'
    BY <2>1 DEF Rewriting, vars, volume, script, outside
  <2> QED
    BY <2>1, RewritingKept DEF IInvContract
<1>3. IInvContract /\ IInvContract' /\ [Next]_vars => [Contract!Next]_<<Identity, run # None>>
  <2>1. ASSUME UNCHANGED vars PROVE UNCHANGED <<Identity, run # None>>
    BY <2>1 DEF Identity, PresentCert, Named, vars, volume, script, outside
  <2> QED
    BY <2>1, StepsKeepContract
<1>4. Spec => []IInvSafe
  BY SafeInductive
<1>5. Spec => []Rewriting
  BY <1>1, <1>2, <1>4, PTL DEF Spec
<1>6. IInvSafe /\ Rewriting <=> IInvContract
  BY DEF IInvContract
<1> QED
  BY <1>1, <1>3, <1>4, <1>5, <1>6, PTL DEF Spec, KeepsContract, Contract!Spec

===============================================================================
