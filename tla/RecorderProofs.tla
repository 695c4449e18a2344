--------------------------- MODULE RecorderProofs ---------------------------
(***************************************************************************)
(* Theorems about Recorder, for every set of exchanges and every number of *)
(* runs.                                                                   *)
(***************************************************************************)
EXTENDS Recorder, FiniteSetTheorems, SequenceTheorems, TLAPS


-----------------------------------------------------------------------------
(* Type correctness. *)

\* The initial state has the types.
LEMMA TypeInit == Init => TypeOK
<1> SUFFICES ASSUME Init  PROVE TypeOK
  OBVIOUS
<1>1. session \in 1 .. MaxSessions /\ failures \in Nat /\ printed \in Nat \cup {NotPrinted}
  BY SessionsAssumption DEF Init
<1>2. rows \in Seq(Exchanges) /\ ended \in Seq(Exchanges)
  BY DEF Init
<1>3. stage \in [Exchanges -> Stages]
  BY DEF Init, Stages
<1>4. /\ main \in MainStates /\ code \in Codes /\ path \in Paths /\ meta \subseteq Keys
      /\ conn \in Exchanges \cup {Nobody}
      /\ serve \in {"off", "running", "closed", "failed"}
  BY DEF Init, MainStates, Codes, Paths
<1>5. closeErr \in BOOLEAN /\ ctxDone \in BOOLEAN /\ policy \in BOOLEAN
      /\ dbOpen \in BOOLEAN /\ inShutdown \in BOOLEAN
  BY DEF Init
<1> QED
  BY <1>1, <1>2, <1>3, <1>4, <1>5 DEF TypeOK

\* Every step keeps the types.
LEMMA TypeStep == TypeOK /\ [Next]_vars => TypeOK'
<1> SUFFICES ASSUME TypeOK, [Next]_vars  PROVE TypeOK'
  OBVIOUS
<1> USE DEF TypeOK, runVars, mainVars, fileVars, serverVars, exchangeVars
<1>1. CASE Prepare
  BY <1>1 DEF Prepare, Go, Fail, MainStates, Codes
<1>2. CASE CreateFile
  BY <1>2 DEF CreateFile, Go, Fail, MainStates, Codes, Paths
<1>3. CASE Initialize
  BY <1>3 DEF Initialize, Go, MainStates, Paths
<1>4. CASE InitializeFails
  BY <1>4 DEF InitializeFails, Go, MainStates
<1>5. CASE RemoveFile
  BY <1>5 DEF RemoveFile, Fail, MainStates, Codes, Paths
<1>6. ASSUME NEW k \in Keys, SetMetadata(k)  PROVE  TypeOK'
  BY <1>6 DEF SetMetadata, Go, MainStates
<1>7. CASE SetMetadataFails
  BY <1>7 DEF SetMetadataFails, FailClosing, MainStates, Codes
<1>8. CASE Announce
  BY <1>8 DEF Announce, Go, FailClosing, MainStates, Codes
<1>9. CASE ServeErrorReceived
  BY <1>9 DEF ServeErrorReceived, FailClosing, MainStates, Codes
<1>10. CASE StartShutdown
  BY <1>10 DEF StartShutdown, Go, MainStates
<1>11. CASE Drained
  BY <1>11 DEF Drained, Go, MainStates
<1>12. CASE ShutdownTimeout
  BY <1>12 DEF ShutdownTimeout, FailClosing, MainStates, Codes
<1>13. CASE Join
  BY <1>13 DEF Join, Go, FailClosing, MainStates, Codes
<1>14. CASE Optimize
  BY <1>14 DEF Optimize, MainStates
<1>15. CASE CloseDB
  <2>1. closeErr' \in BOOLEAN
    <3>1. CASE closeErr' = TRUE
      BY <3>1
    <3>2. CASE UNCHANGED closeErr
      BY <3>2
    <3> QED
      BY <1>15, <3>1, <3>2 DEF CloseDB
  <2>2. main' \in MainStates /\ dbOpen' \in BOOLEAN
    BY <1>15 DEF CloseDB, MainStates
  <2>3. UNCHANGED <<code, printed, session, policy, ctxDone, path, meta, rows, conn,
                    serve, inShutdown, stage, ended, failures>>
    BY <1>15 DEF CloseDB
  <2> QED
    BY <2>1, <2>2, <2>3
<1>16. CASE CountLosses
  <2>1. main' \in MainStates /\ code' \in Codes /\ printed' \in Nat \cup {NotPrinted}
    BY <1>16 DEF CountLosses, MainStates, Codes, NotPrinted
  <2>2. UNCHANGED <<closeErr, session, policy, ctxDone, path, meta, rows, dbOpen, conn,
                    serve, inShutdown, stage, ended, failures>>
    BY <1>16 DEF CountLosses
  <2> QED
    BY <2>1, <2>2
<1>17. CASE Exit
  <2>1. stage' \in [Exchanges -> Stages]
    BY <1>17 DEF Exit, ProcessEnds, Stages
  <2>2. main' \in MainStates /\ conn' = Nobody /\ dbOpen' = FALSE /\ UNCHANGED code
    BY <1>17 DEF Exit, ProcessEnds, MainStates
  <2>3. UNCHANGED <<session, policy, closeErr, printed, ctxDone, path, meta, rows, serve,
                    inShutdown, ended, failures>>
    BY <1>17 DEF Exit, ProcessEnds
  <2> QED
    BY <2>1, <2>2, <2>3
<1>18. CASE ServeFails
  BY <1>18 DEF ServeFails
<1>19. ASSUME NEW e \in Exchanges, Arrive(e)  PROVE  TypeOK'
  BY <1>19 DEF Arrive, Stages
<1>20. ASSUME NEW e \in Exchanges, Hijack(e)  PROVE  TypeOK'
  BY <1>20 DEF Hijack, Stages
<1>21. ASSUME NEW e \in Exchanges, Panic(e)  PROVE  TypeOK'
  BY <1>21 DEF Panic, Stages
<1>22. ASSUME NEW e \in Exchanges, EndExchange(e)  PROVE  TypeOK'
  BY <1>22 DEF EndExchange, Stages
<1>23. ASSUME NEW e \in Exchanges, BeginTx(e)  PROVE  TypeOK'
  BY <1>23 DEF BeginTx, Stages
<1>24. ASSUME NEW e \in Exchanges, BeginTxFails(e)  PROVE  TypeOK'
  BY <1>24 DEF BeginTxFails, Lost, Stages
<1>25. ASSUME NEW e \in Exchanges, Rollback(e)  PROVE  TypeOK'
  BY <1>25 DEF Rollback, Lost, Stages
<1>26. ASSUME NEW e \in Exchanges, Commit(e)  PROVE  TypeOK'
  BY <1>26 DEF Commit, Stages
<1>27. CASE Signal
  BY <1>27 DEF Signal
<1>28. CASE Crash
  <2>1. stage' \in [Exchanges -> Stages]
    BY <1>28 DEF Crash, ProcessEnds, Stages
  <2>2. main' \in MainStates /\ conn' = Nobody /\ dbOpen' = FALSE /\ code' \in Codes
    BY <1>28 DEF Crash, ProcessEnds, MainStates, Codes
  <2>3. UNCHANGED <<session, policy, closeErr, printed, ctxDone, path, meta, rows, serve,
                    inShutdown, ended, failures>>
    BY <1>28 DEF Crash, ProcessEnds
  <2> QED
    BY <2>1, <2>2, <2>3
<1>29. CASE Restart
  <2>1. session' \in 1 .. MaxSessions
    BY <1>29, SessionsAssumption DEF Restart
  <2> QED
    BY <1>29, <2>1 DEF Restart, MainStates, Codes, NotPrinted
<1>30. CASE UNCHANGED vars
  BY <1>30 DEF vars
<1> HIDE DEF TypeOK, runVars, mainVars, fileVars, serverVars, exchangeVars
<1> QED
  BY SMTT(60), <1>1, <1>2, <1>3, <1>4, <1>5, <1>6, <1>7, <1>8, <1>9, <1>10, <1>11,
     <1>12, <1>13, <1>14, <1>15, <1>16, <1>17, <1>18, <1>19, <1>20, <1>21, <1>22,
     <1>23, <1>24, <1>25, <1>26, <1>27, <1>28, <1>29, <1>30 DEF Next, MainStep,
     HandlerStep, AddStep

\* Every state of every run is well typed.
THEOREM TypeCorrect == Spec => []TypeOK
<1>1. Init => TypeOK
  BY TypeInit
<1>2. TypeOK /\ [Next]_vars => TypeOK'
  BY TypeStep
<1> QED
  BY <1>1, <1>2, PTL DEF Spec

-----------------------------------------------------------------------------
(* Frames: what most steps leave alone. *)

\* Only handlers, and the end of the process, touch exchanges, rows and the
\* connection.
LEMMA ExchangeFrame ==
  [Next]_vars =>
     \/ \E e \in Exchanges : HandlerStep(e)
     \/ Exit \/ Crash
     \/ UNCHANGED <<stage, rows, conn>>
<1> SUFFICES ASSUME [Next]_vars, ~Exit, ~Crash, \A e \in Exchanges : ~HandlerStep(e)
             PROVE  UNCHANGED <<stage, rows, conn>>
  OBVIOUS
<1> USE DEF exchangeVars, fileVars
<1>1. CASE Prepare \/ CreateFile \/ Initialize \/ InitializeFails \/ RemoveFile
  BY <1>1 DEF Prepare, CreateFile, Initialize, InitializeFails, RemoveFile
<1>2. CASE (\E k \in Keys : SetMetadata(k)) \/ SetMetadataFails \/ Announce
  BY <1>2 DEF SetMetadata, SetMetadataFails, Announce
<1>3. CASE ServeErrorReceived \/ StartShutdown \/ Drained \/ ShutdownTimeout \/ Join
  BY <1>3 DEF ServeErrorReceived, StartShutdown, Drained, ShutdownTimeout, Join
<1>4. CASE Optimize \/ CloseDB \/ CountLosses
  BY <1>4 DEF Optimize, CloseDB, CountLosses
<1>5. CASE ServeFails \/ Signal \/ Restart
  BY <1>5 DEF ServeFails, Signal, Restart
<1>6. CASE UNCHANGED vars
  BY <1>6 DEF vars
<1> HIDE DEF exchangeVars, fileVars
<1> QED
  BY <1>1, <1>2, <1>3, <1>4, <1>5, <1>6 DEF Next, MainStep

\* Handlers touch nothing of the main goroutine, the server or the metadata.
LEMMA HandlerFrame ==
  ASSUME NEW e \in Exchanges, HandlerStep(e)
  PROVE  /\ Alive
         /\ UNCHANGED <<session, policy, main, code, printed, path, meta, dbOpen,
                        serve, inShutdown>>
BY DEF HandlerStep, AddStep, Arrive, Hijack, Panic, EndExchange, BeginTx, BeginTxFails,
       Rollback, Commit, Lost, runVars, mainVars, fileVars, serverVars

-----------------------------------------------------------------------------
(* Exchanges, rows and the connection. *)

\* One transaction at a time.
LEMMA WriterStep == TypeOK /\ SingleWriter /\ [Next]_vars => SingleWriter'
<1> SUFFICES ASSUME TypeOK, SingleWriter, [Next]_vars  PROVE SingleWriter'
  OBVIOUS
<1>1. ASSUME NEW e \in Exchanges, HandlerStep(e)  PROVE SingleWriter'
  <2>1. CASE Arrive(e) \/ Hijack(e) \/ Panic(e) \/ EndExchange(e)
    BY <2>1 DEF Arrive, Hijack, Panic, EndExchange, SingleWriter, TypeOK
  <2>2. CASE BeginTx(e)
    BY <2>2, NobodyAssumption DEF BeginTx, SingleWriter, TypeOK
  <2>3. CASE BeginTxFails(e)
    BY <2>3 DEF BeginTxFails, Lost, SingleWriter, TypeOK
  <2>4. CASE Rollback(e)
    BY <2>4, NobodyAssumption DEF Rollback, Lost, SingleWriter, TypeOK
  <2>5. CASE Commit(e)
    BY <2>5, NobodyAssumption DEF Commit, SingleWriter, TypeOK
  <2> QED
    BY <1>1, <2>1, <2>2, <2>3, <2>4, <2>5 DEF HandlerStep, AddStep
<1>2. CASE Exit \/ Crash
  BY <1>2, NobodyAssumption DEF Exit, Crash, ProcessEnds, SingleWriter, TypeOK, Running
<1>3. CASE UNCHANGED <<stage, rows, conn>>
  BY <1>3 DEF SingleWriter
<1> QED
  BY <1>1, <1>2, <1>3, ExchangeFrame

\* The table agrees with the handlers.
LEMMA RowsStep == TypeOK /\ RowsMatchOutcomes /\ [Next]_vars => RowsMatchOutcomes'
<1> SUFFICES ASSUME TypeOK, RowsMatchOutcomes, [Next]_vars  PROVE RowsMatchOutcomes'
  OBVIOUS
<1>1. ASSUME NEW e \in Exchanges, HandlerStep(e)  PROVE RowsMatchOutcomes'
  <2>1. CASE Commit(e)
    <3>1. /\ rows' = Append(rows, e)
          /\ stage' = [stage EXCEPT ![e] = "stored"]
          /\ stage[e] = "writing"
      BY <2>1 DEF Commit
    <3>2. \A i \in DOMAIN rows : rows[i] # e
      BY <3>1 DEF RowsMatchOutcomes, InStage
    <3>3. /\ DOMAIN rows' = DOMAIN rows \cup {Len(rows) + 1}
          /\ Len(rows) + 1 \notin DOMAIN rows
          /\ rows'[Len(rows) + 1] = e
          /\ \A i \in DOMAIN rows : rows'[i] = rows[i]
      BY <3>1 DEF TypeOK
    <3>4. InStage({"stored"})' = InStage({"stored"}) \cup {e}
      BY <3>1 DEF TypeOK, InStage
    <3> QED
      BY <3>2, <3>3, <3>4 DEF RowsMatchOutcomes
  <2>2. CASE ~Commit(e)
    <3>1. rows' = rows /\ InStage({"stored"})' = InStage({"stored"})
      BY <1>1, <2>2 DEF HandlerStep, AddStep, Arrive, Hijack, Panic, EndExchange, BeginTx,
                        BeginTxFails, Rollback, Lost, fileVars, InStage, TypeOK
    <3> QED
      BY <3>1 DEF RowsMatchOutcomes
  <2> QED
    BY <2>1, <2>2
<1>2. CASE Exit \/ Crash
  <2>1. rows' = rows /\ InStage({"stored"})' = InStage({"stored"})
    BY <1>2 DEF Exit, Crash, ProcessEnds, fileVars, InStage, Running, TypeOK
  <2> QED
    BY <2>1 DEF RowsMatchOutcomes
<1>3. CASE UNCHANGED <<stage, rows, conn>>
  BY <1>3 DEF RowsMatchOutcomes, InStage
<1> QED
  BY <1>1, <1>2, <1>3, ExchangeFrame

-----------------------------------------------------------------------------
(* The main goroutine and the file. *)

\* Where the main goroutine is tells what the server is doing.
LEMMA ControlStep == TypeOK /\ ControlInv /\ [Next]_vars => ControlInv'
<1> SUFFICES ASSUME TypeOK, ControlInv, [Next]_vars  PROVE ControlInv'
  OBVIOUS
<1> USE DEF ControlInv, BeforeServing, serverVars
<1>1. CASE Prepare \/ CreateFile \/ Initialize \/ InitializeFails \/ RemoveFile
  BY <1>1 DEF Prepare, CreateFile, Initialize, InitializeFails, RemoveFile, Go, Fail
<1>2. CASE (\E k \in Keys : SetMetadata(k)) \/ SetMetadataFails \/ Announce
  BY <1>2 DEF SetMetadata, SetMetadataFails, Announce, Go, FailClosing
<1>3. CASE ServeErrorReceived \/ StartShutdown \/ Drained \/ ShutdownTimeout \/ Join
  BY <1>3 DEF ServeErrorReceived, StartShutdown, Drained, ShutdownTimeout, Join, Go,
              FailClosing
<1>4. CASE Optimize \/ CloseDB
  BY <1>4 DEF Optimize, CloseDB
<1>5. CASE CountLosses
  BY <1>5 DEF CountLosses
<1>6. CASE Exit \/ Crash
  BY <1>6 DEF Exit, Crash, ProcessEnds, Alive
<1>7. CASE ServeFails \/ Signal
  BY <1>7 DEF ServeFails, Signal, mainVars
<1>8. CASE Restart
  BY <1>8 DEF Restart
<1>9. ASSUME NEW e \in Exchanges, HandlerStep(e)  PROVE ControlInv'
  BY <1>9, HandlerFrame
<1>10. CASE UNCHANGED vars
  BY <1>10 DEF vars
<1> HIDE DEF ControlInv, BeforeServing, serverVars
<1> QED
  BY <1>1, <1>2, <1>3, <1>4, <1>5, <1>6, <1>7, <1>8, <1>9, <1>10 DEF Next, MainStep

\* A recording is a whole file before an exchange is seen.
LEMMA FileStep == TypeOK /\ ControlInv /\ FileInv /\ [Next]_vars => FileInv'
<1> SUFFICES ASSUME TypeOK, ControlInv, FileInv, [Next]_vars  PROVE FileInv'
  OBVIOUS
<1> USE DEF FileInv, Required, runVars, fileVars, exchangeVars
<1>1. CASE Prepare \/ CreateFile
  BY <1>1 DEF Prepare, CreateFile, Go, Fail, ControlInv, BeforeServing, serverVars
<1>2. CASE Initialize \/ InitializeFails \/ RemoveFile
  BY <1>2 DEF Initialize, InitializeFails, RemoveFile, Go, Fail, ControlInv, BeforeServing,
              serverVars
<1>3. CASE (\E k \in Keys : SetMetadata(k)) \/ SetMetadataFails \/ Announce
  BY <1>3 DEF SetMetadata, SetMetadataFails, Announce, Go, FailClosing, ControlInv,
              BeforeServing, serverVars
<1>4. CASE ServeErrorReceived \/ StartShutdown \/ Drained \/ ShutdownTimeout \/ Join
  BY <1>4 DEF ServeErrorReceived, StartShutdown, Drained, ShutdownTimeout, Join, Go,
              FailClosing, ControlInv, serverVars
<1>5. CASE Optimize \/ CloseDB \/ CountLosses
  BY <1>5 DEF Optimize, CloseDB, CountLosses, serverVars
<1>6. CASE Exit \/ Crash
  BY <1>6 DEF Exit, Crash, ProcessEnds, Running, serverVars, TypeOK
<1>7. CASE ServeFails \/ Signal \/ Restart
  BY <1>7 DEF ServeFails, Signal, Restart, mainVars, serverVars
<1>8. ASSUME NEW e \in Exchanges, HandlerStep(e)  PROVE FileInv'
  <2>1. path = "recording" /\ Required \subseteq meta
    BY <1>8, HandlerFrame DEF HandlerStep, AddStep, Arrive, Hijack, Panic, EndExchange,
       BeginTx, BeginTxFails, Rollback, Commit
  <2>2. main \notin {"initialize", "remove", "metadata", "announce"}
    BY <1>8, HandlerFrame DEF HandlerStep, AddStep, Arrive, Hijack, Panic, EndExchange,
       BeginTx, BeginTxFails, Rollback, Commit, ControlInv, BeforeServing
  <2> QED
    BY <1>8, <2>1, <2>2, HandlerFrame
<1>9. CASE UNCHANGED vars
  BY <1>9 DEF vars
<1> HIDE DEF FileInv, Required, runVars, fileVars, exchangeVars
<1> QED
  BY <1>1, <1>2, <1>3, <1>4, <1>5, <1>6, <1>7, <1>8, <1>9 DEF Next, MainStep

-----------------------------------------------------------------------------
(* Handlers and the loss counter. *)

\* The part of the invariant about where handlers can be.
LEMMA HandlersStep ==
  TypeOK /\ ControlInv /\ FileInv /\ HandlerInv /\ [Next]_vars => HandlerInv'
<1> SUFFICES ASSUME TypeOK, ControlInv, FileInv, HandlerInv, [Next]_vars
             PROVE  HandlerInv'
  OBVIOUS
<1>1. ASSUME NEW e \in Exchanges, HandlerStep(e)  PROVE HandlerInv'
  <2>1. serve # "off" /\ Alive /\ UNCHANGED <<main, serve>>
    BY <1>1, HandlerFrame DEF HandlerStep, AddStep, Arrive, Hijack, Panic, EndExchange,
       BeginTx, BeginTxFails, Rollback, Commit, HandlerInv, InStage, Running
  <2> QED
    BY <1>1, <2>1 DEF HandlerStep, AddStep, Arrive, Hijack, Panic, EndExchange,
       BeginTx, BeginTxFails, Rollback, Commit, Lost, HandlerInv, InStage, Running, Alive,
       TypeOK
<1>2. CASE Exit \/ Crash
  BY <1>2 DEF Exit, Crash, ProcessEnds, HandlerInv, InStage, Running, Alive, TypeOK, serverVars
<1>3. CASE Announce
  <2>1. \A e \in Exchanges : stage[e] = "idle"
    BY <1>3 DEF Announce, FileInv
  <2> QED
    BY <1>3, <2>1 DEF Announce, exchangeVars, HandlerInv, InStage, Running
<1>4. CASE Restart
  BY <1>4 DEF Restart, HandlerInv, InStage, Alive
<1>5. CASE ~Exit /\ ~Crash /\ ~Announce /\ ~Restart /\ \A e \in Exchanges : ~HandlerStep(e)
  <2>1. UNCHANGED stage
    BY <1>5, ExchangeFrame
  <2>2. (serve' = "off") = (serve = "off") /\ Alive' = Alive
    BY <1>5 DEF Next, MainStep, Prepare, CreateFile, Initialize, InitializeFails,
       RemoveFile, SetMetadata, SetMetadataFails, ServeErrorReceived, StartShutdown,
       Drained, ShutdownTimeout, Join, Optimize, CloseDB, CountLosses,
       ServeFails, Signal, Go, Fail, FailClosing, serverVars, mainVars, Alive, vars
  <2> QED
    BY <2>1, <2>2 DEF HandlerInv, InStage
<1> QED
  BY <1>1, <1>2, <1>3, <1>4, <1>5

\* A handler that counts a loss was not counted before.
LEMMA LostGrows ==
  ASSUME TypeOK, NEW e \in Exchanges, Lost(e), stage[e] # "lost"
  PROVE  /\ InStage({"lost"})' = InStage({"lost"}) \cup {e}
         /\ Cardinality(InStage({"lost"}))' = Cardinality(InStage({"lost"})) + 1
<1>1. InStage({"lost"})' = InStage({"lost"}) \cup {e}
  BY DEF Lost, InStage, TypeOK
<1>2. IsFiniteSet(InStage({"lost"})) /\ e \notin InStage({"lost"})
  BY ExchangesAssumption, FS_Subset DEF InStage
<1> QED
  BY <1>1, <1>2, FS_AddElement

\* The counter equals the number of exchanges whose Add failed.
LEMMA CountStep ==
  TypeOK /\ ControlInv /\ FileInv /\ HandlerInv /\ CountInv /\ [Next]_vars => CountInv'
<1> SUFFICES ASSUME TypeOK, ControlInv, FileInv, HandlerInv, CountInv, [Next]_vars
             PROVE  CountInv'
  OBVIOUS
<1>1. ASSUME NEW e \in Exchanges, HandlerStep(e)  PROVE CountInv'
  <2>1. serve # "off" /\ UNCHANGED serve
    BY <1>1, HandlerFrame DEF HandlerStep, AddStep, Arrive, Hijack, Panic, EndExchange,
       BeginTx, BeginTxFails, Rollback, Commit, HandlerInv, InStage, Running
  <2>2. CASE BeginTxFails(e) \/ Rollback(e)
    BY <2>1, <2>2, LostGrows DEF BeginTxFails, Rollback, Lost, CountInv
  <2>3. CASE ~(BeginTxFails(e) \/ Rollback(e))
    <3>1. UNCHANGED failures /\ InStage({"lost"})' = InStage({"lost"})
      BY <1>1, <2>3 DEF HandlerStep, AddStep, Arrive, Hijack, Panic, EndExchange, BeginTx,
                        Commit, InStage, TypeOK
    <3> QED
      BY <2>1, <3>1 DEF CountInv
  <2> QED
    BY <2>2, <2>3
<1>2. CASE Exit \/ Crash
  <2>1. UNCHANGED <<failures, serve>> /\ InStage({"lost"})' = InStage({"lost"})
    BY <1>2 DEF Exit, Crash, ProcessEnds, InStage, Running, TypeOK, serverVars
  <2> QED
    BY <2>1 DEF CountInv
<1>3. CASE Announce
  <2>1. InStage({"lost"})' = {} /\ failures' = 0
    BY <1>3 DEF Announce, FileInv, ControlInv, BeforeServing, CountInv, InStage, exchangeVars
  <2> QED
    BY <2>1, FS_EmptySet DEF CountInv
<1>4. CASE Restart
  BY <1>4 DEF Restart, CountInv
<1>5. CASE ~Exit /\ ~Crash /\ ~Announce /\ ~Restart /\ \A e \in Exchanges : ~HandlerStep(e)
  <2>1. UNCHANGED <<stage, failures>> /\ (serve' = "off") = (serve = "off")
    BY <1>5 DEF Next, MainStep, Prepare, CreateFile, Initialize, InitializeFails,
       RemoveFile, SetMetadata, SetMetadataFails, ServeErrorReceived, StartShutdown,
       Drained, ShutdownTimeout, Join, Optimize, CloseDB, CountLosses,
       ServeFails, Signal, serverVars, exchangeVars, vars
  <2> QED
    BY <2>1 DEF CountInv, InStage
<1> QED
  BY <1>1, <1>2, <1>3, <1>4, <1>5

-----------------------------------------------------------------------------
(* Shutdown. *)

\* When Shutdown returns nil no ordinary exchange is on its way, and none can
\* arrive afterwards.
LEMMA SettledStep ==
  TypeOK /\ ControlInv /\ HandlerInv /\ SettledInv /\ [Next]_vars => SettledInv'
<1> SUFFICES ASSUME TypeOK, ControlInv, HandlerInv, SettledInv, [Next]_vars, Settled'
             PROVE  \A o \in Ordinary : stage'[o] \in {"idle", "stored", "lost"}
  BY DEF SettledInv
<1>1. ASSUME NEW e \in Exchanges, HandlerStep(e)
      PROVE  \A o \in Ordinary : stage'[o] \in {"idle", "stored", "lost"}
  <2>1. Settled
    BY <1>1, HandlerFrame DEF Settled
  <2>2. inShutdown
    BY <2>1 DEF Settled, ControlInv
  <2>3. \A o \in Ordinary : stage[o] \in {"idle", "stored", "lost"}
    BY <2>1 DEF SettledInv
  <2> QED
    BY <1>1, <2>2, <2>3 DEF HandlerStep, AddStep, Arrive, Hijack, Panic, EndExchange,
       BeginTx, BeginTxFails, Rollback, Commit, Lost, TypeOK, Ordinary
<1>2. CASE Exit \/ Crash
  <2>1. Settled
    BY <1>2 DEF Exit, Crash, Settled, ProcessEnds
  <2> QED
    BY <1>2, <2>1 DEF Exit, Crash, ProcessEnds, SettledInv, Running, Ordinary, TypeOK
<1>3. CASE Drained
  <2>1. \A o \in Ordinary : stage[o] \notin Running
    BY <1>3 DEF Drained, Active, InStage, Ordinary, Running
  <2>2. \A o \in Ordinary : stage[o] \notin {"cut", "dropped"}
    BY <1>3 DEF Drained, HandlerInv, ControlInv, InStage, Ordinary, Alive
  <2> QED
    BY <1>3, <2>1, <2>2 DEF Drained, exchangeVars, Ordinary, Running, TypeOK, Stages
<1>4. CASE ~Exit /\ ~Crash /\ ~Drained /\ \A e \in Exchanges : ~HandlerStep(e)
  <2>1. UNCHANGED stage
    BY <1>4, ExchangeFrame
  <2>2. Settled
    BY <1>4 DEF Next, MainStep, Prepare, CreateFile, Initialize, InitializeFails,
       RemoveFile, SetMetadata, SetMetadataFails, Announce, ServeErrorReceived,
       StartShutdown, ShutdownTimeout, Join, Optimize, CloseDB, CountLosses,
       ServeFails, Signal, Restart, Go, Fail, FailClosing, mainVars, vars, Settled
  <2> QED
    BY <2>1, <2>2 DEF SettledInv
<1> QED
  BY <1>1, <1>2, <1>3, <1>4

\* What is lost of a set of exchanges that has settled stays the same.
LEMMA SettledLosses ==
  TypeOK /\ ControlInv /\ SettledInv /\ [Next]_vars /\ Settled =>
     \A o \in Ordinary : stage'[o] = stage[o]
<1> SUFFICES ASSUME TypeOK, ControlInv, SettledInv, [Next]_vars, Settled,
                    NEW o \in Ordinary
             PROVE  stage'[o] = stage[o]
  OBVIOUS
<1>1. stage[o] \in {"idle", "stored", "lost"} /\ inShutdown
  BY DEF SettledInv, Settled, ControlInv
<1>2. ASSUME NEW e \in Exchanges, HandlerStep(e)  PROVE stage'[o] = stage[o]
  BY <1>1, <1>2 DEF HandlerStep, AddStep, Arrive, Hijack, Panic, EndExchange, BeginTx,
     BeginTxFails, Rollback, Commit, Lost, TypeOK, Ordinary
<1>3. CASE Exit \/ Crash
  BY <1>1, <1>3 DEF Exit, Crash, ProcessEnds, Running, Ordinary
<1> QED
  BY <1>2, <1>3, ExchangeFrame

\* Success is only ever reported when the counter, and with it the set of
\* lost ordinary exchanges, is empty.
LEMMA CleanStep ==
  TypeOK /\ ControlInv /\ CountInv /\ SettledInv /\ CleanExitKeepsAll /\ [Next]_vars
     => CleanExitKeepsAll'
<1> SUFFICES ASSUME TypeOK, ControlInv, CountInv, SettledInv, CleanExitKeepsAll,
                    [Next]_vars, code' = "success"
             PROVE  \A o \in Ordinary : stage'[o] \in {"idle", "stored"}
  BY DEF CleanExitKeepsAll
<1>1. CASE code = "success"
  <2>1. \A o \in Ordinary : stage'[o] = stage[o]
    BY <1>1, SettledLosses DEF Settled
  <2> QED
    BY <1>1, <2>1 DEF CleanExitKeepsAll
<1>2. CASE CountLosses
  <2>1. failures = 0 /\ UNCHANGED stage /\ main = "count"
    BY <1>2 DEF CountLosses, exchangeVars, TypeOK
  <2>2. InStage({"lost"}) = {}
    <3>1. IsFiniteSet(InStage({"lost"}))
      BY ExchangesAssumption, FS_Subset DEF InStage
    <3> QED
      BY <2>1, <3>1, FS_EmptySet DEF CountInv, ControlInv
  <2> QED
    BY <2>1, <2>2 DEF SettledInv, Settled, InStage, Ordinary
<1>3. CASE code # "success" /\ ~CountLosses
  <2>1. code' # "success"
    <3>1. ASSUME NEW e \in Exchanges, HandlerStep(e)  PROVE code' # "success"
      BY <1>3, <3>1, HandlerFrame
    <3>2. CASE \A e \in Exchanges : ~HandlerStep(e)
      BY <1>3, <3>2 DEF Next, MainStep, Prepare, CreateFile, Initialize, InitializeFails,
         RemoveFile, SetMetadata, SetMetadataFails, Announce, ServeErrorReceived,
         StartShutdown, Drained, ShutdownTimeout, Join, Optimize, CloseDB, Exit, Crash, ProcessEnds,
         ServeFails, Signal, Restart, Go, Fail, FailClosing, mainVars, vars
    <3> QED
      BY <3>1, <3>2
  <2> QED
    BY <2>1
<1> QED
  BY <1>1, <1>2, <1>3

\* The printed count stays within its bounds: later losses are not ordinary.
LEMMA PrintedStep ==
  TypeOK /\ ControlInv /\ CountInv /\ SettledInv /\ PrintedCountIsExact /\ [Next]_vars
     => PrintedCountIsExact'
<1> SUFFICES ASSUME TypeOK, ControlInv, CountInv, SettledInv, PrintedCountIsExact,
                    [Next]_vars, printed' # NotPrinted
             PROVE  /\ \A o \in Ordinary : stage'[o] \in {"idle", "stored", "lost"}
                    /\ Cardinality(Ordinary \cap InStage({"lost"})') <= printed'
                    /\ printed' <= Cardinality(InStage({"lost"})')
  BY DEF PrintedCountIsExact
<1>0. IsFiniteSet(InStage({"lost"})) /\ IsFiniteSet(InStage({"lost"})')
  BY ExchangesAssumption, FS_Subset DEF InStage
<1>1. CASE CountLosses
  <2>1. /\ UNCHANGED stage /\ printed' = failures /\ failures = Cardinality(InStage({"lost"}))
        /\ Settled
    BY <1>1 DEF CountLosses, ControlInv, CountInv, exchangeVars, Settled
  <2>2. InStage({"lost"})' = InStage({"lost"})
    BY <2>1 DEF InStage
  <2>3. Cardinality(Ordinary \cap InStage({"lost"})) <= Cardinality(InStage({"lost"}))
    BY <1>0, FS_Subset
  <2>4. failures \in Nat
    BY DEF TypeOK
  <2> QED
    BY <2>1, <2>2, <2>3, <2>4 DEF SettledInv
<1>2. CASE ~CountLosses
  <2>1. printed' = printed
    <3>1. ASSUME NEW e \in Exchanges, HandlerStep(e)  PROVE printed' = printed
      BY <3>1, HandlerFrame
    <3>2. CASE \A e \in Exchanges : ~HandlerStep(e)
      BY <1>2, <3>2 DEF Next, MainStep, Prepare, CreateFile, Initialize, InitializeFails,
         RemoveFile, SetMetadata, SetMetadataFails, Announce, ServeErrorReceived,
         StartShutdown, Drained, ShutdownTimeout, Join, Optimize, CloseDB, Exit, Crash,
         ProcessEnds, ServeFails, Signal, Restart, Go, Fail, FailClosing, mainVars, vars
    <3> QED
      BY <3>1, <3>2
  <2>2. \A o \in Ordinary : stage'[o] = stage[o]
    BY <2>1, SettledLosses DEF Settled
  <2>3. Ordinary \cap InStage({"lost"})' = Ordinary \cap InStage({"lost"})
    BY <2>2 DEF InStage, Ordinary
  <2>4. InStage({"lost"}) \subseteq InStage({"lost"})'
    <3>1. ASSUME NEW e \in Exchanges, HandlerStep(e)
          PROVE  InStage({"lost"}) \subseteq InStage({"lost"})'
      BY <3>1 DEF HandlerStep, AddStep, Arrive, Hijack, Panic, EndExchange, BeginTx,
         BeginTxFails, Rollback, Commit, Lost, TypeOK, InStage
    <3>2. CASE Exit \/ Crash
      BY <3>2 DEF Exit, Crash, ProcessEnds, Running, InStage
    <3>3. CASE UNCHANGED <<stage, rows, conn>>
      BY <3>3 DEF InStage
    <3> QED
      BY <3>1, <3>2, <3>3, ExchangeFrame
  <2>5. Cardinality(InStage({"lost"})) <= Cardinality(InStage({"lost"})')
    BY <1>0, <2>4, FS_Subset
  <2>6. /\ printed \in Int
        /\ Cardinality(InStage({"lost"})) \in Int /\ Cardinality(InStage({"lost"})') \in Int
    BY <1>0, FS_CardinalityType DEF TypeOK, NotPrinted
  <2> QED
    BY <2>1, <2>2, <2>3, <2>5, <2>6 DEF PrintedCountIsExact
<1> QED
  BY <1>1, <1>2

-----------------------------------------------------------------------------
(* The inductive invariant, and what follows from it. *)

\* Before the command starts nothing has happened that the invariant is about.
LEMMA InvariantInit == Init => IInv
<1> SUFFICES ASSUME Init  PROVE IInv
  OBVIOUS
<1>1. SingleWriter
  BY NobodyAssumption DEF Init, SingleWriter
<1>2. RowsMatchOutcomes
  BY DEF Init, RowsMatchOutcomes, InStage
<1>3. ControlInv /\ FileInv
  BY DEF Init, ControlInv, FileInv, BeforeServing, Required
<1>4. HandlerInv /\ CountInv
  BY DEF Init, HandlerInv, CountInv, InStage, Running
<1>5. SettledInv /\ CleanExitKeepsAll /\ PrintedCountIsExact
  BY DEF Init, SettledInv, Settled, CleanExitKeepsAll, PrintedCountIsExact
<1> QED
  BY <1>1, <1>2, <1>3, <1>4, <1>5 DEF IInv

\* No step of a goroutine, a client or the user breaks the invariant.
LEMMA InvariantStep == TypeOK /\ IInv /\ [Next]_vars => IInv'
BY WriterStep, RowsStep, ControlStep, FileStep, HandlersStep, CountStep, SettledStep,
   CleanStep, PrintedStep DEF IInv

\* The strengthening that carries every safety theorem below.
THEOREM Invariant == Spec => []IInv
<1>1. Init => TypeOK /\ IInv
  BY TypeInit, InvariantInit
<1>2. TypeOK /\ IInv /\ [Next]_vars => (TypeOK /\ IInv)'
  BY TypeStep, InvariantStep
<1> QED
  BY <1>1, <1>2, PTL DEF Spec

\* Exit status 0 means that every ordinary exchange the proxy saw is a row.
THEOREM CleanExit == Spec => []CleanExitKeepsAll
<1>1. IInv => CleanExitKeepsAll
  BY DEF IInv
<1> QED
  BY <1>1, Invariant, PTL

\* The loss count on stderr is complete for the exchanges Shutdown waits for.
THEOREM PrintedCount == Spec => []PrintedCountIsExact
<1>1. IInv => PrintedCountIsExact
  BY DEF IInv
<1> QED
  BY <1>1, Invariant, PTL

\* One row for each exchange whose Add committed, and no other row.
THEOREM RowsMatch == Spec => []RowsMatchOutcomes
<1>1. IInv => RowsMatchOutcomes
  BY DEF IInv
<1> QED
  BY <1>1, Invariant, PTL

\* At most one transaction is open, and it belongs to the connection's holder.
THEOREM OneWriter == Spec => []SingleWriter
<1>1. IInv => SingleWriter
  BY DEF IInv
<1> QED
  BY <1>1, Invariant, PTL

\* A row is only found in a recording with its limit, target and policy.
THEOREM MetadataFirst == Spec => []MetadataBeforeTraffic
<1>1. TypeOK /\ IInv => MetadataBeforeTraffic
  <2> SUFFICES ASSUME TypeOK, IInv, rows # << >>
               PROVE  path = "recording" /\ Required \subseteq meta
    BY DEF MetadataBeforeTraffic
  <2>1. Len(rows) # 0
    BY EmptySeq DEF TypeOK
  <2>2. 1 \in DOMAIN rows
    BY <2>1 DEF TypeOK
  <2>3. rows[1] \in InStage({"stored"})
    BY <2>2 DEF IInv, RowsMatchOutcomes
  <2> QED
    BY <2>3 DEF IInv, FileInv, InStage
<1> QED
  BY <1>1, Invariant, TypeCorrect, PTL

\* Nothing that was at the output path before, and no row, is ever changed.
THEOREM NeverOverwritten == Spec => NothingOverwritten
<1> DEFINE Kept == /\ path \in {"foreign", "recording"} => path' = path
                   /\ meta \subseteq meta'
                   /\ Len(rows) <= Len(rows')
                   /\ \A i \in DOMAIN rows : rows'[i] = rows[i]
<1>1. TypeOK /\ IInv /\ [Next]_vars => Kept
  <2> SUFFICES ASSUME TypeOK, IInv, [Next]_vars  PROVE Kept
    OBVIOUS
  <2>1. CASE \E e \in Exchanges : Commit(e)
    BY <2>1 DEF Commit, TypeOK
  <2>2. CASE \A e \in Exchanges : ~Commit(e)
    <3>1. UNCHANGED rows
      BY <2>2, ExchangeFrame DEF HandlerStep, AddStep, Arrive, Hijack, Panic, EndExchange,
         BeginTx, BeginTxFails, Rollback, Lost, Exit, Crash, ProcessEnds, fileVars
    <3>2. /\ meta \subseteq meta'
          /\ path \in {"foreign", "recording"} => path' = path
      <4>1. ASSUME NEW e \in Exchanges, HandlerStep(e)  PROVE UNCHANGED <<path, meta>>
        BY <4>1, HandlerFrame
      <4>2. CASE \A e \in Exchanges : ~HandlerStep(e)
        BY <4>2 DEF Next, MainStep, Prepare, CreateFile, Initialize, InitializeFails,
           RemoveFile, SetMetadata, SetMetadataFails, Announce, ServeErrorReceived,
           StartShutdown, Drained, ShutdownTimeout, Join, Optimize, CloseDB, CountLosses,
           Exit, Crash, ProcessEnds, ServeFails, Signal, Restart, fileVars, vars,
           IInv, FileInv
      <4> QED
        BY <4>1, <4>2
    <3> QED
      BY <3>1, <3>2 DEF TypeOK
  <2> QED
    BY <2>1, <2>2
<1> QED
  BY <1>1, Invariant, TypeCorrect, PTL DEF Spec, NothingOverwritten

-----------------------------------------------------------------------------
(* Refinement: a run of record is a behaviour of the ledger. *)

\* One handler step moves one exchange of the ledger or none.
LEMMA HandlerRefines ==
  ASSUME TypeOK, ControlInv, HandlerInv, NEW e \in Exchanges, HandlerStep(e)
  PROVE  [Ledger!Next]_(Ledger!ledgerVars)
<1>1. Alive /\ UNCHANGED LedgerOutcome /\ LedgerOutcome # "ended"
  BY HandlerFrame DEF LedgerOutcome, Alive
<1> USE DEF LedgerStatus, TypeOK, Running
<1>2. CASE Arrive(e)
  <2>1. LedgerOutcome = "running"
    BY <1>2 DEF Arrive, ControlInv, LedgerOutcome
  <2>2. LedgerStatus' = [LedgerStatus EXCEPT ![e] = "pending"] /\ LedgerStatus[e] = "unseen"
    BY <1>2 DEF Arrive
  <2> QED
    BY <1>1, <1>2, <2>1, <2>2 DEF Arrive, fileVars, Ledger!Next, Ledger!Observe
<1>3. CASE Hijack(e) \/ EndExchange(e) \/ BeginTx(e)
  <2>1. UNCHANGED <<LedgerStatus, rows>>
    BY <1>3 DEF Hijack, EndExchange, BeginTx, fileVars
  <2> QED
    BY <1>1, <2>1 DEF Ledger!ledgerVars
<1>4. CASE Panic(e) \/ BeginTxFails(e) \/ Rollback(e)
  <2>1. /\ LedgerStatus' = [LedgerStatus EXCEPT ![e] = "lost"]
        /\ LedgerStatus[e] = "pending"
        /\ UNCHANGED rows
    BY <1>4 DEF Panic, BeginTxFails, Rollback, Lost, fileVars
  <2> QED
    BY <1>1, <2>1 DEF Ledger!Next, Ledger!Lose
<1>5. CASE Commit(e)
  <2>1. /\ LedgerStatus' = [LedgerStatus EXCEPT ![e] = "kept"]
        /\ LedgerStatus[e] = "pending"
        /\ rows' = Append(rows, e)
    BY <1>5 DEF Commit
  <2> QED
    BY <1>1, <2>1 DEF Ledger!Next, Ledger!Keep
<1> QED
  BY <1>2, <1>3, <1>4, <1>5 DEF HandlerStep, AddStep

\* The other steps decide, end or restart the run, or are invisible.
LEMMA StepRefines == TypeOK /\ IInv /\ IInv' /\ [Next]_vars => [Ledger!Next]_(Ledger!ledgerVars)
<1> SUFFICES ASSUME TypeOK, IInv, IInv', [Next]_vars
             PROVE  [Ledger!Next]_(Ledger!ledgerVars)
  OBVIOUS
<1>1. ASSUME NEW e \in Exchanges, HandlerStep(e)
      PROVE  [Ledger!Next]_(Ledger!ledgerVars)
  BY <1>1, HandlerRefines DEF IInv
<1>2. CASE Exit \/ Crash
  <2>1. LedgerOutcome # "ended" /\ LedgerOutcome' = "ended" /\ UNCHANGED rows
    BY <1>2 DEF Exit, Crash, ProcessEnds, Alive, LedgerOutcome, fileVars
  <2>2. stage' = [e \in Exchanges |-> IF stage[e] \in Running THEN "cut" ELSE stage[e]]
    BY <1>2 DEF Exit, Crash, ProcessEnds
  <2>3. LedgerStatus' = [e \in Exchanges |-> IF LedgerStatus[e] = "pending" THEN "lost"
                                             ELSE LedgerStatus[e]]
    BY <2>2 DEF LedgerStatus, Running, TypeOK
  <2> QED
    BY <2>1, <2>3 DEF Ledger!Next, Ledger!End, Ledger!Abandoned
<1>3. CASE Restart
  <2>1. LedgerOutcome = "ended" /\ LedgerOutcome' = "running" /\ UNCHANGED <<rows, LedgerStatus>>
    BY <1>3 DEF Restart, Alive, LedgerOutcome, LedgerStatus, fileVars
  <2> QED
    BY <2>1 DEF Ledger!Next, Ledger!Restart
<1>4. CASE CountLosses
  <2>1. UNCHANGED <<rows, LedgerStatus>> /\ UNCHANGED stage /\ main = "count" /\ main' = "exit"
    BY <1>4 DEF CountLosses, LedgerStatus, fileVars, exchangeVars
  <2>2. CASE code' = "success"
    <3>1. LedgerOutcome = "running" /\ LedgerOutcome' = "succeeded"
      BY <2>1, <2>2 DEF LedgerOutcome, Alive, IInv, ControlInv
    <3>2. \A o \in Ordinary : stage[o] \in {"idle", "stored"}
      BY <2>1, <2>2 DEF IInv, CleanExitKeepsAll
    <3>3. \A o \in Ordinary : LedgerStatus[o] \in {"unseen", "kept"}
      BY <3>2 DEF LedgerStatus, Ordinary, Running
    <3> QED
      BY <2>1, <3>1, <3>3 DEF Ledger!Next, Ledger!Succeed
  <2>3. CASE code' # "success"
    <3>1. UNCHANGED LedgerOutcome
      BY <2>1, <2>3 DEF LedgerOutcome, Alive, IInv, ControlInv
    <3> QED
      BY <2>1, <3>1 DEF Ledger!ledgerVars
  <2> QED
    BY <2>2, <2>3
<1>5. CASE /\ ~Exit /\ ~Crash /\ ~Restart /\ ~CountLosses
           /\ \A e \in Exchanges : ~HandlerStep(e)
  <2>1. UNCHANGED <<rows, LedgerStatus>>
    BY <1>5, ExchangeFrame DEF LedgerStatus
  <2>2. UNCHANGED Alive /\ (code' = "success") = (code = "success")
    BY <1>5 DEF Next, MainStep, Prepare, CreateFile, Initialize, InitializeFails,
       RemoveFile, SetMetadata, SetMetadataFails, Announce, ServeErrorReceived,
       StartShutdown, Drained, ShutdownTimeout, Join, Optimize, CloseDB, ServeFails,
       Signal, Go, Fail, FailClosing, mainVars, vars, Alive, IInv, ControlInv,
       BeforeServing
  <2> QED
    BY <2>1, <2>2 DEF LedgerOutcome, Ledger!ledgerVars
<1> QED
  BY <1>1, <1>2, <1>3, <1>4, <1>5

\* Every behaviour of Recorder is one of RecordingLedger.
THEOREM Refinement == Spec => KeepsLedger
<1>1. Init => Ledger!Init
  <2> SUFFICES ASSUME Init  PROVE Ledger!Init
    OBVIOUS
  <2>1. \A e \in Exchanges : stage[e] = "idle"
    BY DEF Init
  <2>2. LedgerStatus = [e \in Exchanges |-> "unseen"]
    BY <2>1 DEF LedgerStatus, Running
  <2>3. rows = << >> /\ LedgerOutcome = "running"
    BY DEF Init, LedgerOutcome, Alive
  <2> QED
    BY <2>2, <2>3 DEF Ledger!Init
<1>2. TypeOK /\ IInv /\ IInv' /\ [Next]_vars => [Ledger!Next]_(Ledger!ledgerVars)
  BY StepRefines
<1> QED
  BY <1>1, <1>2, TypeCorrect, Invariant, PTL DEF Spec, KeepsLedger, Ledger!Spec
=============================================================================
