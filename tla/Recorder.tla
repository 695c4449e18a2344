------------------------------ MODULE Recorder ------------------------------
(***************************************************************************)
(* `graybox record`: the main goroutine of internal/cli/record.go, the     *)
(* concurrent proxy handlers of internal/capture/proxy.go, and the store   *)
(* of internal/storage they share, over as many runs of the command on one *)
(* output path as MaxSessions allows.                                      *)
(*                                                                         *)
(* The handlers reach the store through database/sql's pool, which Graybox *)
(* limits to one connection: a transaction holds it from BeginTx to        *)
(* Commit or Rollback, the next holder is any of the waiters, and closing  *)
(* the pool fails those still waiting while a transaction that has begun   *)
(* may still commit.  Shutdown of net/http waits for active handlers, but  *)
(* not for connections a handler has taken over (101 Switching Protocols). *)
(***************************************************************************)
EXTENDS Integers, Sequences, FiniteSets

CONSTANTS Exchanges,   \* the exchanges clients may send
          Upgrades,    \* those whose upstream answers 101 and is hijacked
          Panics,      \* those whose handler panics with an unexpected value
          MaxSessions  \* bound: how often the command is started

ASSUME ExchangesAssumption ==
    /\ IsFiniteSet(Exchanges)
    /\ Upgrades \subseteq Exchanges
    /\ Panics \subseteq Exchanges
\* Who holds the connection when nobody does.
Nobody == "nobody"
ASSUME NobodyAssumption == Nobody \notin Exchanges
ASSUME SessionsAssumption == MaxSessions \in Nat \ {0}

Ordinary == Exchanges \ (Upgrades \cup Panics)

VARIABLES
    session,     \* how many times the command has been started
    main,        \* where the main goroutine is
    code,        \* the exit status it has settled on
    closeErr,    \* finishing the store failed
    ctxDone,     \* SIGINT or SIGTERM was delivered
    policy,      \* redaction is configured
    path,        \* what is at the output path
    meta,        \* the recording-level metadata written by record
    rows,        \* the exchanges table: the row with ID i is rows[i]
    dbOpen,      \* the sql.DB is open
    conn,        \* who holds the only connection
    serve,       \* the goroutine running server.Serve, and what it returned
    inShutdown,  \* server.Shutdown was called
    stage,       \* where each exchange's handler is
    ended,       \* the handlers that took their completed_at, in that order
    failures,    \* Proxy.persistenceFailures
    printed      \* the loss count written to stderr

vars == <<session, main, code, closeErr, ctxDone, policy, path, meta, rows, dbOpen,
          conn, serve, inShutdown, stage, ended, failures, printed>>
runVars      == <<session, policy>>                    \* fixed during a run
mainVars     == <<main, code, closeErr, printed>>
fileVars     == <<path, meta, rows>>
serverVars   == <<serve, inShutdown>>
exchangeVars == <<stage, ended, failures>>

MainStates == {"prepare", "create", "initialize", "remove", "metadata", "announce",
               "serving", "draining", "join", "optimize", "dbclose",
               "count", "exit", "exited"}
Codes  == {"none", "success", "usage", "internal", "crashed"}
Keys   == {"target_url", "body_capture_limit", "redaction_policy"}
Paths  == {"absent", "foreign", "empty", "recording"}
Stages == {"idle", "proxying", "upgraded", "waiting", "writing",
           "stored", "lost", "dropped", "cut"}

NotPrinted == -1
Running == {"proxying", "upgraded", "waiting", "writing"}
InStage(S) == {e \in Exchanges : stage[e] \in S}
Alive == main # "exited"

\* The metadata this run of the command has to write before it serves.
Required == IF policy THEN Keys ELSE Keys \ {"redaction_policy"}

TypeOK ==
    /\ session \in 1 .. MaxSessions
    /\ main \in MainStates
    /\ code \in Codes
    /\ closeErr \in BOOLEAN
    /\ ctxDone \in BOOLEAN
    /\ policy \in BOOLEAN
    /\ path \in Paths
    /\ meta \subseteq Keys
    /\ rows \in Seq(Exchanges)
    /\ dbOpen \in BOOLEAN
    /\ conn \in Exchanges \cup {Nobody}
    /\ serve \in {"off", "running", "closed", "failed"}
    /\ inShutdown \in BOOLEAN
    /\ stage \in [Exchanges -> Stages]
    /\ ended \in Seq(Exchanges)
    /\ failures \in Nat
    /\ printed \in Nat \cup {NotPrinted}

Init ==
    /\ session = 1
    /\ main = "prepare"
    /\ code = "none"
    /\ closeErr = FALSE
    /\ ctxDone = FALSE
    /\ policy \in BOOLEAN
    /\ path \in {"absent", "foreign"}
    /\ meta = {}
    /\ rows = << >>
    /\ dbOpen = FALSE
    /\ conn = Nobody
    /\ serve = "off"
    /\ inShutdown = FALSE
    /\ stage = [e \in Exchanges |-> "idle"]
    /\ ended = << >>
    /\ failures = 0
    /\ printed = NotPrinted

-----------------------------------------------------------------------------
(* The main goroutine: runRecord and finishRecording. *)

\* Every early return with an error, at a point where the store is not open.
Fail(status) ==
    /\ main' = "exit"
    /\ code' = status
    /\ UNCHANGED <<closeErr, printed>>

\* ... and where it is: the deferred store.Close runs first.
FailClosing ==
    /\ main' = "optimize"
    /\ code' = "internal"
    /\ UNCHANGED <<closeErr, printed>>

Go(next) ==
    /\ main' = next
    /\ UNCHANGED <<code, closeErr, printed>>

\* Options, configuration and target, then net.Listen.
Prepare ==
    /\ main = "prepare"
    /\ Go("create") \/ Fail("usage") \/ Fail("internal")
    /\ UNCHANGED <<runVars, ctxDone, fileVars, dbOpen, conn, serverVars, exchangeVars>>

\* Mutant of CreateFile: without O_EXCL, with O_TRUNC.
CreateFileTruncating ==
    /\ main = "create"
    /\ path' = "empty"
    /\ meta' = {}
    /\ rows' = << >>
    /\ Go("initialize")
    /\ UNCHANGED <<runVars, ctxDone, dbOpen, conn, serverVars, exchangeVars>>

\* storage.Create: the file is made with O_EXCL, whatever is there stays.
CreateFile ==
    /\ main = "create"
    /\ IF path = "absent"
       THEN path' = "empty" /\ Go("initialize")
       ELSE path' = path /\ Fail("internal")
    /\ UNCHANGED <<runVars, ctxDone, meta, rows, dbOpen, conn, serverVars, exchangeVars>>

\* The schema and its metadata in one transaction; a cancelled context fails it.
Initialize ==
    /\ main = "initialize"
    /\ ~ctxDone
    /\ path' = "recording"
    /\ dbOpen' = TRUE
    /\ Go("metadata")
    /\ UNCHANGED <<runVars, ctxDone, meta, rows, conn, serverVars, exchangeVars>>

InitializeFails ==
    /\ main = "initialize"
    /\ Go("remove")
    /\ UNCHANGED <<runVars, ctxDone, fileVars, dbOpen, conn, serverVars, exchangeVars>>

RemoveFile ==
    /\ main = "remove"
    /\ path' = "absent"
    /\ Fail("internal")
    /\ UNCHANGED <<runVars, ctxDone, meta, rows, dbOpen, conn, serverVars, exchangeVars>>

\* The keys in the order record writes them.
Precedes(k, l) ==
    \/ k = "target_url" /\ l # "target_url"
    \/ k = "body_capture_limit" /\ l = "redaction_policy"

SetMetadata(k) ==
    /\ main = "metadata"
    /\ ~ctxDone
    /\ k \in Required \ meta
    /\ \A l \in Required : Precedes(l, k) => l \in meta
    /\ meta' = meta \cup {k}
    /\ Go(IF Required \subseteq meta' THEN "announce" ELSE "metadata")
    /\ UNCHANGED <<runVars, ctxDone, path, rows, dbOpen, conn, serverVars, exchangeVars>>

\* Mutant of SetMetadataFails: the error is ignored.
SetMetadataIgnored ==
    /\ main = "metadata"
    /\ Go("announce")
    /\ UNCHANGED <<runVars, ctxDone, fileVars, dbOpen, conn, serverVars, exchangeVars>>

SetMetadataFails ==
    /\ main = "metadata"
    /\ FailClosing
    /\ UNCHANGED <<runVars, ctxDone, fileVars, dbOpen, conn, serverVars, exchangeVars>>

\* The startup message, then the goroutine that serves.
Announce ==
    /\ main = "announce"
    /\ \/ Go("serving") /\ serve' = "running"
       \/ FailClosing /\ UNCHANGED serve
    /\ UNCHANGED <<runVars, ctxDone, fileVars, dbOpen, conn, inShutdown, exchangeVars>>

\* The select: the error of Serve is received.  (It cannot be ErrServerClosed:
\* only this goroutine shuts the server down.)
ServeErrorReceived ==
    /\ main = "serving"
    /\ serve = "failed"
    /\ FailClosing
    /\ UNCHANGED <<runVars, ctxDone, fileVars, dbOpen, conn, serverVars, exchangeVars>>

\* The select: the context is done, and Shutdown closes the listener.
StartShutdown ==
    /\ main = "serving"
    /\ ctxDone
    /\ Go("draining")
    /\ inShutdown' = TRUE
    /\ serve' = IF serve = "running" THEN "closed" ELSE serve
    /\ UNCHANGED <<runVars, ctxDone, fileVars, dbOpen, conn, exchangeVars>>

\* Mutant of Active: an exchange is over when its response is.
ActiveProxying == InStage({"proxying"})

\* Handlers whose connection the server still owns: all but the hijacked.
Active == {e \in InStage(Running) : stage[e] = "proxying" \/ e \notin Upgrades}

Drained ==
    /\ main = "draining"
    /\ Active = {}
    /\ Go("join")
    /\ UNCHANGED <<runVars, ctxDone, fileVars, dbOpen, conn, serverVars, exchangeVars>>

\* Mutant of ShutdownTimeout: Shutdown has no deadline.
ShutdownUnbounded == FALSE

\* Ten seconds have passed: server.Close, and finishRecording is not called.
\* Shutdown polls, so the last handler may just have ended.
ShutdownTimeout ==
    /\ main = "draining"
    /\ FailClosing
    /\ UNCHANGED <<runVars, ctxDone, fileVars, dbOpen, conn, serverVars, exchangeVars>>

Join ==
    /\ main = "join"
    /\ \/ serve = "closed" /\ Go("optimize")
       \/ serve = "failed" /\ FailClosing
    /\ UNCHANGED <<runVars, ctxDone, fileVars, dbOpen, conn, serverVars, exchangeVars>>

\* Store.Close: PRAGMA optimize needs the connection, ...
Optimize ==
    /\ main = "optimize"
    /\ conn = Nobody
    /\ main' = "dbclose"
    /\ closeErr' \in BOOLEAN
    /\ UNCHANGED <<code, printed>>
    /\ UNCHANGED <<runVars, ctxDone, fileVars, dbOpen, conn, serverVars, exchangeVars>>

\* ... then the pool is closed, and runRecord returns unless this was
\* finishRecording, which still has to count.
CloseDB ==
    /\ main = "dbclose"
    /\ dbOpen' = FALSE
    /\ main' = IF code = "none" THEN "count" ELSE "exit"
    /\ closeErr' = TRUE \/ UNCHANGED closeErr
    /\ UNCHANGED <<code, printed>>
    /\ UNCHANGED <<runVars, ctxDone, fileVars, conn, serverVars, exchangeVars>>

\* Mutant of CountLosses: the losses are printed and forgotten.
CountLossesQuietly ==
    /\ main = "count"
    /\ main' = "exit"
    /\ printed' = IF failures > 0 THEN failures ELSE NotPrinted
    /\ code' = IF closeErr THEN "internal" ELSE "success"
    /\ UNCHANGED closeErr
    /\ UNCHANGED <<runVars, ctxDone, fileVars, dbOpen, conn, serverVars, exchangeVars>>

\* The rest of finishRecording.
CountLosses ==
    /\ main = "count"
    /\ main' = "exit"
    /\ printed' = IF failures > 0 THEN failures ELSE NotPrinted
    /\ code' = IF failures > 0 \/ closeErr THEN "internal" ELSE "success"
    /\ UNCHANGED closeErr
    /\ UNCHANGED <<runVars, ctxDone, fileVars, dbOpen, conn, serverVars, exchangeVars>>

\* The end of the process takes its goroutines along; SQLite rolls back an
\* open transaction.
ProcessEnds ==
    /\ main' = "exited"
    /\ stage' = [e \in Exchanges |-> IF stage[e] \in Running THEN "cut" ELSE stage[e]]
    /\ conn' = Nobody
    /\ dbOpen' = FALSE
    /\ UNCHANGED <<closeErr, printed, runVars, ctxDone, fileVars, serverVars, ended, failures>>

Exit  == main = "exit" /\ ProcessEnds /\ UNCHANGED code
Crash == Alive /\ ProcessEnds /\ code' = "crashed"

-----------------------------------------------------------------------------
(* The server and its handlers: Proxy.ServeHTTP, persistExchange, Store.Add. *)

\* Accept fails for good.  Connections that are open are still served.
ServeFails ==
    /\ Alive
    /\ serve = "running"
    /\ serve' = "failed"
    /\ UNCHANGED <<runVars, mainVars, ctxDone, fileVars, dbOpen, conn, inShutdown,
                   exchangeVars>>

Arrive(e) ==
    /\ Alive
    /\ serve \in {"running", "failed"}
    /\ ~inShutdown
    /\ stage[e] = "idle"
    /\ stage' = [stage EXCEPT ![e] = "proxying"]
    /\ UNCHANGED <<runVars, mainVars, ctxDone, fileVars, dbOpen, conn, serverVars,
                   ended, failures>>

\* ReverseProxy takes the connection over through captureWriter.Unwrap.
Hijack(e) ==
    /\ Alive
    /\ e \in Upgrades
    /\ stage[e] = "proxying"
    /\ stage' = [stage EXCEPT ![e] = "upgraded"]
    /\ UNCHANGED <<runVars, mainVars, ctxDone, fileVars, dbOpen, conn, serverVars,
                   ended, failures>>

\* The deferred function re-panics what is not ErrAbortHandler; net/http
\* recovers it.
Panic(e) ==
    /\ Alive
    /\ e \in Panics
    /\ stage[e] = "proxying"
    /\ stage' = [stage EXCEPT ![e] = "dropped"]
    /\ UNCHANGED <<runVars, mainVars, ctxDone, fileVars, dbOpen, conn, serverVars,
                   ended, failures>>

\* However the exchange went, persistExchange takes completed_at and calls Add.
EndExchange(e) ==
    /\ Alive
    /\ stage[e] \in {"proxying", "upgraded"}
    /\ stage' = [stage EXCEPT ![e] = "waiting"]
    /\ ended' = Append(ended, e)
    /\ UNCHANGED <<runVars, mainVars, ctxDone, fileVars, dbOpen, conn, serverVars, failures>>

\* Add: BeginTx gets the connection.  The context is without cancellation.
BeginTx(e) ==
    /\ Alive
    /\ dbOpen
    /\ conn = Nobody
    /\ stage[e] = "waiting"
    /\ stage' = [stage EXCEPT ![e] = "writing"]
    /\ conn' = e
    /\ UNCHANGED <<runVars, mainVars, ctxDone, fileVars, dbOpen, serverVars, ended, failures>>

\* Mutant of Lost: the counter runs the wrong way.
LostUncounted(e) ==
    /\ stage' = [stage EXCEPT ![e] = "lost"]
    /\ failures' = failures - 1
    /\ UNCHANGED <<runVars, mainVars, ctxDone, fileVars, dbOpen, serverVars, ended>>

\* Add returned an error: the handler counts it.
Lost(e) ==
    /\ stage' = [stage EXCEPT ![e] = "lost"]
    /\ failures' = failures + 1
    /\ UNCHANGED <<runVars, mainVars, ctxDone, fileVars, dbOpen, serverVars, ended>>

\* The pool is closed, or was while this handler waited.
BeginTxFails(e) ==
    /\ Alive
    /\ ~dbOpen
    /\ stage[e] = "waiting"
    /\ Lost(e)
    /\ UNCHANGED conn

\* Mutant of Rollback: the deferred Rollback is missing.
RollbackForgotten(e) ==
    /\ Alive
    /\ stage[e] = "writing"
    /\ UNCHANGED conn
    /\ Lost(e)

Rollback(e) ==
    /\ Alive
    /\ stage[e] = "writing"
    /\ conn' = Nobody
    /\ Lost(e)

\* Mutant of Commit: a committed exchange is added once more.
CommitRetried(e) ==
    /\ Alive
    /\ stage[e] = "writing"
    /\ conn' = Nobody
    /\ rows' = Append(rows, e)
    /\ stage' = [stage EXCEPT ![e] = "waiting"]
    /\ UNCHANGED <<runVars, mainVars, ctxDone, path, meta, dbOpen, serverVars, ended, failures>>

Commit(e) ==
    /\ Alive
    /\ stage[e] = "writing"
    /\ conn' = Nobody
    /\ rows' = Append(rows, e)
    /\ stage' = [stage EXCEPT ![e] = "stored"]
    /\ UNCHANGED <<runVars, mainVars, ctxDone, path, meta, dbOpen, serverVars, ended, failures>>

-----------------------------------------------------------------------------
\* SIGINT or SIGTERM: signal.NotifyContext cancels the context, once.
Signal ==
    /\ Alive
    /\ ~ctxDone
    /\ ctxDone' = TRUE
    /\ UNCHANGED <<runVars, mainVars, fileVars, dbOpen, conn, serverVars, exchangeVars>>

\* The user runs the command again on the same output path.
Restart ==
    /\ main = "exited"
    /\ session < MaxSessions
    /\ session' = session + 1
    /\ main' = "prepare"
    /\ code' = "none"
    /\ closeErr' = FALSE
    /\ printed' = NotPrinted
    /\ ctxDone' = FALSE
    /\ serve' = "off"
    /\ inShutdown' = FALSE
    /\ failures' = 0
    /\ UNCHANGED <<policy, fileVars, dbOpen, conn, stage, ended>>

\* The steps the main goroutine takes by itself.
MainStep ==
    \/ Prepare \/ CreateFile \/ Initialize \/ InitializeFails \/ RemoveFile
    \/ (\E k \in Keys : SetMetadata(k)) \/ SetMetadataFails \/ Announce
    \/ ServeErrorReceived \/ StartShutdown \/ Drained \/ ShutdownTimeout
    \/ Join \/ Optimize \/ CloseDB \/ CountLosses \/ Exit

\* What a handler does once the exchange has ended.
AddStep(e) == BeginTx(e) \/ BeginTxFails(e) \/ Rollback(e) \/ Commit(e)

HandlerStep(e) == Arrive(e) \/ Hijack(e) \/ Panic(e) \/ EndExchange(e) \/ AddStep(e)

Next ==
    \/ MainStep
    \/ ServeFails
    \/ \E e \in Exchanges : HandlerStep(e)
    \/ Signal
    \/ Crash
    \/ Restart

Spec == Init /\ [][Next]_vars

\* The goroutines run; a transaction that began ends; the shutdown timer fires.
\* Nothing is assumed of clients, of upstreams, of signals or of restarts.
Fairness ==
    /\ WF_vars(MainStep)
    /\ \A e \in Exchanges : WF_vars(AddStep(e))

FairSpec == Spec /\ Fairness

-----------------------------------------------------------------------------
(* Safety. *)

\* A clean exit means no ordinary exchange the proxy saw is missing: Shutdown
\* waits for the handlers, handlers end with their transaction, and every
\* failed Add was counted before the count was read.
CleanExitKeepsAll ==
    code = "success" => \A e \in Ordinary : stage[e] \in {"idle", "stored"}

\* The loss count printed at the end is neither early nor late: no ordinary
\* exchange is still on its way, every ordinary one that failed is in it, and
\* nothing is in it that did not fail.
PrintedCountIsExact ==
    printed # NotPrinted =>
        /\ \A e \in Ordinary : stage[e] \in {"idle", "stored", "lost"}
        /\ Cardinality(Ordinary \cap InStage({"lost"})) <= printed
        /\ printed <= Cardinality(InStage({"lost"}))

\* The table and the handlers agree: an exchange has one row if its Add
\* committed and none otherwise, whatever failed, raced or crashed.
RowsMatchOutcomes ==
    /\ {rows[i] : i \in DOMAIN rows} = InStage({"stored"})
    /\ \A i, j \in DOMAIN rows : rows[i] = rows[j] => i = j

\* One transaction at a time, and only while the pool or that transaction lives.
SingleWriter ==
    \A e \in Exchanges : stage[e] = "writing" <=> conn = e

\* No row is written to a file that lacks the metadata needed to read it: the
\* limit that bounded its bodies and the policy that redacted it.
MetadataBeforeTraffic ==
    rows # << >> => path = "recording" /\ Required \subseteq meta

-----------------------------------------------------------------------------
(* Why it is so: the inductive invariant. *)

BeforeServing == {"prepare", "create", "initialize", "remove", "metadata", "announce"}

\* The position of the main goroutine and what it implies for the server.
ControlInv ==
    /\ main \in BeforeServing \cup {"serving", "draining", "join", "count"} => code = "none"
    /\ main \in BeforeServing => serve = "off"
    /\ main \in {"serving", "draining", "join", "count"} => serve # "off"
    /\ main \in {"draining", "join", "count"} => inShutdown
    /\ main \in {"optimize", "dbclose"} /\ code = "none" => serve # "off" /\ inShutdown
    /\ code = "success" => main \in {"exit", "exited"} /\ inShutdown
    /\ printed # NotPrinted => main \in {"exit", "exited"} /\ inShutdown

\* The file and the run that is making it: no exchange is seen before the
\* recording is complete as a file, and a run finds no traces of another one.
FileInv ==
    /\ path # "recording" => meta = {} /\ rows = << >>
    /\ main \in {"initialize", "remove"} => path = "empty"
    /\ main \in {"metadata", "announce"} => path = "recording"
    /\ main = "announce" => Required \subseteq meta
    /\ serve # "off" => path = "recording" /\ Required \subseteq meta
    /\ main \in {"initialize", "remove", "metadata", "announce"} =>
           \A e \in Exchanges : stage[e] = "idle"
    /\ (\E e \in Exchanges : stage[e] # "idle") =>
           path = "recording" /\ Required \subseteq meta

\* Handlers belong to the running process, and only some exchanges can be
\* hijacked or dropped.
HandlerInv ==
    /\ serve = "off" \/ ~Alive => InStage(Running) = {}
    /\ serve # "off" /\ Alive => InStage({"cut"}) = {}
    /\ InStage({"dropped"}) \subseteq Panics
    /\ InStage({"upgraded"}) \subseteq Upgrades

\* The counter counts.
CountInv ==
    /\ serve = "off" => failures = 0
    /\ serve # "off" => failures = Cardinality(InStage({"lost"}))

\* From the moment Shutdown returns nil until the run is over.
Settled ==
    \/ main \in {"join", "count"}
    \/ main \in {"optimize", "dbclose"} /\ code = "none"
    \/ code = "success"
    \/ printed # NotPrinted

SettledInv ==
    Settled => \A e \in Ordinary : stage[e] \in {"idle", "stored", "lost"}

IInv ==
    /\ SingleWriter
    /\ RowsMatchOutcomes
    /\ ControlInv
    /\ FileInv
    /\ HandlerInv
    /\ CountInv
    /\ SettledInv
    /\ CleanExitKeepsAll
    /\ PrintedCountIsExact

-----------------------------------------------------------------------------
(* Action properties. *)

\* A finished or foreign file survives every later run, failed creations and
\* crashes included, and a recording only grows.
NothingOverwritten ==
    [][ /\ path \in {"foreign", "recording"} => path' = path
        /\ meta \subseteq meta'
        /\ Len(rows) <= Len(rows')
        /\ \A i \in DOMAIN rows : rows'[i] = rows[i] ]_vars

-----------------------------------------------------------------------------
(* Liveness. *)

\* A signal ends the command, even if an upstream never answers or a client
\* never reads: Shutdown is bounded and closing the store waits for
\* transactions only.
SignalEnds == ctxDone ~> ~Alive

\* An exchange that ended is recorded, counted as lost, or dies with the process.
EndedSettles ==
    \A e \in Exchanges :
        stage[e] = "waiting" ~> stage[e] \in {"stored", "lost", "cut"}

-----------------------------------------------------------------------------
(* The recording ledger. *)

LedgerStatus == [e \in Exchanges |->
    CASE stage[e] = "idle"   -> "unseen"
      [] stage[e] \in Running -> "pending"
      [] stage[e] = "stored" -> "kept"
      [] OTHER               -> "lost"]

LedgerOutcome ==
    IF ~Alive THEN "ended" ELSE IF code = "success" THEN "succeeded" ELSE "running"

Ledger == INSTANCE RecordingLedger
            WITH Awaited <- Ordinary, status <- LedgerStatus,
                 kept <- rows, outcome <- LedgerOutcome

\* Every run of record is a behaviour of the ledger.
KeepsLedger == Ledger!Spec
=============================================================================
