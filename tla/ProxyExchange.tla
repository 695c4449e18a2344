--------------------------- MODULE ProxyExchange ---------------------------
(***************************************************************************)
(* One exchange through the recording proxy of internal/capture/proxy.go:  *)
(* the handler goroutine, the transport's goroutine that reads the request *)
(* body through captureReadCloser, and the exchange record assembled from  *)
(* both when the handler returns.                                          *)
(*                                                                         *)
(* The two goroutines share captureReadCloser without a lock.  The handler *)
(* may return while a Read is in progress: an upstream may answer before   *)
(* it has read the request, and ReverseProxy then only closes the body.    *)
(* Every memory access of the two that can interleave is a step here; the  *)
(* fields of one bytes.Buffer are read and written together.               *)
(*                                                                         *)
(* An upstream may answer 101 Switching Protocols.  ReverseProxy then      *)
(* takes the connection from the server, by captureWriter.Unwrap, and      *)
(* writes the 101 and the bytes of the tunnel to it itself: captureWriter  *)
(* sees nothing of it, and the exchange is persisted all the same.         *)
(***************************************************************************)
EXTENDS BodyMeta, FiniteSetsExt

CONSTANTS Limit,    \* the body capture limit
          MaxBody,  \* bound: the longest body
          PageLen   \* length of the Bad Gateway page

ASSUME LimitAssumption == Limit \in Nat \ {0}
ASSUME SizesAssumption == MaxBody \in Nat /\ PageLen \in Nat

VARIABLES
    traffic,    \* what this exchange is about
    reader,     \* captureReadCloser, and the Read in progress on it
    closed,     \* the underlying request body is closed
    handler,    \* where the handler goroutine is
    writer,     \* captureWriter
    client,     \* what the client has been sent, and whether its connection was taken
    aborted,    \* the handler is panicking with ErrAbortHandler
    torn,       \* history: the body was closed in the middle of a Read
    row,        \* the exchange passed to Add, as far as it is assembled
    outcome     \* what became of it

vars == <<traffic, reader, closed, handler, writer, client, aborted, torn, row, outcome>>

Sizes == 0 .. MaxBody

\* length: the request body the client means to send; declared: it has a
\* Content-Length; reply: the upstream's response body; rules: JSON or form
\* redaction rules are configured.
Traffic == [length : Sizes, declared : BOOLEAN, reply : Sizes, rules : BOOLEAN]
\* "ok" is the 200 that captureWriter starts with, "upstream" what the upstream
\* answered, unless it was "switching", 101.
Statuses == {"none", "ok", "informational", "upstream", "switching", "badgateway"}
Message == [body : Body, observed : Nat, truncated : BOOLEAN, complete : BOOLEAN]

TypeOK ==
    /\ traffic \in Traffic
    /\ reader \in [at : {"unused", "idle", "got", "counted", "captured", "done"},
                   n : Sizes, err : {"none", "eof", "error"},
                   taken : Sizes, size : Sizes, len : Sizes,
                   sawEOF : BOOLEAN, readErr : BOOLEAN]
    /\ closed \in BOOLEAN
    /\ handler \in {"start", "roundtrip", "error", "errorpage", "copying", "tunnel", "return",
                    "truncated", "complete", "bytes", "size", "add", "end"}
    /\ writer \in [status : Statuses, wroteHeader : BOOLEAN,
                   size : Nat, len : Nat, writeErr : BOOLEAN, proxyError : BOOLEAN]
    /\ client \in [status : Statuses, bytes : Nat, hijacked : BOOLEAN]
    /\ aborted \in BOOLEAN
    /\ torn \in BOOLEAN
    /\ row \in [request : Message, response : Message, status : Statuses,
               proxyError : BOOLEAN]
    /\ outcome \in {"none", "stored", "lost"}

Empty == [body |-> Wire(0), observed |-> 0, truncated |-> FALSE, complete |-> FALSE]

Init ==
    /\ traffic \in Traffic
    /\ reader = [at |-> "unused", n |-> 0, err |-> "none", taken |-> 0, size |-> 0,
                 len |-> 0, sawEOF |-> FALSE, readErr |-> FALSE]
    /\ closed = FALSE
    /\ handler = "start"
    /\ writer = [status |-> "ok", wroteHeader |-> FALSE, size |-> 0, len |-> 0,
                 writeErr |-> FALSE, proxyError |-> FALSE]
    /\ client = [status |-> "none", bytes |-> 0, hijacked |-> FALSE]
    /\ aborted = FALSE
    /\ torn = FALSE
    /\ row = [request |-> Empty, response |-> Empty, status |-> "none",
              proxyError |-> FALSE]
    /\ outcome = "none"

handlerVars == <<handler, writer, client, aborted, torn, row, outcome>>

\* Mutant of Captured: the room left in the buffer is not taken into account.
CapturedAfresh(len, n) == Min({Limit, n})

\* The retained length after n more bytes are offered to a buffer of length
\* len: capture() of both the reader and the writer.
Captured(len, n) == Min({Limit, len + n})

-----------------------------------------------------------------------------
(* The transport's goroutine: captureReadCloser.Read. *)

\* r.reader.Read: some bytes, with or without the end of the body; the end
\* alone; or, the client being gone or the body closed, an error.
ReadBody ==
    /\ reader.at = "idle"
    /\ \E n \in 0 .. (traffic.length - reader.taken), err \in {"none", "eof", "error"} :
          /\ closed => n = 0 /\ err = "error"
          /\ err = "none" => n > 0
          /\ err = "eof" => reader.taken + n = traffic.length
          /\ reader' = [reader EXCEPT !.at = "got", !.n = n, !.err = err, !.taken = @ + n]
    /\ UNCHANGED <<traffic, closed, handlerVars>>

\* Mutant of CountRead: the bytes are counted here and again by capture.
CountReadTwice ==
    /\ reader.at = "got"
    /\ reader' = [reader EXCEPT !.at = "counted", !.size = @ + 2 * reader.n]
    /\ UNCHANGED <<traffic, closed, handlerVars>>

\* r.size += int64(n)
CountRead ==
    /\ reader.at = "got"
    /\ reader' = [reader EXCEPT !.at = "counted", !.size = @ + reader.n]
    /\ UNCHANGED <<traffic, closed, handlerVars>>

\* r.capture(data[:n])
CaptureRead ==
    /\ reader.at = "counted"
    /\ reader' = [reader EXCEPT !.at = "captured", !.len = Captured(@, reader.n)]
    /\ UNCHANGED <<traffic, closed, handlerVars>>

\* The switch on err; after an error or the end the transport reads no more.
EndRead ==
    /\ reader.at = "captured"
    /\ reader' = [reader EXCEPT !.at = IF reader.err = "none" THEN "idle" ELSE "done",
                                !.sawEOF = @ \/ reader.err = "eof",
                                !.readErr = @ \/ reader.err = "error"]
    /\ UNCHANGED <<traffic, closed, handlerVars>>

ReaderStep == ReadBody \/ CountRead \/ CaptureRead \/ EndRead

-----------------------------------------------------------------------------
(* The handler goroutine: ReverseProxy.ServeHTTP over captureWriter. *)

\* A body of declared length zero is not passed on, so nothing reads it.
HasBody == ~(traffic.declared /\ traffic.length = 0)

\* captureTransport.RoundTrip, or a request ReverseProxy rejects before it.
RoundTrip ==
    /\ handler = "start"
    /\ \/ /\ handler' = "roundtrip"
          /\ reader' = [reader EXCEPT !.at = IF HasBody THEN "idle" ELSE @]
       \/ handler' = "error" /\ UNCHANGED reader
    /\ UNCHANGED <<traffic, closed, writer, client, aborted, torn, row, outcome>>

\* Mutant of WriteHeader: the first status counts, informational or not.
WriteHeaderFirst(status) ==
    /\ client' = [client EXCEPT !.status = status]
    /\ writer' = IF writer.wroteHeader THEN writer
                 ELSE [writer EXCEPT !.status = status, !.wroteHeader = TRUE]

\* captureWriter.WriteHeader: only the first final status is passed on.
WriteHeader(status) ==
    IF writer.wroteHeader
    THEN UNCHANGED <<writer, client>>
    ELSE IF status = "informational"
    THEN client' = [client EXCEPT !.status = status] /\ UNCHANGED writer
    ELSE /\ client' = [client EXCEPT !.status = status]
         /\ writer' = [writer EXCEPT !.status = status, !.wroteHeader = TRUE]

\* captureWriter.Write after WriteHeader: n bytes, of which the client takes m.
Write(n, m) ==
    /\ writer' = [writer EXCEPT !.size = @ + n,
                                !.len = Captured(@, n),
                                !.writeErr = @ \/ m < n]
    /\ client' = [client EXCEPT !.bytes = @ + m]

ForwardInformational ==
    /\ handler = "roundtrip"
    /\ WriteHeader("informational")
    /\ UNCHANGED <<traffic, reader, closed, handler, aborted, torn, row, outcome>>

\* The transport fails: before, during or after sending the request.  Or the
\* upstream switches to a protocol that was not asked for, or the server does not
\* give the connection away.
TransportFails ==
    /\ handler = "roundtrip"
    /\ handler' = "error"
    /\ UNCHANGED <<traffic, reader, closed, writer, client, aborted, torn, row, outcome>>

\* The reverse proxy's ErrorHandler.  A server whose connection was taken sends
\* nothing more, and takes no byte of the page.
ErrorHandler ==
    /\ handler = "error"
    /\ client' = [client EXCEPT !.status = IF client.hijacked THEN @ ELSE "badgateway"]
    /\ writer' = [writer EXCEPT !.proxyError = TRUE, !.status = "badgateway",
                                !.wroteHeader = TRUE]
    /\ handler' = "errorpage"
    /\ UNCHANGED <<traffic, reader, closed, aborted, torn, row, outcome>>

ErrorPage ==
    /\ handler = "errorpage"
    /\ \E m \in {0, PageLen} : (client.hijacked => m = 0) /\ Write(PageLen, m)
    /\ handler' = "return"
    /\ UNCHANGED <<traffic, reader, closed, aborted, torn, row, outcome>>

\* The upstream may answer at any time, its request body read or not.
ResponseArrives ==
    /\ handler = "roundtrip"
    /\ WriteHeader("upstream")
    /\ handler' = "copying"
    /\ UNCHANGED <<traffic, reader, closed, aborted, torn, row, outcome>>

CopyResponse ==
    /\ handler = "copying"
    /\ \E n \in 1 .. (traffic.reply - writer.size) : Write(n, n)
    /\ UNCHANGED <<traffic, reader, closed, handler, aborted, torn, row, outcome>>

\* The client is gone: ReverseProxy panics with ErrAbortHandler.
ClientGone ==
    /\ handler = "copying"
    /\ \E n \in 1 .. (traffic.reply - writer.size) : \E m \in 0 .. n - 1 : Write(n, m)
    /\ aborted' = TRUE
    /\ handler' = "return"
    /\ UNCHANGED <<traffic, reader, closed, torn, row, outcome>>

\* The upstream breaks off, or its end is not a clean one: it panics, too.
UpstreamBreaks ==
    /\ handler = "copying"
    /\ aborted' = TRUE
    /\ handler' = "return"
    /\ UNCHANGED <<traffic, reader, closed, writer, client, torn, row, outcome>>

CopyEnds ==
    /\ handler = "copying"
    /\ writer.size = traffic.reply
    /\ handler' = "return"
    /\ UNCHANGED <<traffic, reader, closed, writer, client, aborted, torn, row, outcome>>

\* Unwrap: the upstream answers 101, ReverseProxy takes the client's connection and
\* writes the 101 to it, or fails to, when the client may have it or not.
SwitchProtocols ==
    /\ handler = "roundtrip"
    /\ \/ /\ client' = [client EXCEPT !.hijacked = TRUE, !.status = "switching"]
          /\ handler' = "tunnel"
       \/ /\ \E status \in {client.status, "switching"} :
                client' = [client EXCEPT !.hijacked = TRUE, !.status = status]
          /\ handler' = "error"
    /\ UNCHANGED <<traffic, reader, closed, writer, aborted, torn, row, outcome>>

\* Bytes of the upstream go through the tunnel, past the writer.
Tunnel ==
    /\ handler = "tunnel"
    /\ \E n \in 1 .. (traffic.reply - client.bytes) :
          client' = [client EXCEPT !.bytes = @ + n]
    /\ UNCHANGED <<traffic, reader, closed, handler, writer, aborted, torn, row, outcome>>

\* Either side ends the tunnel, or it breaks: ReverseProxy returns alike.
TunnelEnds ==
    /\ handler = "tunnel"
    /\ handler' = "return"
    /\ UNCHANGED <<traffic, reader, closed, writer, client, aborted, torn, row, outcome>>

-----------------------------------------------------------------------------
(* The deferred calls: ReverseProxy's outreq.Body.Close, then ServeHTTP's own. *)

\* Mutant of ResponseComplete: a panic of ReverseProxy is not looked at.
ResponseWritten == ~writer.writeErr

\* The response was copied to its end and the client took all of it.
ResponseComplete == ~aborted /\ ~writer.writeErr

\* The underlying body's lock orders the close with its Read, not with what
\* captureReadCloser does after it.  The response side is then settled.
CloseBody ==
    /\ handler = "return"
    /\ closed' = TRUE
    /\ torn' = (reader.at \in {"got", "counted"})
    /\ writer' = [writer EXCEPT !.proxyError = @ \/ ~ResponseComplete]
    /\ row' = [row EXCEPT !.proxyError = writer'.proxyError,
                          !.status = writer.status,
                          !.response.truncated = writer.size > writer.len,
                          !.response.complete = ResponseComplete]
    /\ handler' = "truncated"
    /\ UNCHANGED <<traffic, reader, client, aborted, outcome>>

\* persistExchange looks at the reader four times, in the order gc evaluates
\* the operands: truncated(), complete(), bytes(), size.
ReadTruncated ==
    /\ handler = "truncated"
    /\ row' = [row EXCEPT !.request.truncated = reader.size > reader.len]
    /\ handler' = "complete"
    /\ UNCHANGED <<traffic, reader, closed, writer, client, aborted, torn, outcome>>

\* Mutant of Complete: the end of the body need not have been seen.
CompleteUnlessError == ~reader.readErr

\* captureReadCloser.complete.
Complete ==
    /\ ~reader.readErr
    /\ IF traffic.declared THEN reader.size >= traffic.length ELSE reader.sawEOF

ReadComplete ==
    /\ handler = "complete"
    /\ row' = [row EXCEPT !.request.complete = Complete]
    /\ handler' = "bytes"
    /\ UNCHANGED <<traffic, reader, closed, writer, client, aborted, torn, outcome>>

ReadBytes ==
    /\ handler = "bytes"
    /\ row' = [row EXCEPT !.request.body = Wire(reader.len)]
    /\ handler' = "size"
    /\ UNCHANGED <<traffic, reader, closed, writer, client, aborted, torn, outcome>>

\* A message with its body, sizes and completeness as CaptureBody leaves them.
Sanitize(message, body, observed) ==
    { LET c == CaptureBody(body, observed, message.truncated, message.complete,
                           traffic.rules, s)
      IN  [message EXCEPT !.body = c.body, !.observed = c.observed, !.complete = c.complete] :
      s \in Sanitized(body, traffic.rules, message.complete /\ ~message.truncated) }

ReadSize ==
    /\ handler = "size"
    /\ \E request \in Sanitize(row.request, row.request.body, reader.size),
          response \in Sanitize(row.response, Wire(writer.len), writer.size) :
             row' = [row EXCEPT !.request = request, !.response = response]
    /\ handler' = "add"
    /\ UNCHANGED <<traffic, reader, closed, writer, client, aborted, torn, outcome>>

Valid(message) == ValidBodyMetadata(message.body, message.observed, message.truncated)

\* Store.Add as far as it depends on the exchange: it refuses impossible sizes.
Add ==
    /\ handler = "add"
    /\ outcome' = IF Valid(row.request) /\ Valid(row.response) THEN "stored" ELSE "lost"
    /\ handler' = "end"
    /\ UNCHANGED <<traffic, reader, closed, writer, client, aborted, torn, row>>

HandlerStep ==
    \/ RoundTrip \/ ForwardInformational \/ TransportFails \/ ErrorHandler \/ ErrorPage
    \/ ResponseArrives \/ CopyResponse \/ ClientGone \/ UpstreamBreaks \/ CopyEnds
    \/ SwitchProtocols \/ Tunnel \/ TunnelEnds
    \/ CloseBody \/ ReadTruncated \/ ReadComplete \/ ReadBytes \/ ReadSize \/ Add

Next == ReaderStep \/ HandlerStep

Spec == Init /\ [][Next]_vars

-----------------------------------------------------------------------------
(* Safety. *)

\* What replay may send again is all of what the client sent: a stored request
\* that is complete and not truncated stands for the whole body, even when the
\* record was assembled in the middle of a Read.
ReplayableIsWhole ==
    outcome = "stored" /\ row.request.complete /\ ~row.request.truncated =>
        row.request.body.of = traffic.length /\ row.request.body # Marker

\* An exchange is refused for its sizes only when its request body was still
\* being read as the handler returned.
RefusedOnlyWhenTorn == outcome = "lost" => torn

\* A row without a proxy error is an exchange whose client got the upstream's
\* whole answer, or else its 101; how a tunnel went on the row does not tell.
NoErrorMeansDelivered ==
    outcome = "stored" /\ ~row.proxyError =>
        IF client.hijacked THEN client.status = "switching"
        ELSE client.bytes = traffic.reply /\ client.status = "upstream"

\* An incomplete response says why: a proxy error, or its body was withheld.
IncompleteIsExplained ==
    outcome = "stored" /\ ~row.response.complete =>
        row.proxyError \/ row.response.body = Marker

\* The status in the row is the final one the client was sent, whatever
\* informational responses came first and however the exchange failed, unless its
\* connection was taken for a 101.  Then the row never has the 101: without a proxy
\* error it has the 200 that the writer started with, and with one the 502 of a page
\* that reached nobody.
StatusIsFinal ==
    outcome = "stored" =>
        row.status = IF ~client.hijacked THEN client.status
                     ELSE IF row.proxyError THEN "badgateway" ELSE "ok"

\* Sizes add up: outside a Read the reader keeps exactly the prefix within the
\* limit of what it counted, and it counted all that it took; a response that was
\* not redacted has no less in its row than the client got, and keeps all of it
\* up to the limit.  A tunnel's row is the exception: its response is empty, however
\* much the client got.
SizesAccountForBodies ==
    /\ reader.at \in {"idle", "captured", "done"} =>
          reader.size = reader.taken /\ reader.len = Min({Limit, reader.size})
    /\ outcome = "stored" /\ row.response.body.kind = "wire" =>
          /\ IF client.hijacked /\ ~row.proxyError THEN row.response.observed = 0
             ELSE client.bytes <= row.response.observed
          /\ row.response.body.len = Min({Limit, row.response.observed})

-----------------------------------------------------------------------------
(* What makes these inductive. *)

Assembling == handler \in {"truncated", "complete", "bytes", "size"}
Assembled  == handler \in {"add", "end"}

\* What the Read in progress took and has not counted, or not captured, yet.
Uncounted  == IF reader.at = "got" THEN reader.n ELSE 0
Uncaptured == IF reader.at \in {"got", "counted"} THEN reader.n ELSE 0

\* The reader lags behind what it took by the Read in progress, and once the body
\* is closed only a Read that was already in progress makes it lag.
ReaderInv ==
    /\ Uncaptured <= reader.taken /\ reader.taken <= traffic.length
    /\ reader.size = reader.taken - Uncounted
    /\ reader.len = Min({Limit, reader.taken - Uncaptured})
    /\ reader.at \in {"got", "counted", "captured"} /\ reader.err = "eof" =>
          reader.taken = traffic.length
    /\ reader.sawEOF => reader.at = "done" /\ reader.taken = traffic.length
    /\ handler = "start" => reader.at = "unused"
    /\ closed <=> Assembling \/ Assembled
    /\ closed /\ ~torn => Uncaptured = 0

\* Nothing but the default has been written to the writer.
Unwritten == /\ ~writer.wroteHeader /\ writer.status = "ok" /\ writer.size = 0
             /\ ~writer.writeErr /\ ~writer.proxyError /\ ~aborted

\* The client got the upstream's whole answer.
Delivered == client.bytes = traffic.reply /\ client.status = "upstream" /\ ~client.hijacked

\* The client got a 101 and the writer nothing.
Switched == client.hijacked /\ client.status = "switching" /\ writer.size = 0

\* The status that a writer has at its return.
StatusLeft(proxyError) == IF ~client.hijacked THEN client.status
                          ELSE IF proxyError THEN "badgateway" ELSE "ok"

\* The writer has counted what it was given, and the client has all of that
\* unless a write failed or the connection was taken; how the handler came to its
\* return is still known.
WriterInv ==
    /\ writer.len = Min({Limit, writer.size})
    /\ ~client.hijacked => client.bytes <= writer.size
    /\ ~client.hijacked /\ ~writer.writeErr => client.bytes = writer.size
    /\ handler \in {"start", "roundtrip"} => Unwritten /\ ~client.hijacked
    /\ handler = "error" => Unwritten /\ client.bytes = 0
    /\ handler = "errorpage" =>
          writer.proxyError /\ writer.status = StatusLeft(TRUE) /\ client.bytes = 0
    /\ handler = "copying" =>
          /\ writer.size <= traffic.reply /\ ~client.hijacked
          /\ ~writer.writeErr /\ ~writer.proxyError /\ ~aborted
          /\ writer.status = "upstream" /\ client.status = "upstream"
    /\ handler = "tunnel" => Unwritten /\ Switched
    /\ handler = "return" =>
          /\ writer.status = StatusLeft(writer.proxyError)
          /\ client.hijacked => IF writer.proxyError THEN client.bytes = 0
                                ELSE Unwritten
          /\ writer.proxyError \/ ~ResponseComplete
                \/ (writer.size = traffic.reply /\ client.status = "upstream"
                        /\ ~client.hijacked)
                \/ Switched

\* What the looks at the reader have seen is still so, as far as it matters.
AssemblingInv ==
    Assembling =>
        /\ row.response.truncated = (writer.size > writer.len)
        /\ ~row.response.complete => row.proxyError
        /\ handler # "truncated" /\ ~torn => row.request.truncated = (reader.size > reader.len)
        /\ handler \in {"bytes", "size"} /\ row.request.complete => reader.size = traffic.length
        /\ handler = "size" =>
              /\ row.request.body = Wire(row.request.body.len)
              /\ row.request.body.len <= reader.len
              /\ ~torn => row.request.body.len = reader.len

\* What the row says, if its sizes are accepted.
RowInv ==
    /\ Assembling \/ Assembled =>
          /\ row.status = StatusLeft(row.proxyError)
          /\ row.proxyError \/ Delivered \/ Switched
          /\ client.hijacked /\ row.proxyError => client.bytes = 0
    /\ Assembled =>
          /\ Valid(row.response) /\ (~torn => Valid(row.request))
          /\ Valid(row.request) /\ row.request.complete /\ ~row.request.truncated =>
                row.request.body.of = traffic.length /\ row.request.body.kind # "marker"
          /\ ~row.response.complete => row.proxyError \/ row.response.body = Marker
          /\ row.response.body.kind = "wire" =>
                row.response.observed = writer.size /\ row.response.body.len = writer.len
    /\ outcome = IF handler # "end" THEN "none"
                 ELSE IF Valid(row.request) /\ Valid(row.response) THEN "stored" ELSE "lost"

IInv == TypeOK /\ ReaderInv /\ WriterInv /\ AssemblingInv /\ RowInv
=============================================================================
