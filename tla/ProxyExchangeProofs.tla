------------------------ MODULE ProxyExchangeProofs ------------------------
(***************************************************************************)
(* Theorems about ProxyExchange, for every capture limit, every length of  *)
(* the bodies and every rewriting of them.                                 *)
(***************************************************************************)
EXTENDS ProxyExchange, OrderLemmas, TLAPS

-----------------------------------------------------------------------------
(* Sizes under redaction (BodyMeta). *)

\* Every result of Rules.Body is a body.
LEMMA SanitizedType ==
    ASSUME NEW b \in Body, NEW rules \in BOOLEAN, NEW complete \in BOOLEAN,
           NEW s \in Sanitized(b, rules, complete)
    PROVE  s \in Body
  BY MarkerAssumption, RewriteAssumption
     DEF Sanitized, Body, BodyKinds, Marker, Rewritten

\* Sizes that satisfy the CHECK constraints of schema 1 still do after redaction,
\* whatever became of the body: Add never refuses an exchange because its body
\* was redacted (internal/sanitize/fields.go, internal/storage/repository.go).
THEOREM RedactionKeepsSizesValid ==
    ASSUME NEW b \in Body, NEW observed \in Nat, NEW truncated \in BOOLEAN,
           NEW complete \in BOOLEAN, NEW rules \in BOOLEAN,
           NEW s \in Sanitized(b, rules, complete),
           ValidBodyMetadata(b, observed, truncated)
    PROVE  LET c == CaptureBody(b, observed, truncated, complete, rules, s)
           IN  c.observed \in Nat /\ ValidBodyMetadata(c.body, c.observed, truncated)
<1>1. s \in Body
  BY SanitizedType
<1>2. s.len \in Nat /\ b.len \in Nat
  BY <1>1 DEF Body
<1>3. CASE s = b
  BY <1>2, <1>3 DEF CaptureBody, ValidBodyMetadata
<1>4. CASE s # b
  <2> DEFINE omitted == Omitted(b, observed, truncated)
  <2>1. omitted \in Nat /\ (truncated <=> omitted > 0)
    BY <1>2 DEF Omitted, ValidBodyMetadata
  <2> HIDE DEF omitted
  <2>2. CaptureBody(b, observed, truncated, complete, rules, s).observed = s.len + omitted
    BY <1>4 DEF CaptureBody, omitted
  <2>3. CaptureBody(b, observed, truncated, complete, rules, s).body = s
    BY DEF CaptureBody
  <2> QED
    BY <1>2, <2>1, <2>2, <2>3 DEF ValidBodyMetadata
<1> QED
  BY <1>3, <1>4

\* A body stays complete only if nothing was withheld from it: replay and diff
\* never take the marker, put in its place by a rule, for the body itself.
THEOREM WithheldIsIncomplete ==
    ASSUME NEW b \in Body, NEW observed \in Nat, NEW truncated \in BOOLEAN,
           NEW complete \in BOOLEAN, NEW rules \in BOOLEAN,
           NEW s \in Sanitized(b, rules, complete),
           CaptureBody(b, observed, truncated, complete, rules, s).complete
    PROVE  complete /\ (s # b => s.kind = "rewritten" /\ s.of = b.of)
<1>1. complete /\ ~(s = Marker /\ rules /\ b.len > 0)
  BY DEF CaptureBody
<1>2. ASSUME s # b PROVE s.kind = "rewritten" /\ s.of = b.of
  <2>1. rules /\ b.len # 0 /\ s \in {b, Marker} \cup {Rewritten(b, n) : n \in RewriteLens}
    BY <1>1, <1>2 DEF Sanitized
  <2>2. b.len > 0
    BY <2>1 DEF Body
  <2>3. PICK n \in RewriteLens : s = Rewritten(b, n)
    BY <1>1, <1>2, <2>1, <2>2
  <2> QED
    BY <2>3 DEF Rewritten
<1> QED
  BY <1>1, <1>2

-----------------------------------------------------------------------------
(* Buffers. *)

\* A buffer holds the prefix of what it was offered that the limit allows.
LEMMA KeptWithinLimit ==
    ASSUME NEW n \in Nat
    PROVE  /\ Min({Limit, n}) \in Nat
           /\ Min({Limit, n}) <= n
           /\ n <= Limit => Min({Limit, n}) = n
           /\ n > Limit => Min({Limit, n}) = Limit
  BY MinOfTwo, LimitAssumption

\* A buffer that holds the allowed prefix of m bytes holds that of m + n bytes
\* once it is offered n more: capture, called with one piece after another, does
\* what one call with all of them would do.
LEMMA CapturedInPieces ==
    ASSUME NEW m \in Nat, NEW n \in Nat
    PROVE  Captured(Min({Limit, m}), n) = Min({Limit, m + n})
<1>1. Min({Limit, m}) + n \in Nat /\ m + n \in Nat
  BY KeptWithinLimit
<1>2. Captured(Min({Limit, m}), n) = Min({Limit, Min({Limit, m}) + n})
  BY DEF Captured
<1>3. CASE m <= Limit
  BY <1>2, <1>3, KeptWithinLimit
<1>4. CASE m > Limit
  <2>1. Min({Limit, m}) = Limit
    BY <1>4, KeptWithinLimit
  <2>2. Min({Limit, Limit + n}) = Limit
    BY LimitAssumption, MinOfTwo
  <2>3. Min({Limit, m + n}) = Limit
    BY <1>4, LimitAssumption, MinOfTwo
  <2> QED
    BY <1>2, <2>1, <2>2, <2>3
<1> QED
  BY <1>3, <1>4, LimitAssumption

-----------------------------------------------------------------------------
(* Redaction of a message of the row. *)

\* Redaction leaves the truncation flag, never makes a message complete, and says
\* so when it withholds a body; sizes that were possible still are.
LEMMA SanitizedMessageFacts ==
    ASSUME NEW message \in Message, NEW body \in Body, NEW observed \in Nat,
           NEW m \in Sanitize(message, body, observed),
           traffic.rules \in BOOLEAN
    PROVE  /\ m \in Message /\ m.truncated = message.truncated
           /\ ValidBodyMetadata(body, observed, message.truncated) => Valid(m)
           /\ m.complete => /\ message.complete
                            /\ m.body = body \/ (m.body.kind = "rewritten" /\ m.body.of = body.of)
           /\ ~m.complete => ~message.complete \/ m.body = Marker
           /\ body.kind = "wire" /\ m.body.kind = "wire" => m.body = body /\ m.observed = observed
           /\ Valid(m) /\ ~message.truncated => observed <= body.len
<1> DEFINE whole == message.complete /\ ~message.truncated
           Result(s) == CaptureBody(body, observed, message.truncated, message.complete,
                                    traffic.rules, s)
<1>0. message.truncated \in BOOLEAN /\ message.complete \in BOOLEAN /\ whole \in BOOLEAN
      /\ body.len \in Nat
  BY DEF Message, Body
<1>1. PICK s \in Sanitized(body, traffic.rules, whole) :
              m = [message EXCEPT !.body = Result(s).body, !.observed = Result(s).observed,
                                  !.complete = Result(s).complete]
  BY DEF Sanitize
<1>2. /\ m = [body |-> Result(s).body, observed |-> Result(s).observed,
              truncated |-> message.truncated, complete |-> Result(s).complete]
  BY <1>1 DEF Message
<1>3. s \in Body /\ s.len \in Nat
  <2>1. s \in Body
    BY <1>0, SanitizedType
  <2> QED
    BY <2>1 DEF Body
<1>4. /\ m.body = s /\ m.truncated = message.truncated
      /\ m.observed = IF s = body THEN observed
                      ELSE s.len + Omitted(body, observed, message.truncated)
      /\ m.complete <=> message.complete /\ ~(s = Marker /\ traffic.rules /\ body.len > 0)
  BY <1>2 DEF CaptureBody
<1>5. /\ Omitted(body, observed, message.truncated) \in Nat
      /\ Omitted(body, observed, message.truncated) = 0 => observed <= body.len
      /\ body.len <= observed /\ (message.truncated <=> body.len < observed) =>
            (message.truncated <=> Omitted(body, observed, message.truncated) > 0)
  BY <1>0 DEF Omitted
<1>6. m.observed \in Nat /\ m.complete \in BOOLEAN
  BY <1>0, <1>2, <1>3, <1>4, <1>5 DEF CaptureBody
<1>7. m \in Message
  BY <1>0, <1>2, <1>3, <1>4, <1>6 DEF Message
<1>8. ValidBodyMetadata(body, observed, message.truncated) => Valid(m)
  BY <1>0, <1>3, <1>4, <1>5 DEF Valid, ValidBodyMetadata
<1>9. s = body \/ s = Marker \/ (s.kind = "rewritten" /\ s.of = body.of)
  BY DEF Sanitized, Rewritten
<1>10. m.complete => m.body = body \/ (m.body.kind = "rewritten" /\ m.body.of = body.of)
  <2> SUFFICES ASSUME m.complete, s # body
               PROVE  s.kind = "rewritten" /\ s.of = body.of
    BY <1>4
  <2>1. traffic.rules /\ body.len > 0
    BY <1>0 DEF Sanitized
  <2> QED
    BY <1>4, <1>9, <2>1
<1>11. body.kind = "wire" /\ m.body.kind = "wire" => m.body = body /\ m.observed = observed
  BY <1>4, <1>9 DEF Marker
<1>12. Valid(m) /\ ~message.truncated => observed <= body.len
  BY <1>0, <1>3, <1>4, <1>5 DEF Valid, ValidBodyMetadata
<1> QED
  BY <1>4, <1>7, <1>8, <1>10, <1>11, <1>12

-----------------------------------------------------------------------------
(* Type correctness. *)

\* What a buffer keeps of a body is a size of a body.
LEMMA CapturedType ==
    ASSUME NEW m \in Nat, NEW n \in Nat
    PROVE  Captured(m, n) \in Nat /\ Captured(m, n) <= m + n
  BY KeptWithinLimit DEF Captured

\* The initial state has the types.
LEMMA TypeInit == Init => TypeOK
<1> SUFFICES ASSUME Init PROVE TypeOK
  OBVIOUS
<1>1. 0 \in Sizes
  BY SizesAssumption DEF Sizes
<1>2. Empty \in Message
  BY DEF Empty, Message, Wire, Body, BodyKinds
<1> QED
  BY <1>1, <1>2 DEF Init, TypeOK, Statuses

\* No step of the transport's goroutine makes the reader take, count or keep more
\* than the longest body, given what it is behind by.
LEMMA TypeReaderStep == TypeOK /\ ReaderInv /\ ReaderStep => TypeOK'
<1> SUFFICES ASSUME TypeOK, ReaderInv, ReaderStep PROVE TypeOK'
  OBVIOUS
<1> DEFINE Readers == [at : {"unused", "idle", "got", "counted", "captured", "done"},
                       n : Sizes, err : {"none", "eof", "error"},
                       taken : Sizes, size : Sizes, len : Sizes,
                       sawEOF : BOOLEAN, readErr : BOOLEAN]
<1>1. reader \in Readers /\ traffic.length \in Sizes /\ MaxBody \in Nat
  BY SizesAssumption DEF TypeOK, Traffic
<1>2. /\ reader.n \in Nat /\ reader.taken \in Nat /\ reader.size \in Nat /\ reader.len \in Nat
      /\ reader.n <= MaxBody /\ reader.taken <= MaxBody /\ reader.size <= MaxBody
      /\ reader.len <= MaxBody /\ traffic.length \in Nat /\ traffic.length <= MaxBody
  BY <1>1 DEF Sizes
<1>3. UNCHANGED <<traffic, closed, handler, writer, client, aborted, torn, row, outcome>>
  BY DEF ReaderStep, ReadBody, CountRead, CaptureRead, EndRead, handlerVars
<1>4. SUFFICES reader' \in Readers
  BY <1>3 DEF TypeOK
<1>5. CASE ReadBody
  <2>1. PICK n \in 0 .. (traffic.length - reader.taken), err \in {"none", "eof", "error"} :
              reader' = [reader EXCEPT !.at = "got", !.n = n, !.err = err, !.taken = @ + n]
    BY <1>5 DEF ReadBody
  <2>2. n \in Sizes /\ reader.taken + n \in Sizes
    BY <1>1, <1>2 DEF Sizes
  <2> QED
    BY <1>1, <2>1, <2>2
<1>6. CASE CountRead
  <2>1. reader.at = "got" /\ reader' = [reader EXCEPT !.at = "counted", !.size = @ + reader.n]
    BY <1>6 DEF CountRead
  <2>2. reader.size + reader.n = reader.taken
    BY <1>2, <2>1 DEF ReaderInv, Uncounted
  <2> QED
    BY <1>1, <2>1, <2>2
<1>7. CASE CaptureRead
  <2>1. /\ reader.at = "counted"
        /\ reader' = [reader EXCEPT !.at = "captured", !.len = Captured(@, reader.n)]
    BY <1>7 DEF CaptureRead
  <2>2. /\ reader.len = Min({Limit, reader.taken - reader.n}) /\ reader.n <= reader.taken
    BY <2>1 DEF ReaderInv, Uncaptured
  <2>3. Captured(reader.len, reader.n) \in Nat /\ Captured(reader.len, reader.n) <= reader.taken
    <3>1. reader.taken - reader.n \in Nat /\ (reader.taken - reader.n) + reader.n = reader.taken
      BY <1>2, <2>2
    <3>2. Captured(reader.len, reader.n) = Min({Limit, reader.taken})
      BY <1>2, <2>2, <3>1, CapturedInPieces
    <3> QED
      BY <1>2, <3>2, KeptWithinLimit
  <2>4. Captured(reader.len, reader.n) \in Sizes
    BY <1>2, <1>1, <2>3 DEF Sizes
  <2> QED
    BY <1>1, <2>1, <2>4
<1>8. CASE EndRead
  BY <1>1, <1>8 DEF EndRead
<1> QED
  BY <1>5, <1>6, <1>7, <1>8 DEF ReaderStep

\* What Write leaves in the writer and the client has the types.
LEMMA TypeWrite ==
    ASSUME TypeOK, NEW n \in Nat, NEW m \in Nat, Write(n, m)
    PROVE  /\ writer' \in [status : Statuses, wroteHeader : BOOLEAN,
                           size : Nat, len : Nat, writeErr : BOOLEAN, proxyError : BOOLEAN]
           /\ client' \in [status : Statuses, bytes : Nat, hijacked : BOOLEAN]
<1>1. /\ writer \in [status : Statuses, wroteHeader : BOOLEAN,
                     size : Nat, len : Nat, writeErr : BOOLEAN, proxyError : BOOLEAN]
      /\ client \in [status : Statuses, bytes : Nat, hijacked : BOOLEAN]
  BY DEF TypeOK
<1>2. Captured(writer.len, n) \in Nat
  BY <1>1, CapturedType
<1>3. writer.size + n \in Nat /\ client.bytes + m \in Nat
  BY <1>1
<1> QED
  BY <1>1, <1>2, <1>3 DEF Write

\* The steps of the handler's goroutine keep the types.
LEMMA TypeHandlerStep == TypeOK /\ HandlerStep => TypeOK'
<1> SUFFICES ASSUME TypeOK, HandlerStep PROVE TypeOK'
  OBVIOUS
<1> DEFINE Writers == [status : Statuses, wroteHeader : BOOLEAN,
                       size : Nat, len : Nat, writeErr : BOOLEAN, proxyError : BOOLEAN]
           Clients == [status : Statuses, bytes : Nat, hijacked : BOOLEAN]
           Rows    == [request : Message, response : Message, status : Statuses,
                       proxyError : BOOLEAN]
<1>0. /\ writer \in Writers /\ client \in Clients /\ row \in Rows
      /\ traffic \in Traffic /\ PageLen \in Nat
      /\ reader.len \in Nat /\ reader.size \in Nat /\ traffic.reply \in Nat
      /\ traffic.rules \in BOOLEAN /\ traffic.length \in Nat
  BY SizesAssumption DEF TypeOK, Traffic, Sizes
<1>1. CASE RoundTrip
  BY <1>1 DEF RoundTrip, TypeOK
<1>2. CASE ForwardInformational
  BY <1>2 DEF ForwardInformational, WriteHeader, TypeOK, Statuses
<1>3. CASE TransportFails
  BY <1>3 DEF TransportFails, TypeOK
<1>4. CASE ErrorHandler
  <2>1. writer' \in Writers /\ client' \in Clients
    BY <1>0, <1>4 DEF ErrorHandler, Statuses
  <2> QED
    BY <1>4, <2>1 DEF ErrorHandler, TypeOK
<1>5. CASE ErrorPage
  <2>1. writer' \in Writers /\ client' \in Clients
    BY <1>0, <1>5, TypeWrite DEF ErrorPage
  <2> QED
    BY <1>5, <2>1 DEF ErrorPage, TypeOK
<1>6. CASE ResponseArrives
  <2>1. writer' \in Writers /\ client' \in Clients
    BY <1>0, <1>6 DEF ResponseArrives, WriteHeader, Statuses
  <2> QED
    BY <1>6, <2>1 DEF ResponseArrives, TypeOK
<1>7. CASE CopyResponse
  <2>1. PICK n \in 1 .. (traffic.reply - writer.size) : Write(n, n)
    BY <1>7 DEF CopyResponse
  <2>2. writer' \in Writers /\ client' \in Clients
    BY <1>0, <2>1, TypeWrite
  <2> QED
    BY <1>7, <2>2 DEF CopyResponse, TypeOK
<1>8. CASE ClientGone
  <2>1. PICK n \in 1 .. (traffic.reply - writer.size) : \E m \in 0 .. n - 1 : Write(n, m)
    BY <1>8 DEF ClientGone
  <2>2. writer' \in Writers /\ client' \in Clients
    BY <1>0, <2>1, TypeWrite
  <2> QED
    BY <1>8, <2>2 DEF ClientGone, TypeOK
<1>9. CASE UpstreamBreaks
  BY <1>9 DEF UpstreamBreaks, TypeOK
<1>10. CASE CopyEnds
  BY <1>10 DEF CopyEnds, TypeOK
<1>11. CASE CloseBody
  <2>1. writer' \in Writers
    BY <1>0, <1>11 DEF CloseBody
  <2>2. /\ row.response \in Message
        /\ writer'.proxyError \in BOOLEAN /\ (writer.size > writer.len) \in BOOLEAN
        /\ ResponseComplete \in BOOLEAN /\ writer.status \in Statuses
    BY <1>0, <2>1 DEF ResponseComplete
  <2>3. row' = [row EXCEPT !.proxyError = writer'.proxyError,
                           !.status = writer.status,
                           !.response = [row.response EXCEPT
                                            !.truncated = writer.size > writer.len,
                                            !.complete = ResponseComplete]]
    BY <1>0, <1>11 DEF CloseBody, Message
  <2>4. [row.response EXCEPT !.truncated = writer.size > writer.len,
                             !.complete = ResponseComplete] \in Message
    BY <2>2 DEF Message
  <2>5. row' \in Rows
    BY <1>0, <2>2, <2>3, <2>4
  <2> QED
    BY <1>11, <2>1, <2>5 DEF CloseBody, TypeOK
<1>12. CASE ReadTruncated
  <2>0. (reader.size > reader.len) \in BOOLEAN /\ row.request \in Message
    BY <1>0
  <2>1. [row.request EXCEPT !.truncated = reader.size > reader.len] \in Message
    BY <2>0 DEF Message
  <2>2. row' \in Rows
    BY <1>0, <1>12, <2>1 DEF ReadTruncated
  <2> QED
    BY <1>12, <2>2 DEF ReadTruncated, TypeOK
<1>13. CASE ReadComplete
  <2>1. row' \in Rows
    BY <1>0, <1>13 DEF ReadComplete, Message, Complete
  <2> QED
    BY <1>13, <2>1 DEF ReadComplete, TypeOK
<1>14. CASE ReadBytes
  <2>1. Wire(reader.len) \in Body
    BY <1>0 DEF Wire, Body, BodyKinds
  <2>2. row' \in Rows
    BY <1>0, <1>14, <2>1 DEF ReadBytes, Message
  <2> QED
    BY <1>14, <2>2 DEF ReadBytes, TypeOK
<1>15. CASE ReadSize
  <2>1. PICK request \in Sanitize(row.request, row.request.body, reader.size),
             response \in Sanitize(row.response, Wire(writer.len), writer.size) :
             row' = [row EXCEPT !.request = request, !.response = response]
    BY <1>15 DEF ReadSize
  <2>2. /\ row.request \in Message /\ row.response \in Message
        /\ row.request.body \in Body /\ Wire(writer.len) \in Body /\ writer.size \in Nat
    BY <1>0 DEF Message, Wire, Body, BodyKinds
  <2>3. request \in Message /\ response \in Message
    BY <1>0, <2>2, SanitizedMessageFacts
  <2>4. row' \in Rows
    BY <1>0, <2>1, <2>3
  <2> QED
    BY <1>15, <2>4 DEF ReadSize, TypeOK
<1>16. CASE Add
  BY <1>16 DEF Add, TypeOK
<1>17. CASE SwitchProtocols
  <2>1. client' \in Clients
    BY <1>0, <1>17 DEF SwitchProtocols, Statuses
  <2> QED
    BY <1>17, <2>1 DEF SwitchProtocols, TypeOK
<1>18. CASE Tunnel
  <2>1. client' \in Clients
    BY <1>0, <1>18 DEF Tunnel
  <2> QED
    BY <1>18, <2>1 DEF Tunnel, TypeOK
<1>19. CASE TunnelEnds
  BY <1>19 DEF TunnelEnds, TypeOK
<1> QED
  BY <1>1, <1>2, <1>3, <1>4, <1>5, <1>6, <1>7, <1>8, <1>9, <1>10, <1>11, <1>12, <1>13,
     <1>14, <1>15, <1>16, <1>17, <1>18, <1>19 DEF HandlerStep

-----------------------------------------------------------------------------
(* The reader. *)

\* The reader as a reader of the type invariant.
LEMMA ReaderTypes ==
    ASSUME TypeOK
    PROVE  /\ reader.n \in Nat /\ reader.taken \in Nat /\ reader.size \in Nat
           /\ reader.len \in Nat /\ traffic.length \in Nat /\ traffic.reply \in Nat
           /\ reader.err \in {"none", "eof", "error"}
           /\ reader.at \in {"unused", "idle", "got", "counted", "captured", "done"}
           /\ reader.sawEOF \in BOOLEAN /\ reader.readErr \in BOOLEAN
           /\ reader = [at |-> reader.at, n |-> reader.n, err |-> reader.err,
                        taken |-> reader.taken, size |-> reader.size, len |-> reader.len,
                        sawEOF |-> reader.sawEOF, readErr |-> reader.readErr]
           /\ traffic.declared \in BOOLEAN
  BY SizesAssumption DEF TypeOK, Traffic, Sizes

\* Whatever the handler does meanwhile, a Read counts and keeps what it took.
LEMMA ReaderStepKeepsReader == TypeOK /\ ReaderInv /\ ReaderStep => ReaderInv'
<1> SUFFICES ASSUME TypeOK, ReaderInv, ReaderStep PROVE ReaderInv'
  OBVIOUS
<1>1. UNCHANGED <<traffic, closed, handler, torn>>
  BY DEF ReaderStep, ReadBody, CountRead, CaptureRead, EndRead, handlerVars
<1> USE ReaderTypes DEF ReaderInv, Uncounted, Uncaptured, Assembling, Assembled
<1>2. CASE ReadBody
  <2>1. PICK n \in 0 .. (traffic.length - reader.taken), err \in {"none", "eof", "error"} :
              /\ closed => n = 0 /\ err = "error"
              /\ err = "eof" => reader.taken + n = traffic.length
              /\ reader.at = "idle"
              /\ reader' = [reader EXCEPT !.at = "got", !.n = n, !.err = err, !.taken = @ + n]
    BY <1>2 DEF ReadBody
  <2>2. /\ reader'.at = "got" /\ reader'.n = n /\ reader'.err = err
        /\ reader'.taken = reader.taken + n /\ reader'.size = reader.size
        /\ reader'.len = reader.len /\ reader'.sawEOF = reader.sawEOF
    BY <2>1
  <2>3. n \in Nat /\ reader.taken + n \in Nat /\ reader.taken + n <= traffic.length
        /\ (reader.taken + n) - n = reader.taken
    BY <2>1
  <2>4. reader'.len = Min({Limit, reader'.taken - n})
    <3>1. reader.taken - Uncaptured = reader.taken /\ reader'.taken - n = reader.taken
      BY <2>1, <2>2, <2>3
    <3>2. reader.len = Min({Limit, reader.taken - Uncaptured})
      OBVIOUS
    <3> QED
      BY <2>2, <3>1, <3>2
  <2> QED
    BY <1>1, <2>1, <2>2, <2>3, <2>4
<1>3. CASE CountRead
  <2>1. /\ reader.at = "got" /\ reader'.at = "counted" /\ reader'.n = reader.n
        /\ reader'.err = reader.err /\ reader'.taken = reader.taken
        /\ reader'.size = reader.size + reader.n /\ reader'.len = reader.len
        /\ reader'.sawEOF = reader.sawEOF
    BY <1>3 DEF CountRead
  <2> QED
    BY <1>1, <2>1
<1>4. CASE CaptureRead
  <2>1. /\ reader.at = "counted" /\ reader'.at = "captured"
        /\ reader'.err = reader.err /\ reader'.taken = reader.taken
        /\ reader'.size = reader.size /\ reader'.sawEOF = reader.sawEOF
        /\ reader'.len = Captured(reader.len, reader.n)
    BY <1>4 DEF CaptureRead
  <2>2. reader.taken - reader.n \in Nat /\ (reader.taken - reader.n) + reader.n = reader.taken
    BY <2>1
  <2>3. reader'.len = Min({Limit, reader.taken})
    BY <2>1, <2>2, CapturedInPieces
  <2>4. reader'.taken - 0 = reader.taken
    BY <2>1
  <2> QED
    BY <1>1, <2>1, <2>3, <2>4
<1>5. CASE EndRead
  <2>1. /\ reader.at = "captured" /\ reader'.at \in {"idle", "done"}
        /\ reader.err = "eof" => reader'.at = "done"
        /\ reader'.taken = reader.taken /\ reader'.size = reader.size
        /\ reader'.len = reader.len
        /\ reader'.sawEOF <=> reader.sawEOF \/ reader.err = "eof"
    BY <1>5 DEF EndRead
  <2> QED
    BY <1>1, <2>1
<1> QED
  BY <1>2, <1>3, <1>4, <1>5 DEF ReaderStep

\* What has been noted of the reader stays good enough while a Read that the close
\* of the body found in progress runs on.
LEMMA ReaderStepKeepsAssembling ==
    TypeOK /\ ReaderInv /\ AssemblingInv /\ ReaderStep => AssemblingInv'
<1> SUFFICES ASSUME TypeOK, ReaderInv, AssemblingInv, ReaderStep, Assembling'
             PROVE  AssemblingInv'
  BY DEF AssemblingInv
<1>1. UNCHANGED <<traffic, closed, handler, writer, row, torn>>
  BY DEF ReaderStep, ReadBody, CountRead, CaptureRead, EndRead, handlerVars
<1>2. Assembling /\ closed
  BY <1>1 DEF Assembling, ReaderInv
<1>3. /\ reader'.size \in Nat /\ reader'.len \in Nat
      /\ reader.size <= reader'.size /\ reader.len <= reader'.len
      /\ reader'.size <= traffic.length
      /\ ~torn => reader'.size = reader.size /\ reader'.len = reader.len
  <2> USE ReaderTypes DEF ReaderInv, Uncounted, Uncaptured
  <2>1. CASE ReadBody \/ EndRead
    <3>1. reader'.size = reader.size /\ reader'.len = reader.len
      BY <2>1 DEF ReadBody, EndRead
    <3> QED
      BY <3>1
  <2>2. CASE CountRead
    <3>1. /\ reader.at = "got" /\ reader'.len = reader.len
          /\ reader'.size = reader.size + reader.n
      BY <2>2 DEF CountRead
    <3> QED
      BY <1>2, <3>1
  <2>3. CASE CaptureRead
    <3>1. /\ reader.at = "counted" /\ reader'.size = reader.size
          /\ reader'.len = Captured(reader.len, reader.n)
      BY <2>3 DEF CaptureRead
    <3>2. reader.taken - reader.n \in Nat /\ (reader.taken - reader.n) + reader.n = reader.taken
      BY <3>1
    <3>3. reader'.len = Min({Limit, reader.taken})
      BY <3>1, <3>2, CapturedInPieces
    <3>4. reader.len = Min({Limit, reader.taken - reader.n})
      BY <3>1
    <3>5. reader'.len \in Nat /\ reader.len <= reader'.len
      BY <3>2, <3>3, <3>4, KeptWithinLimit, LimitAssumption
    <3>6. ~torn => reader.taken - reader.n = reader.taken
      BY <1>2, <3>1
    <3>7. ~torn => reader'.len = reader.len
      BY <3>3, <3>4, <3>6
    <3> QED
      BY <3>1, <3>5, <3>7
  <2> QED
    BY <2>1, <2>2, <2>3 DEF ReaderStep
<1>4. row.request.complete' = row.request.complete /\ row.request.body' = row.request.body
  BY <1>1
<1>5. handler = "size" => row.request.body.len \in Nat
  BY DEF TypeOK, Message, Body
<1> QED
  BY <1>1, <1>2, <1>3, <1>5, ReaderTypes DEF AssemblingInv, Assembling

\* No step of the transport's goroutine touches what the handler keeps.
LEMMA ReaderStepKeepsHandler ==
    WriterInv /\ RowInv /\ ReaderStep => WriterInv' /\ RowInv'
<1> SUFFICES ASSUME WriterInv, RowInv, ReaderStep PROVE WriterInv' /\ RowInv'
  OBVIOUS
<1>1. UNCHANGED <<traffic, closed, handler, writer, client, aborted, torn, row, outcome>>
  BY DEF ReaderStep, ReadBody, CountRead, CaptureRead, EndRead, handlerVars
<1> QED
  BY <1>1 DEF WriterInv, RowInv, ResponseComplete, Unwritten, Delivered, Switched, StatusLeft,
              Assembling, Assembled, Valid

-----------------------------------------------------------------------------
(* The handler. *)

\* The handler starts the reader and closes its body; it never moves it on.
LEMMA HandlerStepKeepsReader == TypeOK /\ ReaderInv /\ HandlerStep => ReaderInv'
<1> SUFFICES ASSUME TypeOK, ReaderInv, HandlerStep PROVE ReaderInv'
  OBVIOUS
<1> USE ReaderTypes DEF ReaderInv, Assembling, Assembled
<1>1. CASE RoundTrip
  <2>1. /\ reader.at = "unused" /\ reader'.at \in {"unused", "idle"}
        /\ reader'.taken = reader.taken /\ reader'.size = reader.size
        /\ reader'.len = reader.len /\ reader'.sawEOF = reader.sawEOF
        /\ UNCHANGED <<traffic, closed, torn>>
        /\ handler = "start" /\ handler' \in {"roundtrip", "error"}
    BY <1>1 DEF RoundTrip
  <2>2. /\ Uncounted = 0 /\ Uncaptured = 0 /\ Uncounted' = 0 /\ Uncaptured' = 0
        /\ ~reader.sawEOF
    BY <2>1 DEF Uncounted, Uncaptured
  <2> QED
    BY <2>1, <2>2
<1>2. CASE CloseBody
  <2>1. /\ handler = "return" /\ handler' = "truncated" /\ closed'
        /\ torn' = (reader.at \in {"got", "counted"})
        /\ UNCHANGED <<traffic, reader>>
    BY <1>2 DEF CloseBody
  <2> QED
    BY <2>1 DEF Uncounted, Uncaptured
<1>3. ASSUME UNCHANGED <<traffic, reader, closed, torn>>, handler # "start", handler' # "start",
             (Assembling \/ Assembled)' <=> Assembling \/ Assembled
      PROVE  ReaderInv'
  BY <1>3 DEF Uncounted, Uncaptured
<1>4. CASE ForwardInformational
  BY <1>3, <1>4 DEF ForwardInformational
<1>5. CASE TransportFails
  BY <1>3, <1>5 DEF TransportFails
<1>6. CASE ErrorHandler
  BY <1>3, <1>6 DEF ErrorHandler
<1>7. CASE ErrorPage
  BY <1>3, <1>7 DEF ErrorPage
<1>8. CASE ResponseArrives
  BY <1>3, <1>8 DEF ResponseArrives
<1>9. CASE CopyResponse
  BY <1>3, <1>9 DEF CopyResponse
<1>10. CASE ClientGone
  BY <1>3, <1>10 DEF ClientGone
<1>11. CASE UpstreamBreaks
  BY <1>3, <1>11 DEF UpstreamBreaks
<1>12. CASE CopyEnds
  BY <1>3, <1>12 DEF CopyEnds
<1>13. CASE ReadTruncated \/ ReadComplete
  BY <1>3, <1>13 DEF ReadTruncated, ReadComplete
<1>14. CASE ReadBytes \/ ReadSize
  BY <1>3, <1>14 DEF ReadBytes, ReadSize
<1>15. CASE Add
  BY <1>3, <1>15 DEF Add
<1>16. CASE SwitchProtocols
  BY <1>3, <1>16 DEF SwitchProtocols
<1>17. CASE Tunnel \/ TunnelEnds
  BY <1>3, <1>17 DEF Tunnel, TunnelEnds
<1> QED
  BY <1>1, <1>2, <1>4, <1>5, <1>6, <1>7, <1>8, <1>9, <1>10, <1>11, <1>12, <1>13,
     <1>14, <1>15, <1>16, <1>17 DEF HandlerStep

\* The writer and the client by their fields.
LEMMA WriterTypes ==
    ASSUME TypeOK
    PROVE  /\ writer.size \in Nat /\ writer.len \in Nat /\ client.bytes \in Nat
           /\ writer.writeErr \in BOOLEAN /\ writer.proxyError \in BOOLEAN
           /\ writer.wroteHeader \in BOOLEAN /\ aborted \in BOOLEAN
           /\ writer = [status |-> writer.status, wroteHeader |-> writer.wroteHeader,
                        size |-> writer.size, len |-> writer.len,
                        writeErr |-> writer.writeErr, proxyError |-> writer.proxyError]
           /\ client = [status |-> client.status, bytes |-> client.bytes,
                        hijacked |-> client.hijacked]
           /\ client.hijacked \in BOOLEAN
           /\ traffic.reply \in Nat /\ PageLen \in Nat
  BY SizesAssumption DEF TypeOK, Traffic, Sizes

\* A Write of n bytes of which the client takes m keeps the writer's accounts.
LEMMA WriteAccounts ==
    ASSUME TypeOK, WriterInv, NEW n \in Nat, NEW m \in Nat, m <= n, Write(n, m)
    PROVE  /\ writer'.size = writer.size + n /\ writer'.size \in Nat
           /\ writer'.len = Min({Limit, writer'.size})
           /\ ~client.hijacked => client'.bytes <= writer'.size
           /\ ~client.hijacked /\ ~writer'.writeErr => client'.bytes = writer'.size
           /\ client'.bytes = client.bytes + m
           /\ writer'.writeErr <=> writer.writeErr \/ m < n
           /\ UNCHANGED <<writer.status, writer.wroteHeader, writer.proxyError>>
           /\ UNCHANGED <<client.status, client.hijacked>>
<1>1. /\ writer'.size = writer.size + n /\ writer'.len = Captured(writer.len, n)
      /\ writer'.writeErr <=> writer.writeErr \/ m < n
      /\ writer'.status = writer.status /\ writer'.wroteHeader = writer.wroteHeader
      /\ writer'.proxyError = writer.proxyError
      /\ client'.bytes = client.bytes + m /\ client'.status = client.status
      /\ client'.hijacked = client.hijacked
  BY WriterTypes DEF Write
<1>2. writer'.len = Min({Limit, writer.size + n})
  BY <1>1, WriterTypes, CapturedInPieces DEF WriterInv
<1> QED
  BY <1>1, <1>2, WriterTypes DEF WriterInv

\* The handler comes to its return with the writer's accounts in order: either it
\* has the whole answer and the client, too, or it knows that something went wrong.
LEMMA HandlerStepKeepsWriter == TypeOK /\ WriterInv /\ HandlerStep => WriterInv'
<1> SUFFICES ASSUME TypeOK, WriterInv, HandlerStep PROVE WriterInv'
  OBVIOUS
<1> USE WriterTypes DEF WriterInv, ResponseComplete, Unwritten, Switched, StatusLeft
<1>1. CASE RoundTrip
  BY <1>1 DEF RoundTrip
<1>2. CASE ForwardInformational
  <2>1. /\ UNCHANGED <<traffic, writer, aborted, handler>> /\ handler = "roundtrip"
        /\ client'.bytes = client.bytes /\ client'.hijacked = client.hijacked
    BY <1>2 DEF ForwardInformational, WriteHeader
  <2> QED
    BY <2>1
<1>3. CASE TransportFails
  BY <1>3 DEF TransportFails
<1>4. CASE ErrorHandler
  <2>1. /\ handler = "error" /\ handler' = "errorpage" /\ client'.bytes = client.bytes
        /\ client'.hijacked = client.hijacked
        /\ ~client.hijacked => client'.status = "badgateway"
        /\ writer'.status = "badgateway" /\ writer'.proxyError
        /\ writer'.size = writer.size /\ writer'.len = writer.len
        /\ writer'.writeErr <=> writer.writeErr
    BY <1>4 DEF ErrorHandler
  <2> QED
    BY <2>1
<1>5. CASE ErrorPage
  <2>1. PICK m \in {0, PageLen} : (client.hijacked => m = 0) /\ Write(PageLen, m)
    BY <1>5 DEF ErrorPage
  <2>2. handler = "errorpage" /\ handler' = "return"
    BY <1>5 DEF ErrorPage
  <2>3. m \in Nat /\ m <= PageLen
    OBVIOUS
  <2>4. /\ writer'.len = Min({Limit, writer'.size})
        /\ ~client.hijacked => client'.bytes <= writer'.size
        /\ ~client.hijacked /\ ~writer'.writeErr => client'.bytes = writer'.size
        /\ client'.bytes = client.bytes + m
        /\ UNCHANGED <<writer.status, writer.proxyError, client.status, client.hijacked>>
    BY <2>1, <2>3, WriteAccounts
  <2>5. writer.proxyError /\ writer.status = StatusLeft(TRUE) /\ client.bytes = 0
    BY <2>2
  <2>6. client.hijacked => client'.bytes = 0
    BY <2>1, <2>4, <2>5
  <2>7. writer'.status = StatusLeft(TRUE)' /\ writer'.proxyError
    BY <2>4, <2>5
  <2> QED
    BY <2>2, <2>4, <2>6, <2>7
<1>6. CASE ResponseArrives
  <2>1. /\ handler = "roundtrip" /\ handler' = "copying"
        /\ client'.bytes = client.bytes /\ client'.status = "upstream"
        /\ client'.hijacked = client.hijacked
        /\ writer'.status = "upstream" /\ writer'.size = writer.size
        /\ writer'.len = writer.len /\ writer'.writeErr = writer.writeErr
        /\ writer'.proxyError = writer.proxyError
        /\ UNCHANGED <<traffic, aborted>>
    BY <1>6 DEF ResponseArrives, WriteHeader
  <2> QED
    BY <2>1
<1>7. CASE CopyResponse
  <2>1. PICK n \in 1 .. (traffic.reply - writer.size) : Write(n, n)
    BY <1>7 DEF CopyResponse
  <2>2. handler = "copying" /\ UNCHANGED <<handler, traffic, aborted>>
    BY <1>7 DEF CopyResponse
  <2>3. n \in Nat /\ n <= n /\ writer.size + n <= traffic.reply
    BY <2>1
  <2>4. /\ writer'.size = writer.size + n /\ writer'.len = Min({Limit, writer'.size})
        /\ ~client.hijacked => client'.bytes <= writer'.size
        /\ ~client.hijacked /\ ~writer'.writeErr => client'.bytes = writer'.size
        /\ UNCHANGED <<writer.status, writer.proxyError, client.status, client.hijacked>>
    BY <2>1, <2>3, WriteAccounts
  <2>5. ~writer'.writeErr
    BY <2>1, <2>2
       DEF Write
  <2> QED
    BY <2>2, <2>3, <2>4, <2>5
<1>8. CASE ClientGone
  <2>1. PICK n \in 1 .. (traffic.reply - writer.size) : \E m \in 0 .. n - 1 : Write(n, m)
    BY <1>8 DEF ClientGone
  <2>2. PICK m \in 0 .. n - 1 : Write(n, m)
    BY <2>1
  <2>3. handler = "copying" /\ handler' = "return" /\ aborted'
    BY <1>8 DEF ClientGone
  <2>4. n \in Nat /\ m \in Nat /\ m <= n
    BY <2>1, <2>2
  <2> QED
    BY <2>2, <2>3, <2>4, WriteAccounts
<1>9. CASE UpstreamBreaks
  BY <1>9 DEF UpstreamBreaks
<1>10. CASE CopyEnds
  BY <1>10 DEF CopyEnds
<1>11. CASE CloseBody
  <2>1. /\ handler' = "truncated" /\ UNCHANGED client
        /\ writer'.size = writer.size /\ writer'.len = writer.len
        /\ writer'.writeErr <=> writer.writeErr
    BY <1>11 DEF CloseBody
  <2> QED
    BY <2>1
<1>12. ASSUME UNCHANGED <<writer, client>>, handler' \in {"complete", "bytes", "size", "add", "end"}
       PROVE  WriterInv'
  BY <1>12
<1>13. CASE ReadTruncated
  BY <1>12, <1>13 DEF ReadTruncated
<1>14. CASE ReadComplete
  BY <1>12, <1>14 DEF ReadComplete
<1>15. CASE ReadBytes
  BY <1>12, <1>15 DEF ReadBytes
<1>16. CASE ReadSize
  BY <1>12, <1>16 DEF ReadSize
<1>17. CASE Add
  BY <1>12, <1>17 DEF Add
<1>18. CASE SwitchProtocols
  <2>1. /\ handler = "roundtrip" /\ UNCHANGED <<traffic, writer, aborted>>
        /\ client'.hijacked /\ client'.bytes = client.bytes
        /\ \/ handler' = "tunnel" /\ client'.status = "switching"
           \/ handler' = "error"
    BY <1>18 DEF SwitchProtocols
  <2> QED
    BY <2>1
<1>19. CASE Tunnel
  <2>1. /\ handler = "tunnel" /\ UNCHANGED <<traffic, writer, aborted, handler>>
        /\ client'.hijacked = client.hijacked /\ client'.status = client.status
    BY <1>19 DEF Tunnel
  <2> QED
    BY <2>1
<1>20. CASE TunnelEnds
  BY <1>20 DEF TunnelEnds
<1> QED
  BY <1>1, <1>2, <1>3, <1>4, <1>5, <1>6, <1>7, <1>8, <1>9, <1>10, <1>11, <1>13,
     <1>14, <1>15, <1>16, <1>17, <1>18, <1>19, <1>20 DEF HandlerStep

-----------------------------------------------------------------------------
(* The exchange. *)

\* The exchange by its fields.
LEMMA RowTypes ==
    ASSUME TypeOK
    PROVE  /\ row.request \in Message /\ row.response \in Message
           /\ row.request.body \in Body /\ row.request.body.len \in Nat
           /\ row.request.truncated \in BOOLEAN /\ row.request.complete \in BOOLEAN
           /\ row.response.truncated \in BOOLEAN /\ row.response.complete \in BOOLEAN
           /\ row = [request |-> row.request, response |-> row.response,
                     status |-> row.status, proxyError |-> row.proxyError]
           /\ row.request = [body |-> row.request.body, observed |-> row.request.observed,
                             truncated |-> row.request.truncated,
                             complete |-> row.request.complete]
           /\ row.response = [body |-> row.response.body, observed |-> row.response.observed,
                              truncated |-> row.response.truncated,
                              complete |-> row.response.complete]
           /\ traffic.rules \in BOOLEAN
  BY DEF TypeOK, Message, Body, Traffic

\* What the handler notes, one look after another, agrees with what it looked at.
LEMMA HandlerStepKeepsAssembling ==
    TypeOK /\ ReaderInv /\ WriterInv /\ AssemblingInv /\ HandlerStep => AssemblingInv'
<1> SUFFICES ASSUME TypeOK, ReaderInv, WriterInv, AssemblingInv, HandlerStep, Assembling'
             PROVE  AssemblingInv'
  BY DEF AssemblingInv
<1> USE ReaderTypes, WriterTypes, RowTypes DEF Assembling
<1>1. CASE CloseBody
  <2>1. /\ handler' = "truncated"
        /\ writer'.size = writer.size /\ writer'.len = writer.len
        /\ writer'.proxyError <=> writer.proxyError \/ ~ResponseComplete
        /\ row'.proxyError = writer'.proxyError
        /\ row'.response.truncated = (writer.size > writer.len)
        /\ row'.response.complete = ResponseComplete
    BY <1>1 DEF CloseBody, ResponseComplete
  <2> QED
    BY <2>1 DEF AssemblingInv
<1>2. CASE ReadTruncated
  <2>1. /\ handler = "truncated" /\ handler' = "complete" /\ UNCHANGED <<reader, writer, torn>>
        /\ row'.request.truncated = (reader.size > reader.len)
        /\ row'.response = row.response /\ row'.proxyError = row.proxyError
    BY <1>2 DEF ReadTruncated
  <2> QED
    BY <2>1 DEF AssemblingInv
<1>3. CASE ReadComplete
  <2>1. /\ handler = "complete" /\ handler' = "bytes"
        /\ UNCHANGED <<traffic, reader, writer, torn>>
        /\ row'.request.complete = Complete
        /\ row'.request.truncated = row.request.truncated
        /\ row'.response = row.response /\ row'.proxyError = row.proxyError
    BY <1>3 DEF ReadComplete, Complete
  <2>2. Complete => reader.size = traffic.length
    BY DEF Complete, ReaderInv, Uncounted, Uncaptured
  <2> QED
    BY <2>1, <2>2 DEF AssemblingInv
<1>4. CASE ReadBytes
  <2>1. /\ handler = "bytes" /\ handler' = "size"
        /\ UNCHANGED <<traffic, reader, writer, torn>>
        /\ row'.request.body = Wire(reader.len) /\ row'.request.complete = row.request.complete
        /\ row'.request.truncated = row.request.truncated
        /\ row'.response = row.response /\ row'.proxyError = row.proxyError
    BY <1>4 DEF ReadBytes
  <2>2. row'.request.body.len = reader.len
    BY <2>1 DEF Wire
  <2> QED
    BY <2>1, <2>2 DEF AssemblingInv
<1>5. CASE RoundTrip \/ ForwardInformational \/ TransportFails \/ ErrorHandler \/ ErrorPage
  BY <1>5 DEF RoundTrip, ForwardInformational, TransportFails, ErrorHandler, ErrorPage
<1>6. CASE ResponseArrives \/ CopyResponse \/ ClientGone \/ UpstreamBreaks \/ CopyEnds
  BY <1>6 DEF ResponseArrives, CopyResponse, ClientGone, UpstreamBreaks, CopyEnds
<1>7. CASE ReadSize \/ Add
  BY <1>7 DEF ReadSize, Add
<1>8. CASE SwitchProtocols \/ Tunnel \/ TunnelEnds
  BY <1>8 DEF SwitchProtocols, Tunnel, TunnelEnds
<1> QED
  BY <1>1, <1>2, <1>3, <1>4, <1>5, <1>6, <1>7, <1>8 DEF HandlerStep

\* What the exchange says is so, from the close of the body until after Add.
LEMMA HandlerStepKeepsRow ==
    TypeOK /\ ReaderInv /\ WriterInv /\ AssemblingInv /\ RowInv /\ HandlerStep => RowInv'
<1> SUFFICES ASSUME TypeOK, ReaderInv, WriterInv, AssemblingInv, RowInv, HandlerStep
             PROVE  RowInv'
  OBVIOUS
<1> USE ReaderTypes, WriterTypes, RowTypes
<1>1. CASE CloseBody
  <2>1. /\ handler = "return" /\ handler' = "truncated"
        /\ UNCHANGED <<traffic, client, outcome>>
        /\ writer'.proxyError <=> writer.proxyError \/ ~ResponseComplete
        /\ row'.proxyError = writer'.proxyError /\ row'.status = writer.status
    BY <1>1 DEF CloseBody
  <2>2. writer'.size = writer.size
    BY <1>1 DEF CloseBody
  <2>3. row'.proxyError \/ Delivered \/ Switched
    BY <2>1 DEF WriterInv, ResponseComplete, Delivered, Switched
  <2>4. /\ row'.status = StatusLeft(row'.proxyError)
        /\ client.hijacked /\ row'.proxyError => client.bytes = 0
    BY <2>1 DEF WriterInv, ResponseComplete, Unwritten, StatusLeft
  <2>5. outcome = "none"
    BY <2>1 DEF RowInv
  <2> QED
    BY <2>1, <2>2, <2>3, <2>4, <2>5 DEF RowInv, Assembled, Delivered, Switched, StatusLeft
<1>2. ASSUME handler' \in {"complete", "bytes", "size"}, Assembling,
             UNCHANGED <<traffic, writer, client, outcome>>,
             row'.status = row.status, row'.proxyError = row.proxyError
      PROVE  RowInv'
  BY <1>2 DEF RowInv, Assembling, Assembled, Delivered, Switched, StatusLeft
<1>3. CASE ReadTruncated
  <2>1. row'.status = row.status /\ row'.proxyError = row.proxyError
    BY <1>3 DEF ReadTruncated
  <2> QED
    BY <1>2, <1>3, <2>1 DEF ReadTruncated, Assembling
<1>4. CASE ReadComplete
  <2>1. row'.status = row.status /\ row'.proxyError = row.proxyError
    BY <1>4 DEF ReadComplete
  <2> QED
    BY <1>2, <1>4, <2>1 DEF ReadComplete, Assembling
<1>5. CASE ReadBytes
  <2>1. row'.status = row.status /\ row'.proxyError = row.proxyError
    BY <1>5 DEF ReadBytes
  <2> QED
    BY <1>2, <1>5, <2>1 DEF ReadBytes, Assembling
<1>6. CASE ReadSize
  <2>1. PICK request \in Sanitize(row.request, row.request.body, reader.size),
             response \in Sanitize(row.response, Wire(writer.len), writer.size) :
             row' = [row EXCEPT !.request = request, !.response = response]
    BY <1>6 DEF ReadSize
  <2>2. /\ handler = "size" /\ handler' = "add"
        /\ UNCHANGED <<traffic, reader, writer, client, torn, outcome>>
        /\ row'.request = request /\ row'.response = response
        /\ row'.status = row.status /\ row'.proxyError = row.proxyError
    BY <1>6, <2>1 DEF ReadSize
  <2>3. /\ row.request.body = Wire(row.request.body.len)
        /\ row.request.body.len <= reader.len
        /\ ~torn => /\ row.request.body.len = reader.len
                    /\ row.request.truncated = (reader.size > reader.len)
        /\ row.request.complete => reader.size = traffic.length
        /\ row.response.truncated = (writer.size > writer.len)
        /\ ~row.response.complete => row.proxyError
    BY <2>2 DEF AssemblingInv, Assembling
  <2>4. reader.len <= reader.size
    <3>1. reader.taken - Uncaptured \in Nat
      BY DEF ReaderInv, Uncaptured
    <3>2. reader.len <= reader.taken - Uncaptured
      BY <3>1, KeptWithinLimit DEF ReaderInv
    <3> QED
      BY <3>2 DEF ReaderInv, Uncaptured, Uncounted
  <2>5. writer.len <= writer.size
    BY KeptWithinLimit DEF WriterInv
  <2>6. Wire(writer.len) \in Body /\ Wire(writer.len).len = writer.len
        /\ Wire(writer.len).kind = "wire"
    BY DEF Wire, Body, BodyKinds
  <2>7. Valid(response) /\ response.truncated = row.response.truncated
        /\ (~response.complete => ~row.response.complete \/ response.body = Marker)
        /\ (response.body.kind = "wire" =>
               response.body = Wire(writer.len) /\ response.observed = writer.size)
    <3>1. ValidBodyMetadata(Wire(writer.len), writer.size, row.response.truncated)
      BY <2>3, <2>5, <2>6 DEF ValidBodyMetadata
    <3> QED
      BY <2>1, <2>6, <3>1, SanitizedMessageFacts
  <2>8. /\ ValidBodyMetadata(row.request.body, reader.size, row.request.truncated) => Valid(request)
        /\ request.truncated = row.request.truncated
        /\ request.complete =>
              /\ row.request.complete
              /\ \/ request.body = row.request.body
                 \/ request.body.kind = "rewritten" /\ request.body.of = row.request.body.of
        /\ Valid(request) /\ ~row.request.truncated => reader.size <= row.request.body.len
    BY <2>1, SanitizedMessageFacts
  <2>9. ~torn => Valid(request)
    BY <2>3, <2>4, <2>8 DEF ValidBodyMetadata
  <2>10. ASSUME Valid(request), request.complete, ~request.truncated
         PROVE  request.body.of = traffic.length /\ request.body.kind # "marker"
    <3>1. row.request.body.of = row.request.body.len /\ row.request.body.kind = "wire"
      BY <2>3 DEF Wire
    <3>2. row.request.body.len = traffic.length
      BY <2>3, <2>4, <2>8, <2>10
    <3> QED
      BY <2>8, <2>10, <3>1, <3>2
  <2>11. /\ Valid(row.request)' <=> Valid(request)
         /\ Valid(row.response)' <=> Valid(response)
    BY <2>2 DEF Valid, ValidBodyMetadata
  <2>12. /\ row.status = StatusLeft(row.proxyError) /\ outcome = "none"
         /\ row.proxyError \/ Delivered \/ Switched
         /\ client.hijacked /\ row.proxyError => client.bytes = 0
    BY <2>2 DEF RowInv, Assembling
  <2>13. /\ row'.status = StatusLeft(row.proxyError)'
         /\ row'.proxyError \/ Delivered' \/ Switched'
         /\ client'.hijacked /\ row'.proxyError => client'.bytes = 0
    BY <2>2, <2>12 DEF StatusLeft, Delivered, Switched
  <2> QED
    BY <2>2, <2>3, <2>6, <2>7, <2>9, <2>10, <2>11, <2>12, <2>13
       DEF RowInv, Assembling, Assembled
<1>7. CASE Add
  <2>1. /\ handler = "add" /\ handler' = "end"
        /\ UNCHANGED <<traffic, client, row, torn, writer>>
        /\ outcome' = IF Valid(row.request) /\ Valid(row.response) THEN "stored" ELSE "lost"
    BY <1>7 DEF Add
  <2>2. /\ Valid(row.request)' <=> Valid(row.request)
        /\ Valid(row.response)' <=> Valid(row.response)
    BY <2>1 DEF Valid
  <2>3. /\ row'.status = StatusLeft(row.proxyError)'
        /\ row'.proxyError \/ Delivered' \/ Switched'
        /\ client'.hijacked /\ row'.proxyError => client'.bytes = 0
    BY <2>1 DEF RowInv, Assembled, StatusLeft, Delivered, Switched
  <2> QED
    BY <2>1, <2>2, <2>3 DEF RowInv, Assembling, Assembled
<1>8. ASSUME UNCHANGED <<row, outcome>>, handler \notin {"end"},
             ~Assembling', ~Assembled'
      PROVE  RowInv'
  BY <1>8 DEF RowInv, Assembled
<1>9. CASE RoundTrip \/ ForwardInformational \/ TransportFails \/ ErrorHandler \/ ErrorPage
  BY <1>8, <1>9 DEF RoundTrip, ForwardInformational, TransportFails, ErrorHandler, ErrorPage,
                    Assembling, Assembled
<1>10. CASE ResponseArrives \/ CopyResponse \/ ClientGone \/ UpstreamBreaks \/ CopyEnds
  BY <1>8, <1>10 DEF ResponseArrives, CopyResponse, ClientGone, UpstreamBreaks, CopyEnds,
                     Assembling, Assembled
<1>11. CASE SwitchProtocols \/ Tunnel \/ TunnelEnds
  BY <1>8, <1>11 DEF SwitchProtocols, Tunnel, TunnelEnds, Assembling, Assembled
<1> QED
  BY <1>1, <1>3, <1>4, <1>5, <1>6, <1>7, <1>9, <1>10, <1>11 DEF HandlerStep

-----------------------------------------------------------------------------
(* The inductive invariant. *)

\* The initial state satisfies it: nothing has been read, written or noted.
LEMMA IInvInit == Init => IInv
<1> SUFFICES ASSUME Init PROVE IInv
  OBVIOUS
<1>1. TypeOK
  BY TypeInit
<1>2. Min({Limit, 0}) = 0 /\ traffic.length \in Nat
  BY <1>1, ReaderTypes, KeptWithinLimit, LimitAssumption
<1>3. ReaderInv
  BY <1>2 DEF Init, ReaderInv, Uncounted, Uncaptured, Assembling, Assembled
<1>4. WriterInv
  BY <1>2 DEF Init, WriterInv, Unwritten
<1>5. AssemblingInv /\ RowInv
  BY DEF Init, AssemblingInv, RowInv, Assembling, Assembled
<1> QED
  BY <1>1, <1>3, <1>4, <1>5 DEF IInv

\* Every step of either goroutine keeps it.
LEMMA IInvStep == IInv /\ [Next]_vars => IInv'
<1> SUFFICES ASSUME IInv, [Next]_vars PROVE IInv'
  OBVIOUS
<1>1. TypeOK /\ ReaderInv /\ WriterInv /\ AssemblingInv /\ RowInv
  BY DEF IInv
<1>2. CASE ReaderStep
  BY <1>1, <1>2, TypeReaderStep, ReaderStepKeepsReader, ReaderStepKeepsAssembling,
     ReaderStepKeepsHandler DEF IInv
<1>3. CASE HandlerStep
  BY <1>1, <1>3, TypeHandlerStep, HandlerStepKeepsReader, HandlerStepKeepsWriter,
     HandlerStepKeepsAssembling, HandlerStepKeepsRow DEF IInv
<1>4. CASE UNCHANGED vars
  <2>1. UNCHANGED <<traffic, reader, closed, handler, writer, client, aborted, torn, row,
                    outcome>>
    BY <1>4 DEF vars
  <2>2. TypeOK' /\ ReaderInv'
    BY <1>1, <2>1 DEF TypeOK, ReaderInv, Uncounted, Uncaptured, Assembling, Assembled
  <2>3. WriterInv' /\ AssemblingInv' /\ RowInv'
    BY <1>1, <2>1 DEF WriterInv, AssemblingInv, RowInv, ResponseComplete, Unwritten,
                      Delivered, Switched, StatusLeft, Assembling, Assembled, Valid
  <2> QED
    BY <2>2, <2>3 DEF IInv
<1> QED
  BY <1>2, <1>3, <1>4 DEF Next

\* The two goroutines of an exchange, the handler that assembles the record and
\* the transport that may still be reading the request body, keep to the invariant
\* whatever the order of their steps.
THEOREM InductiveInvariant == Spec => []IInv
<1>1. Init => IInv
  BY IInvInit
<1>2. IInv /\ [Next]_vars => IInv'
  BY IInvStep
<1> QED
  BY <1>1, <1>2, PTL DEF Spec

\* The variables keep to their types: no size leaves the range of the bodies.
THEOREM TypeCorrect == Spec => []TypeOK
<1>1. IInv => TypeOK
  BY DEF IInv
<1> QED
  BY <1>1, InductiveInvariant, PTL

-----------------------------------------------------------------------------
(* What an exchange promises. *)

\* A stored request that is complete and not truncated stands for the whole body
\* the client sent, even when the row was assembled in the middle of a Read:
\* captureReadCloser.complete, truncated and bytes may each see another moment of
\* the reader, but no combination of them passes for a whole body.
THEOREM ReplayableRequestIsWhole == Spec => []ReplayableIsWhole
<1>1. IInv => ReplayableIsWhole
  <2> SUFFICES ASSUME IInv, outcome = "stored", row.request.complete,
                      ~row.request.truncated
               PROVE  row.request.body.of = traffic.length /\ row.request.body # Marker
    BY DEF ReplayableIsWhole
  <2>1. handler = "end" /\ Valid(row.request)
    BY DEF IInv, RowInv
  <2>2. row.request.body.of = traffic.length /\ row.request.body.kind # "marker"
    BY <2>1 DEF IInv, RowInv, Assembled
  <2> QED
    BY <2>2 DEF Marker
<1> QED
  BY <1>1, InductiveInvariant, PTL

\* Store.Add refuses an exchange for its sizes only when the handler returned in
\* the middle of a Read: redaction, truncation and a failed client never cause it.
THEOREM OnlyTornIsRefused == Spec => []RefusedOnlyWhenTorn
<1>1. IInv => RefusedOnlyWhenTorn
  BY DEF IInv, RowInv, Assembled, RefusedOnlyWhenTorn
<1> QED
  BY <1>1, InductiveInvariant, PTL

\* A row without a proxy error is an exchange whose client got the upstream's whole
\* answer under the upstream's status, or its 101.
THEOREM NoErrorIsDelivered == Spec => []NoErrorMeansDelivered
<1>1. IInv => NoErrorMeansDelivered
  BY DEF IInv, RowInv, Assembled, Delivered, Switched, NoErrorMeansDelivered
<1> QED
  BY <1>1, InductiveInvariant, PTL

\* A stored response that is incomplete says why.
THEOREM IncompleteSaysWhy == Spec => []IncompleteIsExplained
<1>1. IInv => IncompleteIsExplained
  BY DEF IInv, RowInv, Assembled, IncompleteIsExplained
<1> QED
  BY <1>1, InductiveInvariant, PTL

\* The recorded status is the final one the client was sent, whatever informational
\* responses came first and however the copying ended, unless ReverseProxy took the
\* connection for a 101: then it is the default 200 of captureWriter, or the 502 of
\* an error page sent to a connection that was gone, and never the 101.
THEOREM StatusIsTheFinalOne == Spec => []StatusIsFinal
<1>1. IInv => StatusIsFinal
  BY DEF IInv, RowInv, Assembled, StatusLeft, StatusIsFinal
<1> QED
  BY <1>1, InductiveInvariant, PTL

\* Outside a Read the reader has counted all it took and kept the prefix within the
\* limit, and a response that was not redacted accounts for all the client got, or is
\* empty, after a tunnel.
THEOREM SizesAreAccountedFor == Spec => []SizesAccountForBodies
<1>1. IInv => SizesAccountForBodies
  <2> SUFFICES ASSUME IInv PROVE SizesAccountForBodies
    OBVIOUS
  <2>1. TypeOK /\ ReaderInv /\ WriterInv /\ RowInv
    BY DEF IInv
  <2>2. ASSUME reader.at \in {"idle", "captured", "done"}
        PROVE  reader.size = reader.taken /\ reader.len = Min({Limit, reader.size})
    <3>1. Uncounted = 0 /\ Uncaptured = 0
      BY <2>2 DEF Uncounted, Uncaptured
    <3>2. reader.size = reader.taken /\ reader.taken - Uncaptured = reader.size
      BY <2>1, <3>1, ReaderTypes DEF ReaderInv
    <3>3. reader.len = Min({Limit, reader.taken - Uncaptured})
      BY <2>1 DEF ReaderInv
    <3> QED
      BY <3>2, <3>3
  <2>3. ASSUME outcome = "stored", row.response.body.kind = "wire"
        PROVE  /\ IF client.hijacked /\ ~row.proxyError THEN row.response.observed = 0
                  ELSE client.bytes <= row.response.observed
               /\ row.response.body.len = Min({Limit, row.response.observed})
    <3>1. handler = "end"
      BY <2>1, <2>3 DEF RowInv
    <3>2. row.response.observed = writer.size /\ row.response.body.len = writer.len
      BY <2>1, <2>3, <3>1 DEF RowInv, Assembled
    <3>3. client.hijacked => IF row.proxyError THEN client.bytes = 0 ELSE writer.size = 0
      BY <2>1, <3>1 DEF RowInv, Assembled, Delivered, Switched
    <3> QED
      BY <2>1, <3>2, <3>3, WriterTypes DEF WriterInv
  <2> QED
    BY <2>2, <2>3 DEF SizesAccountForBodies
<1> QED
  BY <1>1, InductiveInvariant, PTL
=============================================================================
