-------------------------- MODULE ReplayRunProofs --------------------------
(***************************************************************************)
(* Theorems about ReplayRun, for every set of fields, every recording, and *)
(* every command line.                                                     *)
(***************************************************************************)
EXTENDS ReplayRun, SequenceTheorems, TLAPS

-----------------------------------------------------------------------------
(* The parts. *)

\* What is known of a configuration.
LEMMA ConfigType ==
    ASSUME config \in Configs
    PROVE  /\ MaxRows \in Nat
           /\ config.mode \in Modes /\ config.id \in {All} \cup 1 .. MaxRows
           /\ config.rules \subseteq Fields /\ config.env \subseteq Fields
           /\ config.override \in {"none", "typed", "opaque"}
  BY ConfigsAssumption DEF Config

\* What is known of a recorded request.
LEMMA RequestType ==
    ASSUME NEW r \in Samples
    PROVE  /\ r.whole \in {"whole", "truncated", "incomplete"} /\ r.withheld \in BOOLEAN
           /\ r.body \in BodyTypes /\ r.fields \in [Fields -> Contents]
  BY SamplesAssumption DEF Requests

\* A matched field has a rule.
LEMMA MatchedRules ==
    ASSUME NEW r, NEW type
    PROVE  Matched(r, type) \subseteq config.rules
  BY DEF Matched

\* A needed field has a rule.
LEMMA NeedsRules ==
    ASSUME NEW id
    PROVE  Needs(id) \subseteq config.rules
  BY MatchedRules DEF Needs

\* The type and the fields of a request as it goes out.
LEMMA OutgoingIsRequest ==
    ASSUME NEW r \in Samples, config \in Configs
    PROVE  /\ OutgoingType(r) \in BodyTypes
           /\ Outgoing(r) \in [Fields -> Contents \cup {"secret", "empty"}]
<1>1. OutgoingType(r) \in BodyTypes
  BY ConfigType, RequestType DEF OutgoingType, BodyTypes
<1>2. Outgoing(r) \in [Fields -> Contents \cup {"secret", "empty"}]
  BY RequestType DEF Outgoing
<1> QED
  BY <1>1, <1>2

\* A request that is not refused is resolved when it goes out.
LEMMA UnrefusedIsResolved ==
    ASSUME NEW r \in Samples, config \in Configs, NEW id, Refusal(r) = "none"
    PROVE  Resolved(r, [id |-> id, body |-> OutgoingType(r), fields |-> Outgoing(r)])
<1>1. r.whole = "whole" /\ ~Marked(r) /\ \A f \in Fields : Outgoing(r)[f] # "empty"
  BY DEF Refusal
<1>2. ~r.withheld
  BY <1>1 DEF Marked
<1>3. ASSUME NEW f \in Visible(r, OutgoingType(r))
      PROVE  Outgoing(r)[f] \in {"value", "secret"}
  <2>1. f \in Fields /\ r.fields[f] # "absent" /\ r.fields[f] \in Contents
    BY RequestType DEF Visible
  <2>2. Outgoing(r)[f] \notin {"empty", "marker"}
    BY <1>1, <2>1 DEF Marked
  <2>3. Outgoing(r)[f] \in {r.fields[f], "secret", "empty"}
    BY <2>1 DEF Outgoing
  <2> QED
    BY <2>1, <2>2, <2>3 DEF Contents
<1> QED
  BY <1>1, <1>2, <1>3 DEF Resolved

\* A request is refused for want of a value if it can be sent otherwise, and one
\* of its fields is not among those the preflight found.
LEMMA NoValueIsNotNeeded ==
    ASSUME NEW id \in DOMAIN rows, rows[id] \in Samples, config \in Configs,
           config.override = "none", Refusal(rows[id]) = "novalue"
    PROVE  ~(Needs(id) \subseteq needed)
<1> DEFINE r == rows[id]
<1>1. OutgoingType(r) = r.body
  BY DEF OutgoingType
<1>2. r.whole = "whole" /\ ~Unclear(r, r.body) /\ \E f \in Fields : Outgoing(r)[f] = "empty"
  BY <1>1 DEF Refusal
<1>3. PICK f \in Fields : Outgoing(r)[f] = "empty"
  BY <1>2
<1>4. r.fields[f] # "empty"
  BY <1>3, RequestType DEF Contents
<1>5. f \in Matched(r, r.body) /\ f \notin needed
  BY <1>1, <1>3, <1>4 DEF Outgoing
<1> QED
  BY <1>2, <1>5 DEF Needs

\* A reason to refuse is a reason.
LEMMA RefusalType ==
    ASSUME NEW r
    PROVE  Refusal(r) \in Reasons
  BY DEF Refusal, Reasons

\* Inserting an element keeps the others.
LEMMA Inserted ==
    ASSUME NEW S, NEW s \in Seq(S), NEW place \in 1 .. Len(s) + 1, NEW e \in S
    PROVE  LET t == InsertAt(s, place, e)
           IN  /\ t \in Seq(S) /\ Len(t) = Len(s) + 1 /\ t[place] = e
               /\ \A i \in 1 .. place - 1 : t[i] = s[i]
               /\ \A i \in place .. Len(s) : t[i + 1] = s[i]
               /\ \A i \in DOMAIN s : \E j \in DOMAIN t : t[j] = s[i]
<1> DEFINE front == SubSeq(s, 1, place - 1)
           rest  == SubSeq(s, place, Len(s))
           t     == InsertAt(s, place, e)
<1>1. /\ front \in Seq(S) /\ Len(front) = place - 1
      /\ \A i \in 1 .. place - 1 : front[i] = s[i]
  OBVIOUS
<1>2. /\ rest \in Seq(S) /\ Len(rest) = Len(s) - place + 1
      /\ \A i \in 1 .. Len(s) - place + 1 : rest[i] = s[place + i - 1]
  OBVIOUS
<1>3. t = front \o << e >> \o rest
  BY DEF InsertAt
<1> HIDE DEF front, rest, t
<1>4. /\ t \in Seq(S) /\ Len(t) = Len(s) + 1 /\ t[place] = e
      /\ \A i \in 1 .. place - 1 : t[i] = s[i]
      /\ \A i \in place .. Len(s) : t[i + 1] = s[i]
  <2> DEFINE head == front \o << e >>
  <2>1. /\ head \in Seq(S) /\ Len(head) = place /\ head[place] = e
        /\ \A i \in 1 .. place - 1 : head[i] = front[i]
    BY <1>1
  <2> HIDE DEF head
  <2>2. t \in Seq(S) /\ Len(t) = Len(s) + 1
    <3>1. t = head \o rest
      BY <1>3 DEF head
    <3>2. head \o rest \in Seq(S) /\ Len(head \o rest) = Len(head) + Len(rest)
      BY <1>2, <2>1, ConcatProperties
    <3>3. Len(s) \in Nat
      OBVIOUS
    <3> QED
      BY <1>2, <2>1, <3>1, <3>2, <3>3
  <2>3. /\ \A i \in 1 .. place : t[i] = head[i]
        /\ \A i \in place + 1 .. Len(s) + 1 : t[i] = rest[i - place]
    BY <1>2, <1>3, <2>1, <2>2 DEF head
  <2>4. t[place] = e /\ \A i \in 1 .. place - 1 : t[i] = s[i]
    BY <1>1, <2>1, <2>3
  <2>5. ASSUME NEW i \in place .. Len(s) PROVE t[i + 1] = s[i]
    BY <1>2, <2>3
  <2> QED
    BY <2>2, <2>4, <2>5
<1>5. ASSUME NEW i \in DOMAIN s PROVE \E j \in DOMAIN t : t[j] = s[i]
  <2>1. CASE i < place
    BY <1>4, <2>1
  <2>2. CASE i >= place
    <3>1. i + 1 \in DOMAIN t /\ t[i + 1] = s[i]
      BY <1>4, <2>2
    <3> QED
      BY <3>1
  <2> QED
    BY <2>1, <2>2
<1> QED
  BY <1>4, <1>5 DEF t

-----------------------------------------------------------------------------
(* Types, and the shape of the recording and of the plan. *)

Shape == TypeOK /\ RecordingInv /\ PlanInv

\* At first the recording lists itself in order, and there is no plan.
LEMMA ShapeInit == Init => Shape
<1> SUFFICES ASSUME Init PROVE Shape
  OBVIOUS
<1>1. PICK n \in 0 .. MaxRows :
         rows \in [1 .. n -> Samples] /\ order = [i \in 1 .. n |-> i] /\ recorded = n
  BY DEF Init
<1>2. MaxRows \in Nat /\ n \in Nat
  BY <1>1, ConfigsAssumption
<1>3. rows \in Seq(Samples) /\ Len(rows) = n
  BY <1>1, <1>2
<1>4. order \in Seq(IDs) /\ Len(order) = n
  BY <1>1, <1>2 DEF IDs
<1>5. RecordingInv
  <2>1. ASSUME NEW id \in DOMAIN rows PROVE \E i \in DOMAIN order : order[i] = id
    BY <1>1, <2>1
  <2> QED
    BY <1>1, <1>2, <1>3, <1>4, <2>1 DEF RecordingInv
<1>6. PlanInv
  BY <1>2 DEF Init, PlanInv
<1>7. TypeOK
  <2>1. recorded \in 0 .. MaxRows /\ next \in 1 .. MaxRows + 1
    BY <1>1, <1>2 DEF Init
  <2>2. /\ plan \in Seq(IDs)
        /\ sent \in Seq([id : IDs, body : BodyTypes,
                         fields : [Fields -> Contents \cup {"secret", "empty"}]])
        /\ results \in Seq([id : IDs, why : Reasons, reply : Replies, outcome : Outcomes])
    BY DEF Init
  <2> QED
    BY <1>3, <1>4, <2>1, <2>2 DEF Init, TypeOK
<1> QED
  BY <1>5, <1>6, <1>7 DEF Shape

\* The plan of a command has a place in the recording.
LEMMA SelectedType ==
    ASSUME Shape
    PROVE  Selected \in Seq(IDs) /\ Len(Selected) <= MaxRows
<1>1. CASE config.id = All
  BY <1>1 DEF Shape, Selected, TypeOK, RecordingInv
<1>2. CASE config.id # All
  <2>1. config.id \in 1 .. MaxRows /\ MaxRows \in Nat
    BY <1>2, ConfigType DEF Shape, TypeOK
  <2> QED
    BY <1>2, <2>1 DEF Selected, IDs
<1> QED
  BY <1>1, <1>2

\* A result is added for the exchange at hand.
LEMMA ConcludeShape ==
    ASSUME Shape, next <= Len(plan), main' = "execute",
           NEW why \in Reasons, NEW reply \in Replies, NEW outcome \in Outcomes,
           Conclude(why, reply, outcome),
           UNCHANGED <<fixedVars, recordingVars, plan, needed, seen, sent, ctxDone, code>>
    PROVE  Shape'
<1>1. next \in 1 .. Len(plan) /\ plan[next] \in IDs /\ next' = next + 1 /\ MaxRows \in Nat
  BY ConfigsAssumption DEF Shape, TypeOK, PlanInv, Conclude
<1>2. next' \in 1 .. MaxRows + 1 /\ next' <= Len(plan) + 1
  BY <1>1 DEF Shape, TypeOK, PlanInv
<1>3. results' \in Seq([id : IDs, why : Reasons, reply : Replies, outcome : Outcomes])
  BY <1>1 DEF Shape, TypeOK, Conclude
<1>4. TypeOK'
  BY <1>2, <1>3 DEF Shape, TypeOK, fixedVars, recordingVars
<1>5. RecordingInv' /\ PlanInv'
  BY <1>2 DEF Shape, RecordingInv, PlanInv, fixedVars, recordingVars
<1> QED
  BY <1>4, <1>5 DEF Shape

\* A row is recorded: it gets a place in the order.
LEMMA RecordShape ==
    ASSUME Shape, Record
    PROVE  Shape' /\ Len(rows') = Len(rows) + 1 /\ \A i \in DOMAIN rows : rows'[i] = rows[i]
<1>1. PICK r \in Samples : rows' = Append(rows, r)
  BY DEF Record
<1>2. PICK place \in 1 .. Len(order) + 1 : order' = InsertAt(order, place, Len(rows) + 1)
  BY DEF Record
<1>3. /\ rows \in Seq(Samples) /\ order \in Seq(IDs) /\ Len(order) = Len(rows)
      /\ Len(rows) < MaxRows /\ MaxRows \in Nat /\ Len(rows) + 1 \in IDs
  BY ConfigsAssumption DEF Shape, TypeOK, RecordingInv, Record, IDs
<1>4. /\ rows' \in Seq(Samples) /\ Len(rows') = Len(rows) + 1
      /\ \A i \in DOMAIN rows : rows'[i] = rows[i]
  BY <1>1, <1>3
<1>5. /\ order' \in Seq(IDs) /\ Len(order') = Len(order) + 1 /\ order'[place] = Len(rows) + 1
      /\ \A i \in DOMAIN order : \E j \in DOMAIN order' : order'[j] = order[i]
  BY <1>2, <1>3, Inserted
<1>6. RecordingInv'
  <2>1. ASSUME NEW id \in DOMAIN rows' PROVE \E i \in DOMAIN order' : order'[i] = id
    <3>1. CASE id \in DOMAIN rows
      BY <1>5, <3>1 DEF Shape, RecordingInv
    <3>2. CASE id = Len(rows) + 1
      BY <1>3, <1>5, <3>2
    <3> QED
      BY <1>3, <1>4, <3>1, <3>2
  <2>2. recorded' = recorded /\ recorded \in Nat /\ recorded <= Len(rows)
    BY <1>3 DEF Shape, TypeOK, RecordingInv, Record, fixedVars
  <2> QED
    BY <1>3, <1>4, <1>5, <2>1, <2>2 DEF RecordingInv
<1>7. PlanInv'
  BY DEF Shape, PlanInv, Record
<1>8. TypeOK'
  BY <1>4, <1>5 DEF Shape, TypeOK, Record, fixedVars
<1> QED
  BY <1>4, <1>6, <1>7, <1>8 DEF Shape

\* Every step keeps the shape.
LEMMA ShapeStep == Shape /\ [Next]_vars => Shape'
<1> SUFFICES ASSUME Shape, [Next]_vars PROVE Shape'
  OBVIOUS
<1> USE DEF fixedVars, recordingVars
<1>0. MaxRows \in Nat /\ config \in Configs /\ next \in Nat /\ Len(plan) \in Nat
  BY ConfigsAssumption DEF Shape, TypeOK
<1>1. CASE Open
  <2>1. TypeOK'
    BY <1>1 DEF Shape, TypeOK, Open, End
  <2> QED
    BY <1>1, <2>1 DEF Shape, RecordingInv, PlanInv, Open, End
<1>2. CASE PreflightList
  <2>1. plan' \in Seq(IDs) /\ Len(plan') <= MaxRows /\ next' = 1 /\ 1 \in 1 .. MaxRows + 1
    BY <1>0, <1>2, SelectedType DEF PreflightList
  <2>2. TypeOK'
    BY <1>2, <2>1 DEF Shape, TypeOK, PreflightList
  <2>3. PlanInv'
    BY <1>2, <2>1 DEF PlanInv, PreflightList
  <2> QED
    BY <1>2, <2>2, <2>3 DEF Shape, RecordingInv, PreflightList
<1>3. CASE Inspect
  <2>1. next' \in 1 .. MaxRows + 1 /\ next' <= Len(plan) + 1
    BY <1>0, <1>3 DEF Shape, TypeOK, PlanInv, Inspect
  <2>2. plan[next] \in IDs
    BY <1>0, <1>3 DEF Shape, TypeOK, Inspect
  <2>3. needed' \subseteq config.rules /\ seen' \subseteq IDs
    BY <1>3, <2>2, NeedsRules DEF Shape, TypeOK, Inspect
  <2>4. TypeOK'
    BY <1>3, <2>1, <2>3 DEF Shape, TypeOK, Inspect
  <2>5. PlanInv'
    BY <1>3, <2>1 DEF Shape, PlanInv, Inspect
  <2> QED
    BY <1>3, <2>4, <2>5 DEF Shape, RecordingInv, Inspect
<1>4. CASE Resolve
  <2>1. TypeOK'
    BY <1>4 DEF Shape, TypeOK, Resolve, End
  <2> QED
    BY <1>4, <2>1 DEF Shape, RecordingInv, PlanInv, Resolve, End
<1>5. CASE RunList
  <2>1. plan' \in Seq(IDs) /\ Len(plan') <= MaxRows /\ next' = 1 /\ 1 \in 1 .. MaxRows + 1
    BY <1>0, <1>5, SelectedType DEF RunList
  <2>2. TypeOK'
    BY <1>5, <2>1 DEF Shape, TypeOK, RunList
  <2>3. PlanInv'
    BY <1>5, <2>1 DEF PlanInv, RunList
  <2> QED
    BY <1>5, <2>2, <2>3 DEF Shape, RecordingInv, RunList
<1>6. CASE Refuse
  <2>1. Refusal(rows[plan[next]]) \in Reasons /\ "unsent" \in Replies /\ "failed" \in Outcomes
    BY RefusalType DEF Replies, Outcomes
  <2> QED
    BY <1>6, <2>1, ConcludeShape DEF Refuse
<1>7. CASE Send
  <2>1. plan[next] \in IDs /\ rows[plan[next]] \in Samples
    BY <1>0, <1>7 DEF Shape, TypeOK, Send
  <2>2. sent' \in Seq([id : IDs, body : BodyTypes,
                       fields : [Fields -> Contents \cup {"secret", "empty"}]])
    BY <1>0, <1>7, <2>1, OutgoingIsRequest DEF Shape, TypeOK, Send
  <2>3. TypeOK'
    BY <1>7, <2>2 DEF Shape, TypeOK, Send
  <2> QED
    BY <1>7, <2>3 DEF Shape, RecordingInv, PlanInv, Send
<1>8. CASE NotFound
  <2>1. TypeOK'
    BY <1>8 DEF Shape, TypeOK, NotFound, End
  <2> QED
    BY <1>8, <2>1 DEF Shape, RecordingInv, PlanInv, NotFound, End
<1>9. CASE Timeout
  <2>1. PICK reply \in {"none", "broken"} : Conclude("none", reply, "failed")
    BY <1>9 DEF Timeout
  <2>2. reply \in Replies /\ "none" \in Reasons /\ "failed" \in Outcomes
    BY DEF Replies, Reasons, Outcomes
  <2>3. next <= Len(plan)
    BY <1>9 DEF Shape, PlanInv, Timeout
  <2> QED
    BY <1>9, <2>1, <2>2, <2>3, ConcludeShape DEF Timeout
<1>10. CASE ReadFails
  <2>1. results' = << >>
    BY <1>10 DEF ReadFails
  <2>2. TypeOK'
    BY <1>10, <2>1 DEF Shape, TypeOK, ReadFails, End
  <2> QED
    BY <1>10, <2>2 DEF Shape, RecordingInv, PlanInv, ReadFails, End
<1>11. CASE Finish
  <2>1. ExitCode \in {"success", "changed", "network", "failed"}
    BY DEF ExitCode
  <2>2. TypeOK'
    BY <1>11, <2>1 DEF Shape, TypeOK, Finish, End
  <2> QED
    BY <1>11, <2>2 DEF Shape, RecordingInv, PlanInv, Finish, End
<1>12. CASE Answer
  <2>1. PICK reply \in {"broken", "whole"}, available \in BOOLEAN, same \in BOOLEAN :
           Conclude("none", reply, Outcome(reply, available, same))
    BY <1>12 DEF Answer
  <2>2. /\ reply \in Replies /\ "none" \in Reasons
        /\ Outcome(reply, available, same) \in Outcomes
    BY DEF Replies, Reasons, Outcomes, Outcome
  <2>3. next <= Len(plan)
    BY <1>12 DEF Shape, PlanInv, Answer
  <2> QED
    BY <1>12, <2>1, <2>2, <2>3, ConcludeShape DEF Answer
<1>13. CASE Signal
  <2>1. TypeOK'
    BY <1>13 DEF Shape, TypeOK, Signal
  <2> QED
    BY <1>13, <2>1 DEF Shape, RecordingInv, PlanInv, Signal
<1>14. CASE Record
  BY <1>14, RecordShape
<1>15. CASE UNCHANGED vars
  <2>1. TypeOK'
    BY <1>15 DEF Shape, TypeOK, vars
  <2> QED
    BY <1>15, <2>1 DEF Shape, RecordingInv, PlanInv, vars
<1> QED
  BY <1>1, <1>2, <1>3, <1>4, <1>5, <1>6, <1>7, <1>8, <1>9, <1>10, <1>11, <1>12, <1>13, <1>14,
     <1>15 DEF Next, Command

-----------------------------------------------------------------------------
(* What the preflight has seen, and what was sent. *)

\* No step changes the command line or a row, so that what an exchange needs is
\* fixed when it is recorded.
LEMMA RowsStay ==
    ASSUME Shape, [Next]_vars
    PROVE  /\ config' = config /\ Chosen' = Chosen /\ Chosen \subseteq DOMAIN rows
           /\ DOMAIN rows \subseteq DOMAIN rows'
           /\ \A id \in DOMAIN rows : rows'[id] = rows[id] /\ Needs(id)' = Needs(id)
<1>1. config' = config /\ recorded' = recorded
  BY DEF Next, Command, Open, PreflightList, Inspect, Resolve, RunList, Refuse, Send, NotFound,
         Timeout, ReadFails, Finish, Answer, Signal, Record, fixedVars, vars
<1>2. DOMAIN rows \subseteq DOMAIN rows' /\ \A id \in DOMAIN rows : rows'[id] = rows[id]
  <2>1. CASE Record
    <3>1. rows \in Seq(Samples) /\ rows' \in Seq(Samples) /\ Len(rows') = Len(rows) + 1
      BY <2>1, RecordShape DEF Shape, TypeOK
    <3> QED
      BY <2>1, <3>1, RecordShape
  <2>2. CASE rows' = rows
    BY <2>2
  <2>3. Record \/ rows' = rows
    BY DEF Next, Command, Open, PreflightList, Inspect, Resolve, RunList, Refuse, Send, NotFound,
           Timeout, ReadFails, Finish, Answer, Signal, recordingVars, vars
  <2> QED
    BY <2>1, <2>2, <2>3
<1>3. ASSUME NEW id \in DOMAIN rows PROVE Needs(id)' = Needs(id)
  BY <1>1, <1>2 DEF Needs, Unclear, Matched, Visible
<1>4. Chosen' = Chosen
  BY <1>1 DEF Chosen
<1>5. Chosen \subseteq DOMAIN rows
  BY DEF Shape, TypeOK, RecordingInv, Chosen
<1> QED
  BY <1>1, <1>2, <1>3, <1>4, <1>5

\* What is chosen is in the plan that the preflight makes.
LEMMA ChosenIsSelected ==
    ASSUME Shape, NEW id \in Chosen
    PROVE  \E i \in DOMAIN Selected : Selected[i] = id
<1>1. CASE config.id = All
  <2>1. id \in DOMAIN rows /\ Selected = order
    BY <1>1 DEF Shape, TypeOK, RecordingInv, Chosen, Selected
  <2> QED
    BY <2>1 DEF Shape, RecordingInv
<1>2. CASE config.id # All
  <2>1. Selected = << id >>
    BY <1>2 DEF Chosen, Selected
  <2> QED
    BY <2>1
<1> QED
  BY <1>1, <1>2

\* Every step keeps what the preflight knows.
LEMMA PreflightStep == Shape /\ PreflightInv /\ [Next]_vars => PreflightInv'
<1> SUFFICES ASSUME Shape, PreflightInv, [Next]_vars PROVE PreflightInv'
  OBVIOUS
<1> USE DEF fixedVars, recordingVars
<1>0. /\ config' = config /\ Chosen' = Chosen /\ Chosen \subseteq DOMAIN rows
      /\ DOMAIN rows \subseteq DOMAIN rows'
      /\ \A id \in DOMAIN rows : Needs(id)' = Needs(id)
  BY RowsStay
<1>1. CASE Open
  <2>1. main' = "run" => \A id \in Chosen : Needs(id) \subseteq config.env
    BY <1>1, NeedsRules DEF Open, End
  <2> QED
    BY <1>0, <1>1, <2>1 DEF PreflightInv, Open, End
<1>2. CASE PreflightList
  <2>1. \A id \in Chosen : \E i \in DOMAIN plan' :
           plan'[i] = id /\ (i < next' => Needs(id)' \subseteq needed')
    BY <1>0, <1>2, ChosenIsSelected, SelectedType DEF PreflightList
  <2> QED
    BY <1>0, <1>2, <2>1 DEF PreflightInv, PreflightList
<1>3. CASE Inspect
  <2>1. needed \subseteq needed'
    BY <1>3 DEF Inspect
  <2>2. plan[next] \in DOMAIN rows =>
           seen' = seen \cup {plan[next]} /\ Needs(plan[next]) \subseteq needed'
    BY <1>3 DEF Inspect
  <2>3. plan[next] \notin DOMAIN rows => seen' = seen
    BY <1>3 DEF Inspect
  <2>4. \A id \in seen' : id \in DOMAIN rows' /\ Needs(id)' \subseteq needed'
    BY <1>0, <2>1, <2>2, <2>3 DEF PreflightInv
  <2>5. ASSUME NEW id \in Chosen
        PROVE  \E i \in DOMAIN plan' :
                  plan'[i] = id /\ (i < next' => Needs(id)' \subseteq needed')
    <3>1. PICK i \in DOMAIN plan : plan[i] = id /\ (i < next => Needs(id) \subseteq needed)
      BY <1>3 DEF PreflightInv, Inspect
    <3>2. id \in DOMAIN rows /\ Needs(id)' = Needs(id) /\ plan' = plan /\ next' = next + 1
      BY <1>0, <1>3 DEF Inspect
    <3>3. i < next' => i < next \/ i = next
      BY <3>1, <3>2 DEF Shape, TypeOK
    <3>4. i < next' => Needs(id) \subseteq needed'
      BY <2>1, <2>2, <3>1, <3>2, <3>3
    <3> QED
      BY <3>1, <3>2, <3>4
  <2> QED
    BY <1>0, <1>3, <2>4, <2>5 DEF PreflightInv, Inspect
<1>4. CASE Resolve
  <2>1. \A id \in Chosen : Needs(id) \subseteq needed
    <3>1. \A i \in DOMAIN plan : i < next
      BY <1>4 DEF Shape, TypeOK, Resolve
    <3> QED
      BY <1>4, <3>1 DEF PreflightInv, Resolve
  <2>2. main' = "run" => \A id \in Chosen : Needs(id) \subseteq config.env
    BY <1>4, <2>1 DEF Resolve, End
  <2> QED
    BY <1>0, <1>4, <2>2 DEF PreflightInv, Resolve, End
<1>5. CASE RunList
  BY <1>0, <1>5 DEF PreflightInv, RunList
<1>6. CASE Refuse
  BY <1>0, <1>6 DEF PreflightInv, Refuse
<1>7. CASE Send
  BY <1>0, <1>7 DEF PreflightInv, Send
<1>8. CASE NotFound
  BY <1>0, <1>8 DEF PreflightInv, NotFound, End
<1>9. CASE Timeout
  BY <1>0, <1>9 DEF PreflightInv, Timeout
<1>10. CASE ReadFails
  BY <1>0, <1>10 DEF PreflightInv, ReadFails, End
<1>11. CASE Finish
  BY <1>0, <1>11 DEF PreflightInv, Finish, End
<1>12. CASE Answer
  BY <1>0, <1>12 DEF PreflightInv, Answer
<1>13. CASE Signal
  BY <1>0, <1>13 DEF PreflightInv, Signal
<1>14. CASE Record
  BY <1>0, <1>14 DEF PreflightInv, Record
<1>15. CASE UNCHANGED vars
  BY <1>0, <1>15 DEF PreflightInv, vars
<1> QED
  BY <1>1, <1>2, <1>3, <1>4, <1>5, <1>6, <1>7, <1>8, <1>9, <1>10, <1>11, <1>12, <1>13, <1>14,
     <1>15 DEF Next, Command

\* A request that goes out is resolved, and what it stands for stays.
LEMMA SentStep ==
    Shape /\ SentInv /\ NothingUnresolvedSent /\ [Next]_vars =>
        SentInv' /\ NothingUnresolvedSent'
<1> SUFFICES ASSUME Shape, SentInv, NothingUnresolvedSent, [Next]_vars
             PROVE  SentInv' /\ NothingUnresolvedSent'
  OBVIOUS
<1>1. DOMAIN rows \subseteq DOMAIN rows' /\ \A id \in DOMAIN rows : rows'[id] = rows[id]
  BY RowsStay
<1>2. CASE Send
  <2> DEFINE id == plan[next]
             request == [id |-> id, body |-> OutgoingType(rows[id]), fields |-> Outgoing(rows[id])]
  <2>1. id \in DOMAIN rows /\ rows[id] \in Samples /\ config \in Configs
    BY <1>2 DEF Shape, TypeOK, Send
  <2>2. Resolved(rows[id], request) /\ request.id = id
    BY <1>2, <2>1, UnrefusedIsResolved DEF Send
  <2>3. sent' = Append(sent, request)
    BY <1>2 DEF Send
  <2>4. sent \in Seq([id : IDs, body : BodyTypes,
                      fields : [Fields -> Contents \cup {"secret", "empty"}]])
    BY DEF Shape, TypeOK
  <2> HIDE DEF request, id
  <2>5. ASSUME NEW i \in DOMAIN sent'
        PROVE  sent'[i] = request \/ (i \in DOMAIN sent /\ sent'[i] = sent[i])
    BY <2>3, <2>4
  <2>6. ASSUME NEW i \in DOMAIN sent'
        PROVE  sent'[i].id \in DOMAIN rows' /\ Resolved(rows'[sent'[i].id], sent'[i])
    BY <1>1, <2>1, <2>2, <2>5 DEF SentInv, NothingUnresolvedSent
  <2> QED
    BY <2>6 DEF SentInv, NothingUnresolvedSent
<1>3. CASE sent' = sent
  BY <1>1, <1>3 DEF SentInv, NothingUnresolvedSent
<1>4. Send \/ sent' = sent
  BY DEF Next, Command, Open, PreflightList, Inspect, Resolve, RunList, Refuse, NotFound,
         Timeout, ReadFails, Finish, Answer, Signal, Record, vars
<1> QED
  BY <1>2, <1>3, <1>4

\* An exchange that the preflight has seen has its values.
LEMMA MissingStep ==
    Shape /\ PreflightInv /\ MissingValueIsNew /\ [Next]_vars => MissingValueIsNew'
<1> SUFFICES ASSUME Shape, PreflightInv, MissingValueIsNew, [Next]_vars
             PROVE  MissingValueIsNew'
  OBVIOUS
<1> USE DEF fixedVars, recordingVars
<1>0. results \in Seq([id : IDs, why : Reasons, reply : Replies, outcome : Outcomes])
  BY DEF Shape, TypeOK
<1>1. CASE Refuse
  <2> DEFINE why == Refusal(rows[plan[next]])
             result == [id |-> plan[next], why |-> why, reply |-> "unsent", outcome |-> "failed"]
  <2>1. results' = Append(results, result) /\ seen' = seen /\ config' = config
    BY <1>1 DEF Refuse, Conclude
  <2>2. ASSUME why = "novalue", config.override = "none" PROVE plan[next] \notin seen
    <3>1. /\ plan[next] \in DOMAIN rows /\ rows[plan[next]] \in Samples /\ config \in Configs
      BY <1>1 DEF Shape, TypeOK, Refuse
    <3> QED
      BY <2>2, <3>1, NoValueIsNotNeeded DEF PreflightInv
  <2>3. result.id = plan[next] /\ result.why = why
    OBVIOUS
  <2> HIDE DEF result, why
  <2>4. ASSUME NEW i \in DOMAIN results'
        PROVE  results'[i] = result \/ (i \in DOMAIN results /\ results'[i] = results[i])
    BY <1>0, <2>1
  <2> QED
    BY <2>1, <2>2, <2>3, <2>4 DEF MissingValueIsNew
<1>2. CASE Timeout \/ Answer
  <2>1. PICK reply, outcome :
           results' = Append(results, [id |-> plan[next], why |-> "none", reply |-> reply,
                                       outcome |-> outcome])
    BY <1>2 DEF Timeout, Answer, Conclude
  <2>2. seen' = seen /\ config' = config
    BY <1>2 DEF Timeout, Answer
  <2>3. ASSUME NEW i \in DOMAIN results'
        PROVE  results'[i].why = "none" \/ (i \in DOMAIN results /\ results'[i] = results[i])
    BY <1>0, <2>1
  <2> QED
    BY <2>2, <2>3 DEF MissingValueIsNew
<1>3. CASE Inspect
  BY <1>3 DEF PreflightInv, MissingValueIsNew, Inspect
<1>4. CASE ReadFails
  BY <1>4 DEF MissingValueIsNew, ReadFails
<1>5. CASE UNCHANGED <<results, seen, config>>
  BY <1>5 DEF MissingValueIsNew
<1>6. Refuse \/ Timeout \/ Answer \/ Inspect \/ ReadFails \/ UNCHANGED <<results, seen, config>>
  BY DEF Next, Command, Open, PreflightList, Resolve, RunList, Send, NotFound, Finish, Signal,
         Record, End, vars
<1> QED
  BY <1>1, <1>2, <1>3, <1>4, <1>5, <1>6

-----------------------------------------------------------------------------
(* The theorems. *)

\* The parts of the inductive invariant hold at first and are kept.
LEMMA Inductive == (Init => IInv) /\ (IInv /\ [Next]_vars => IInv')
<1>1. Init => IInv
  <2> SUFFICES ASSUME Init PROVE IInv
    OBVIOUS
  <2>1. Shape
    BY ShapeInit
  <2>2. main = "open" /\ sent = << >> /\ results = << >> /\ seen = {}
    BY DEF Init
  <2> QED
    BY <2>1, <2>2 DEF Shape, IInv, PreflightInv, SentInv, NothingUnresolvedSent, MissingValueIsNew
<1>2. IInv /\ [Next]_vars => IInv'
  BY ShapeStep, PreflightStep, SentStep, MissingStep DEF Shape, IInv
<1> QED
  BY <1>1, <1>2

\* The commands of graybox replay and graybox diff keep what ties the recording,
\* the plan, the preflight and the requests to each other.
THEOREM Invariant == Spec => []IInv
  BY Inductive, PTL DEF Spec

\* Every reachable state is well typed.
THEOREM TypeCorrect == Spec => []TypeOK
<1>1. IInv => TypeOK
  BY DEF IInv
<1> QED
  BY <1>1, Invariant, PTL

\* Runner.execute sends no request in part, with a marker, or with an empty
\* replacement, whatever is recorded meanwhile.
THEOREM NothingUnresolved == Spec => []NothingUnresolvedSent
<1>1. IInv => NothingUnresolvedSent
  BY DEF IInv
<1> QED
  BY <1>1, Invariant, PTL

\* resolveApplicableReplacements finds every missing credential of what was
\* recorded before the command, and chosen, before the first request.
THEOREM CredentialsFirst == Spec => []MissingCredentialSendsNothing
<1>1. IInv => MissingCredentialSendsNothing
  BY DEF IInv, PreflightInv, Chosen, MissingCredentialSendsNothing
<1> QED
  BY <1>1, Invariant, PTL

\* Replacements.apply misses a value only in an exchange that is newer than the
\* preflight, or that goes out under another Content-Type.
THEOREM MissingIsNew == Spec => []MissingValueIsNew
<1>1. IInv => MissingValueIsNew
  BY DEF IInv
<1> QED
  BY <1>1, Invariant, PTL

-----------------------------------------------------------------------------
(* Refinement: a command is a behaviour of the replay ledger. *)

\* A row that is added has a place of its own in the order.
LEMMA RecordKeepsOrder ==
    ASSUME Shape, LedgerInv, Record
    PROVE  IsInjective(order)' /\ (\A i \in DOMAIN order : order[i] <= Len(rows))'
<1> DEFINE id == Len(rows) + 1
<1>1. PICK place \in 1 .. Len(order) + 1 : order' = InsertAt(order, place, id)
  BY DEF Record
<1>2. /\ order \in Seq(IDs) /\ id \in IDs /\ Len(rows) \in Nat /\ Len(rows') = Len(rows) + 1
      /\ Len(order) \in Nat
  BY ConfigsAssumption, RecordShape DEF Shape, TypeOK, RecordingInv, Record, IDs
<1>3. /\ order' \in Seq(IDs) /\ Len(order') = Len(order) + 1 /\ order'[place] = id
      /\ \A i \in 1 .. place - 1 : order'[i] = order[i]
      /\ \A i \in place .. Len(order) : order'[i + 1] = order[i]
  BY <1>1, <1>2, Inserted
<1> DEFINE old(i) == IF i < place THEN i ELSE i - 1
<1>4. ASSUME NEW i \in DOMAIN order', i # place
      PROVE  old(i) \in DOMAIN order /\ order'[i] = order[old(i)]
  <2>1. i \in 1 .. Len(order) + 1
    BY <1>2, <1>3
  <2>2. CASE i < place
    BY <1>2, <1>3, <2>1, <2>2
  <2>3. CASE i > place
    <3>1. i - 1 \in place .. Len(order) /\ (i - 1) + 1 = i
      BY <1>2, <2>1, <2>3
    <3> QED
      BY <1>2, <1>3, <2>3, <3>1
  <2> QED
    BY <1>2, <1>4, <2>1, <2>2, <2>3
<1>5. \A i \in DOMAIN order : order[i] \in Nat /\ order[i] <= Len(rows)
  <2>1. \A i \in DOMAIN order : order[i] \in IDs
    BY <1>2
  <2>2. IDs \subseteq Nat
    BY ConfigsAssumption DEF IDs
  <2> QED
    BY <2>1, <2>2 DEF LedgerInv
<1>6. ASSUME NEW a \in DOMAIN order', NEW b \in DOMAIN order', order'[a] = order'[b]
      PROVE  a = b
  <2>1. a \in Int /\ b \in Int
    BY <1>3
  <2>2. CASE a # place /\ b # place
    <3>1. old(a) = old(b)
      BY <1>4, <1>6, <2>2 DEF LedgerInv, IsInjective
    <3> QED
      BY <2>1, <2>2, <3>1
  <2>3. CASE a = place \/ b = place
    <3>1. order'[place] \notin {order[i] : i \in DOMAIN order}
      BY <1>2, <1>3, <1>5
    <3> QED
      BY <1>4, <1>6, <2>3, <3>1
  <2> QED
    BY <2>2, <2>3
<1>7. ASSUME NEW i \in DOMAIN order' PROVE order'[i] <= Len(rows')
  BY <1>2, <1>3, <1>4, <1>5
<1> QED
  BY <1>6, <1>7 DEF IsInjective

\* At first nothing is listed twice or sent.
LEMMA LedgerInit == Init => LedgerInv
<1> SUFFICES ASSUME Init PROVE LedgerInv
  OBVIOUS
<1>1. PICK n \in 0 .. MaxRows :
         rows \in [1 .. n -> Samples] /\ order = [i \in 1 .. n |-> i]
  BY DEF Init
<1>2. IsInjective(order)
  BY <1>1 DEF IsInjective
<1>3. n \in Nat /\ Len(rows) = n
  BY <1>1, ConfigsAssumption
<1>4. \A i \in DOMAIN order : order[i] <= Len(rows)
  BY <1>1, <1>3
<1> QED
  BY <1>2, <1>4 DEF Init, LedgerInv

\* Each step keeps as many results as exchanges lie behind.
LEMMA LedgerStep == Shape /\ LedgerInv /\ [Next]_vars => LedgerInv'
<1> SUFFICES ASSUME Shape, LedgerInv, [Next]_vars PROVE LedgerInv'
  OBVIOUS
<1> USE DEF fixedVars, recordingVars
<1>1. /\ results \in Seq([id : IDs, why : Reasons, reply : Replies, outcome : Outcomes])
      /\ next \in Nat
  BY ConfigsAssumption DEF Shape, TypeOK
<1>2. CASE Record
  BY <1>2, RecordKeepsOrder DEF LedgerInv, Record
<1>3. CASE Refuse \/ Answer \/ Timeout
  <2>1. /\ main \in {"execute", "wait"} /\ main' = "execute" /\ UNCHANGED <<rows, order>>
        /\ next' = next + 1
        /\ \E e : results' = Append(results, e)
    BY <1>3 DEF Refuse, Answer, Timeout, Conclude
  <2>2. Len(results') = Len(results) + 1
    BY <1>1, <2>1
  <2> QED
    BY <1>1, <2>1, <2>2 DEF LedgerInv
<1>4. CASE Open \/ PreflightList \/ Inspect \/ Resolve
  BY <1>4 DEF LedgerInv, Open, PreflightList, Inspect, Resolve, End
<1>5. CASE RunList
  BY <1>1, <1>5 DEF LedgerInv, RunList
<1>6. CASE Send \/ NotFound \/ Finish \/ ReadFails \/ Signal
  BY <1>6 DEF LedgerInv, Send, NotFound, Finish, ReadFails, Signal, End
<1>7. CASE UNCHANGED vars
  BY <1>7 DEF LedgerInv, vars
<1> QED
  BY <1>2, <1>3, <1>4, <1>5, <1>6, <1>7 DEF Next, Command

\* The list of a run has no exchange twice.
LEMMA SelectedOnce == Shape /\ LedgerInv => IsInjective(Selected)
  BY DEF LedgerInv, Selected, IsInjective

\* A result that is added is an entry that is added.
LEMMA ReportGrows ==
    ASSUME Shape, Running, Running', NEW e, results' = Append(results, e)
    PROVE  LedgerReport' = Append(LedgerReport, LedgerEntry(e))
<1> DEFINE report == [i \in DOMAIN results |-> LedgerEntry(results[i])]
<1>1. /\ LedgerReport = report
      /\ LedgerReport' = [i \in DOMAIN results' |-> LedgerEntry(results'[i])]
  BY DEF LedgerReport, Reported, LedgerEntry, LedgerVerdict
<1>2. results \in Seq([id : IDs, why : Reasons, reply : Replies, outcome : Outcomes])
  BY DEF Shape, TypeOK
<1>3. /\ Len(results) \in Nat /\ DOMAIN results = 1 .. Len(results)
      /\ DOMAIN results' = 1 .. Len(results) + 1
      /\ results'[Len(results) + 1] = e
      /\ \A i \in 1 .. Len(results) : results'[i] = results[i]
  BY <1>2
<1> HIDE DEF LedgerEntry
<1>4. report \in Seq({LedgerEntry(results[i]) : i \in DOMAIN results}) /\ Len(report) = Len(results)
  BY <1>3
<1>5. /\ DOMAIN Append(report, LedgerEntry(e)) = 1 .. Len(results) + 1
      /\ \A i \in 1 .. Len(results) : Append(report, LedgerEntry(e))[i] = report[i]
      /\ Append(report, LedgerEntry(e))[Len(results) + 1] = LedgerEntry(e)
  BY <1>3, <1>4
<1> QED
  BY <1>1, <1>3, <1>5

\* The entry at hand is the exchange that is due.
LEMMA DueIsNext ==
    ASSUME Shape, LedgerInv, Running, next <= Len(plan)
    PROVE  /\ Ledger!Undecided /\ Ledger!Due = plan[next]
           /\ Len(LedgerReport) = Len(results)
<1>1. /\ LedgerReport = [i \in DOMAIN results |-> LedgerEntry(results[i])]
      /\ LedgerList = plan /\ LedgerOutcome = "running"
  BY DEF LedgerReport, LedgerList, LedgerOutcome, Reported
<1>2. results \in Seq([id : IDs, why : Reasons, reply : Replies, outcome : Outcomes])
      /\ next \in Nat /\ Len(plan) \in Nat
  BY ConfigsAssumption DEF Shape, TypeOK
<1>3. Len(LedgerReport) = Len(results)
  BY <1>1, <1>2
<1>4. Len(results) = next - 1
  BY DEF LedgerInv, Running
<1> QED
  BY <1>1, <1>2, <1>3, <1>4 DEF Ledger!Undecided, Ledger!Due

\* A run ends with the status of its report.
LEMMA StatusIsOfReport ==
    ASSUME Shape, Running, results' = results, plan' = plan, main' = "done", code' = ExitCode
    PROVE  /\ LedgerReport' = LedgerReport /\ LedgerList' = LedgerList
           /\ LedgerOutcome' = IF Ledger!Given("refused") \/ Ledger!Given("failed")
                               THEN "failed"
                               ELSE IF Ledger!Given("changed") THEN "changed" ELSE "succeeded"
<1>1. Concluded'
  BY DEF Concluded, ExitCode
<1>2. /\ LedgerReport = [i \in DOMAIN results |-> LedgerEntry(results[i])]
      /\ LedgerReport' = LedgerReport /\ LedgerList' = LedgerList
  BY <1>1 DEF LedgerReport, LedgerList, Reported, LedgerEntry, LedgerVerdict
<1>3. \A i \in DOMAIN results : results[i].outcome \in Outcomes
  <2> DEFINE Result == [id : IDs, why : Reasons, reply : Replies, outcome : Outcomes]
  <2>1. results \in Seq(Result)
    BY DEF Shape, TypeOK
  <2>2. \A result \in Result : result.outcome \in Outcomes
    OBVIOUS
  <2> HIDE DEF Result
  <2> QED
    BY <2>1, <2>2
<1>4. (Ledger!Given("refused") \/ Ledger!Given("failed")) = (Failed # {})
  BY <1>2, <1>3 DEF Ledger!Given, LedgerEntry, LedgerVerdict, Failed, Outcomes
<1>5. Ledger!Given("changed") = \E i \in DOMAIN results : results[i].outcome = "changed"
  BY <1>2, <1>3 DEF Ledger!Given, LedgerEntry, LedgerVerdict, Outcomes
<1>6. LedgerOutcome' = IF code' = "success" THEN "succeeded"
                       ELSE IF code' = "changed" THEN "changed"
                       ELSE IF code' \in {"network", "failed"} THEN "failed"
                       ELSE "abandoned"
  BY DEF LedgerOutcome, Running
<1> QED
  BY <1>2, <1>4, <1>5, <1>6 DEF ExitCode

\* A request that is sent is a request that is added.
LEMMA RequestsGrow ==
    ASSUME Shape, NEW e, sent' = Append(sent, e)
    PROVE  LedgerRequests' = Append(LedgerRequests, e.id)
<1>1. sent \in Seq([id : IDs, body : BodyTypes,
                    fields : [Fields -> Contents \cup {"secret", "empty"}]])
  BY DEF Shape, TypeOK
<1>2. /\ Len(sent) \in Nat /\ DOMAIN sent = 1 .. Len(sent)
      /\ DOMAIN sent' = 1 .. Len(sent) + 1
      /\ sent'[Len(sent) + 1] = e
      /\ \A i \in 1 .. Len(sent) : sent'[i] = sent[i]
  BY <1>1
<1> DEFINE ids == [i \in DOMAIN sent |-> sent[i].id]
<1>3. ids \in Seq({sent[i].id : i \in DOMAIN sent}) /\ Len(ids) = Len(sent)
  BY <1>2
<1>4. /\ DOMAIN Append(ids, e.id) = 1 .. Len(sent) + 1
      /\ \A i \in 1 .. Len(sent) : Append(ids, e.id)[i] = ids[i]
      /\ Append(ids, e.id)[Len(sent) + 1] = e.id
  BY <1>2, <1>3
<1> QED
  BY <1>2, <1>4 DEF LedgerRequests

\* Ending in any other way is to abandon the run.
LEMMA OtherEndsAbandon ==
    ASSUME main \notin {"wait", "done"}, main' = "done", sent' = sent,
           code' \in {"usage", "invalid", "internal"}
    PROVE  Ledger!Abandon
<1>1. LedgerOutcome \in {"preparing", "running"} /\ LedgerOutcome' = "abandoned"
  BY DEF LedgerOutcome, Running
<1>2. ~Reported'
  BY DEF Reported, Running, Concluded
<1>3. LedgerList' = << >> /\ LedgerReport' = << >> /\ LedgerRequests' = LedgerRequests
  BY <1>2 DEF LedgerList, LedgerReport, LedgerRequests
<1> QED
  BY <1>1, <1>3 DEF Ledger!Abandon

\* What moves neither the command nor its results is invisible.
LEMMA OtherStepsStutter ==
    ASSUME UNCHANGED <<plan, sent, results, code>>,
           main' = main \/ {main, main'} \cap {"execute", "wait", "done"} = {}
    PROVE  UNCHANGED <<LedgerList, LedgerRequests, main = "wait", LedgerReport, LedgerOutcome>>
<1>1. /\ Running' = Running /\ (main' = "done") = (main = "done")
      /\ (main' = "wait") = (main = "wait")
  <2>1. CASE main' = main
    BY <2>1 DEF Running
  <2>2. CASE {main, main'} \cap {"execute", "wait", "done"} = {}
    <3>1. main \notin {"execute", "wait", "done"} /\ main' \notin {"execute", "wait", "done"}
      BY <2>2
    <3> QED
      BY <3>1 DEF Running
  <2> QED
    BY <2>1, <2>2
<1>2. Reported' = Reported
  BY <1>1 DEF Reported, Concluded
<1> QED
  BY <1>1, <1>2 DEF LedgerList, LedgerRequests, LedgerReport, LedgerOutcome, LedgerEntry,
                    LedgerVerdict

\* A run that has not begun has an empty list and an empty report.
LEMMA NothingReported ==
    ASSUME main \in {"open", "preflight", "inspect", "run"}
    PROVE  LedgerList = << >> /\ LedgerReport = << >> /\ LedgerOutcome = "preparing"
  BY DEF LedgerList, LedgerReport, LedgerOutcome, Reported, Running

\* Every step of a command is one of the ledger, or none.
LEMMA StepRefines ==
    Shape /\ LedgerInv /\ [Next]_vars => [Ledger!Next]_(Ledger!ledgerVars)
<1> SUFFICES ASSUME Shape, LedgerInv, [Next]_vars
             PROVE  [Ledger!Next]_(Ledger!ledgerVars)
  OBVIOUS
<1> USE DEF fixedVars, recordingVars
<1>1. CASE Open \/ Resolve \/ NotFound \/ ReadFails
  <2>1. /\ main \notin {"execute", "wait", "done"} \/ (main = "execute" /\ main' = "done")
        /\ sent' = sent
        /\ \/ main' \in {"run", "preflight"} /\ UNCHANGED <<plan, results, code>>
           \/ main' = "done" /\ code' \in {"usage", "invalid", "internal"}
    BY <1>1 DEF Open, Resolve, NotFound, ReadFails, End
  <2>2. CASE main' = "done"
    BY <2>1, <2>2, OtherEndsAbandon DEF Ledger!Next
  <2>3. CASE main' # "done"
    BY <2>1, <2>3, OtherStepsStutter DEF Ledger!ledgerVars
  <2> QED
    BY <2>2, <2>3
<1>2. CASE PreflightList \/ Inspect
  <2>1. /\ main \in {"preflight", "inspect"} /\ main' = "inspect"
        /\ UNCHANGED <<sent, results, code>>
    BY <1>2 DEF PreflightList, Inspect
  <2>2. LedgerList' = << >> /\ LedgerReport' = << >> /\ LedgerOutcome' = "preparing"
    BY <2>1 DEF LedgerList, LedgerReport, LedgerOutcome, Reported, Running
  <2>3. LedgerRequests' = LedgerRequests /\ (main' = "wait") = (main = "wait")
    BY <2>1 DEF LedgerRequests
  <2> QED
    BY <2>1, <2>2, <2>3, NothingReported DEF Ledger!ledgerVars
<1>3. CASE RunList
  <2>1. /\ main = "run" /\ main' = "execute" /\ plan' = Selected
        /\ UNCHANGED <<sent, results>> /\ results = << >>
    BY <1>3 DEF RunList, LedgerInv
  <2>2. LedgerList' = Selected /\ LedgerOutcome' = "running"
    BY <2>1 DEF LedgerList, LedgerOutcome, Reported, Running
  <2>3. LedgerReport' = << >>
    <3>1. LedgerReport' = [i \in {} |-> LedgerEntry(results'[i])]
      BY <2>1 DEF LedgerReport, Reported, Running, LedgerEntry, LedgerVerdict
    <3>2. DOMAIN LedgerReport' = {}
      BY <3>1
    <3>3. << >> = [i \in {} |-> LedgerEntry(results'[i])]
      OBVIOUS
    <3> QED
      BY <3>1, <3>3
  <2>4. Selected \in Seq(IDs) /\ Ledger!IsInjective(Selected)
    BY SelectedType, SelectedOnce DEF IsInjective, Ledger!IsInjective
  <2>5. LedgerRequests' = LedgerRequests /\ (main' = "wait") = (main = "wait")
    BY <2>1 DEF LedgerRequests
  <2> QED
    BY <2>1, <2>2, <2>3, <2>4, <2>5, NothingReported DEF Ledger!Next, Ledger!Choose
<1>4. CASE Refuse
  <2> DEFINE e == [id |-> plan[next], why |-> Refusal(rows[plan[next]]), reply |-> "unsent",
                   outcome |-> "failed"]
  <2>1. /\ main = "execute" /\ main' = main /\ next <= Len(plan)
        /\ results' = Append(results, e) /\ e.why # "none"
        /\ UNCHANGED <<plan, sent>>
    BY <1>4 DEF Refuse, Conclude
  <2>2. LedgerEntry(e) = [id |-> plan[next], verdict |-> "refused"]
    BY <2>1 DEF LedgerEntry, LedgerVerdict
  <2>3. Running /\ Running'
    BY <2>1 DEF Running
  <2> HIDE DEF e
  <2>4. LedgerReport' = Append(LedgerReport, [id |-> plan[next], verdict |-> "refused"])
    BY <2>1, <2>2, <2>3, ReportGrows
  <2>5. UNCHANGED <<LedgerList, LedgerRequests, LedgerOutcome>>
    BY <2>1, <2>3 DEF LedgerList, LedgerRequests, LedgerOutcome, Reported
  <2>6. Ledger!Undecided /\ Ledger!Due = plan[next]
    BY <2>1, <2>3, DueIsNext
  <2> QED
    BY <2>1, <2>4, <2>5, <2>6 DEF Ledger!Next, Ledger!Refuse, Ledger!Decide
<1>5. CASE Send
  <2> DEFINE e == [id |-> plan[next], body |-> OutgoingType(rows[plan[next]]),
                   fields |-> Outgoing(rows[plan[next]])]
  <2>1. /\ main = "execute" /\ main' = "wait" /\ next <= Len(plan)
        /\ sent' = Append(sent, e) /\ e.id = plan[next]
        /\ UNCHANGED <<plan, results>>
    BY <1>5 DEF Send
  <2>2. Running /\ Running'
    BY <2>1 DEF Running
  <2> HIDE DEF e
  <2>3. LedgerRequests' = Append(LedgerRequests, plan[next])
    BY <2>1, RequestsGrow
  <2>4. UNCHANGED <<LedgerList, LedgerReport, LedgerOutcome>>
    BY <2>1, <2>2 DEF LedgerList, LedgerReport, LedgerOutcome, Reported, LedgerEntry,
                      LedgerVerdict
  <2>5. Ledger!Undecided /\ Ledger!Due = plan[next]
    BY <2>1, <2>2, DueIsNext
  <2> QED
    BY <2>1, <2>3, <2>4, <2>5 DEF Ledger!Next, Ledger!Send
<1>6. CASE Answer \/ Timeout
  <2>0. \A reply, available, same : Outcome(reply, available, same) \in Outcomes
    BY DEF Outcome, Outcomes
  <2>1. PICK reply \in Replies, outcome \in Outcomes :
           results' = Append(results, [id |-> plan[next], why |-> "none", reply |-> reply,
                                       outcome |-> outcome])
    BY <1>6, <2>0 DEF Answer, Timeout, Conclude, Outcomes, Replies
  <2> DEFINE e == [id |-> plan[next], why |-> "none", reply |-> reply, outcome |-> outcome]
  <2>2. main = "wait" /\ main' = "execute" /\ UNCHANGED <<plan, sent>>
    BY <1>6 DEF Answer, Timeout
  <2>3. PICK verdict \in Ledger!Verdicts \ {"refused"} :
           LedgerEntry(e) = [id |-> plan[next], verdict |-> verdict]
    BY DEF LedgerEntry, LedgerVerdict, Outcomes, Ledger!Verdicts
  <2>4. Running /\ Running' /\ next <= Len(plan)
    BY <2>2 DEF Running, Shape, PlanInv
  <2>5. LedgerReport' = Append(LedgerReport, [id |-> plan[next], verdict |-> verdict])
    <3>1. results' = Append(results, e)
      BY <2>1
    <3> HIDE DEF e
    <3> QED
      BY <2>3, <2>4, <3>1, ReportGrows
  <2>6. UNCHANGED <<LedgerList, LedgerRequests, LedgerOutcome>>
    BY <2>2, <2>4 DEF LedgerList, LedgerRequests, LedgerOutcome, Reported
  <2>7. Ledger!Undecided /\ Ledger!Due = plan[next]
    BY <2>4, DueIsNext
  <2> QED
    BY <2>2, <2>3, <2>5, <2>6, <2>7 DEF Ledger!Next, Ledger!Settle, Ledger!Decide
<1>7. CASE Finish
  <2>1. /\ main = "execute" /\ main' = "done" /\ next > Len(plan)
        /\ UNCHANGED <<plan, results, sent>> /\ (code' = ExitCode \/ code' = "internal")
    BY <1>7 DEF Finish, End
  <2>2. CASE code' = "internal"
    BY <2>1, <2>2, OtherEndsAbandon DEF Ledger!Next
  <2>3. CASE code' = ExitCode
    <3>1. Running
      BY <2>1 DEF Running
    <3>2. /\ LedgerList = plan /\ LedgerOutcome = "running"
          /\ LedgerReport = [i \in DOMAIN results |-> LedgerEntry(results[i])]
      BY <3>1 DEF LedgerList, LedgerOutcome, LedgerReport, Reported
    <3>3. Len(LedgerReport) = Len(plan)
      <4>1. /\ next \in Nat /\ Len(plan) \in Nat /\ next <= Len(plan) + 1
            /\ results \in Seq([id : IDs, why : Reasons, reply : Replies, outcome : Outcomes])
        BY ConfigsAssumption DEF Shape, TypeOK, PlanInv
      <4>2. Len(LedgerReport) = Len(results)
        BY <3>2, <4>1
      <4> QED
        BY <2>1, <4>1, <4>2 DEF LedgerInv
    <3>4. LedgerRequests' = LedgerRequests /\ (main' = "wait") = (main = "wait")
      BY <2>1 DEF LedgerRequests
    <3> QED
      BY <2>1, <2>3, <3>1, <3>2, <3>3, <3>4, StatusIsOfReport DEF Ledger!Next, Ledger!Conclude
  <2> QED
    BY <2>1, <2>2, <2>3
<1>8. CASE Signal \/ Record \/ UNCHANGED vars
  <2>1. UNCHANGED <<main, plan, sent, results, code>>
    BY <1>8 DEF Signal, Record, vars
  <2> QED
    BY <2>1, OtherStepsStutter DEF Ledger!ledgerVars
<1> QED
  BY <1>1, <1>2, <1>3, <1>4, <1>5, <1>6, <1>7, <1>8 DEF Next, Command

\* Whatever is recorded meanwhile, graybox replay and graybox diff keep the
\* ledger: each exchange of the runner's list is sent at most once and decided
\* once, and the exit status is that of the verdicts.
THEOREM Refinement == Spec => KeepsReplayLedger
<1>1. Init => Ledger!Init
  <2> SUFFICES ASSUME Init PROVE Ledger!Init
    OBVIOUS
  <2>1. main = "open" /\ sent = << >>
    BY DEF Init
  <2>2. LedgerRequests = << >>
    BY <2>1 DEF LedgerRequests
  <2> QED
    BY <2>1, <2>2, NothingReported DEF Ledger!Init
<1>2. Init => Shape /\ LedgerInv
  BY ShapeInit, LedgerInit
<1>3. Shape /\ LedgerInv /\ [Next]_vars => Shape' /\ LedgerInv'
  BY ShapeStep, LedgerStep
<1> QED
  BY <1>1, <1>2, <1>3, StepRefines, PTL DEF Spec, KeepsReplayLedger, Ledger!Spec

-----------------------------------------------------------------------------
(* Success covers the recording. *)

\* A result that is added is for the exchange at hand, and well if it was answered.
LEMMA ConcludeCovers ==
    ASSUME Shape, LedgerInv, CoverInv, Running, main' = "execute", next <= Len(plan),
           NEW e, results' = Append(results, e), e.id = plan[next],
           e.outcome \in {"ok", "equivalent"} => e.reply = "whole",
           UNCHANGED <<config, recorded, plan, code>>
    PROVE  CoverInv'
<1>1. results \in Seq([id : IDs, why : Reasons, reply : Replies, outcome : Outcomes])
      /\ next \in Nat
  BY ConfigsAssumption DEF Shape, TypeOK
<1>2. Len(results) = next - 1 /\ code' = "none"
  BY DEF LedgerInv, CoverInv, Running
<1>3. ASSUME NEW i \in DOMAIN results'
      PROVE  (i = next /\ results'[i] = e) \/ (i \in DOMAIN results /\ results'[i] = results[i])
  BY <1>1, <1>2
<1>4. \A i \in DOMAIN results' : results'[i].id = plan'[i]
  BY <1>3 DEF CoverInv, Running
<1>5. \A i \in DOMAIN results' :
          results'[i].outcome \in {"ok", "equivalent"} => results'[i].reply = "whole"
  BY <1>3 DEF CoverInv
<1>6. \A id \in Chosen' : \E i \in DOMAIN plan' : plan'[i] = id
  BY DEF CoverInv, Running, Chosen
<1> QED
  BY <1>2, <1>4, <1>5, <1>6 DEF CoverInv, SuccessCoversRecording

\* A run that ends well has answered all that was chosen.
LEMMA FinishCovers ==
    ASSUME Shape, LedgerInv, CoverInv, Finish, code' = "success"
    PROVE  SuccessCoversRecording'
<1>1. /\ main = "execute" /\ next > Len(plan) /\ ExitCode = "success"
      /\ UNCHANGED <<config, recorded, results>>
  BY DEF Finish, End, fixedVars
<1>2. Len(results) = Len(plan)
  <2>1. next \in Nat /\ Len(plan) \in Nat /\ next <= Len(plan) + 1
    BY ConfigsAssumption DEF Shape, TypeOK, PlanInv
  <2> QED
    BY <1>1, <2>1 DEF LedgerInv
<1>3. \A i \in DOMAIN results : results[i].outcome \in {"ok", "equivalent"}
  <2> DEFINE Result == [id : IDs, why : Reasons, reply : Replies, outcome : Outcomes]
  <2>1. results \in Seq(Result)
    BY DEF Shape, TypeOK
  <2>2. \A result \in Result : result.outcome \in Outcomes
    OBVIOUS
  <2> HIDE DEF Result
  <2>3. \A i \in DOMAIN results : results[i].outcome \in Outcomes
    BY <2>1, <2>2
  <2> QED
    BY <1>1, <2>3 DEF ExitCode, Failed, Outcomes
<1>4. SUFFICES ASSUME config.id = All, NEW id \in 1 .. recorded
               PROVE  \E i \in DOMAIN results :
                          /\ results[i].id = id /\ results[i].reply = "whole"
                          /\ results[i].outcome \in {"ok", "equivalent"}
  BY <1>1 DEF SuccessCoversRecording
<1>5. PICK i \in DOMAIN plan : plan[i] = id
  BY <1>1, <1>4 DEF CoverInv, Chosen
<1>6. i \in DOMAIN results
  BY <1>2, <1>5 DEF Shape, TypeOK
<1> QED
  BY <1>1, <1>3, <1>5, <1>6 DEF CoverInv

\* Every step keeps it.
LEMMA CoverStep == Shape /\ LedgerInv /\ CoverInv /\ [Next]_vars => CoverInv'
<1> SUFFICES ASSUME Shape, LedgerInv, CoverInv, [Next]_vars PROVE CoverInv'
  OBVIOUS
<1> USE DEF fixedVars, recordingVars
<1>1. CASE Open \/ PreflightList \/ Inspect \/ Resolve \/ Signal \/ Send \/ Record
  <2>1. /\ main # "done" /\ UNCHANGED <<config, recorded, results>>
        /\ \/ {main, main'} \subseteq {"execute", "wait"} /\ plan' = plan
           \/ main' \notin {"execute", "wait"}
           \/ main' = main /\ plan' = plan
        /\ code' # "success" /\ (main' # "done" => code' = code)
    BY <1>1 DEF Open, PreflightList, Inspect, Resolve, Signal, Send, Record, End, CoverInv
  <2> QED
    BY <2>1 DEF CoverInv, SuccessCoversRecording, Chosen
<1>2. CASE RunList
  <2>1. /\ results = << >> /\ results' = << >> /\ plan' = Selected /\ code' = "none"
        /\ UNCHANGED <<config, recorded>>
    BY <1>2 DEF RunList, LedgerInv, CoverInv
  <2>2. \A id \in Chosen' : \E i \in DOMAIN plan' : plan'[i] = id
    BY <2>1, ChosenIsSelected DEF Chosen
  <2> QED
    BY <2>1, <2>2 DEF CoverInv, SuccessCoversRecording
<1>3. CASE Refuse
  <2> DEFINE e == [id |-> plan[next], why |-> Refusal(rows[plan[next]]), reply |-> "unsent",
                   outcome |-> "failed"]
  <2>1. /\ Running /\ main' = "execute" /\ next <= Len(plan)
        /\ results' = Append(results, e)
        /\ UNCHANGED <<config, recorded, plan, code>>
    BY <1>3 DEF Refuse, Conclude, Running
  <2>2. e.id = plan[next] /\ e.outcome = "failed"
    OBVIOUS
  <2> HIDE DEF e
  <2> QED
    BY <2>1, <2>2, ConcludeCovers
<1>4. CASE Answer \/ Timeout
  <2>1. /\ Running /\ main' = "execute" /\ next <= Len(plan)
        /\ UNCHANGED <<config, recorded, plan, code>>
    BY <1>4 DEF Answer, Timeout, Running, Shape, PlanInv
  <2>2. PICK reply, outcome :
           /\ outcome \in {"ok", "equivalent"} => reply = "whole"
           /\ results' = Append(results, [id |-> plan[next], why |-> "none", reply |-> reply,
                                          outcome |-> outcome])
    BY <1>4 DEF Answer, Timeout, Conclude, Outcome
  <2> DEFINE e == [id |-> plan[next], why |-> "none", reply |-> reply, outcome |-> outcome]
  <2>3. /\ results' = Append(results, e) /\ e.id = plan[next]
        /\ e.outcome \in {"ok", "equivalent"} => e.reply = "whole"
    BY <2>2
  <2> HIDE DEF e
  <2> QED
    BY <2>1, <2>3, ConcludeCovers
<1>5. CASE NotFound \/ ReadFails
  BY <1>5 DEF NotFound, ReadFails, End, CoverInv, SuccessCoversRecording
<1>6. CASE Finish
  <2>1. main' = "done" /\ results' = results
    BY <1>6 DEF Finish, End
  <2>2. SuccessCoversRecording'
    BY <1>6, FinishCovers DEF SuccessCoversRecording
  <2> QED
    BY <2>1, <2>2 DEF CoverInv
<1>7. CASE UNCHANGED vars
  BY <1>7 DEF vars, CoverInv, SuccessCoversRecording, Chosen
<1> QED
  BY <1>1, <1>2, <1>3, <1>4, <1>5, <1>6, <1>7 DEF Next, Command

\* Exit status 0 of a replay or diff of all exchanges means that every exchange
\* which was there when the command began was sent and answered in full.
THEOREM SuccessCovers == Spec => []SuccessCoversRecording
<1>1. Init => Shape /\ LedgerInv /\ CoverInv
  <2>1. Init => CoverInv
    BY DEF Init, CoverInv, SuccessCoversRecording
  <2> QED
    BY <2>1, ShapeInit, LedgerInit
<1>2. Shape /\ LedgerInv /\ CoverInv /\ [Next]_vars => Shape' /\ LedgerInv' /\ CoverInv'
  BY ShapeStep, LedgerStep, CoverStep
<1>3. CoverInv => SuccessCoversRecording
  BY DEF CoverInv
<1> QED
  BY <1>1, <1>2, <1>3, PTL DEF Spec
=============================================================================
