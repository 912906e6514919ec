-------------------------- MODULE EventuallyProofs --------------------------
(***************************************************************************)
(* Theorems about the settings of EventuallyMC, for every value of the     *)
(* constants: the types, and safety properties that the liveness rests on. *)
(*   gateway   a request that waits for a socket is in line for one        *)
(*   stock     an ad that has to show what Warehouse has                   *)
(*   ads       every ad is in the order the timer takes them in            *)
(*   page      a refresh of the orders that had to wait waits for another  *)
(* Each part has an inductive invariant; in its setting the other parts do *)
(* not move.                                                               *)
(***************************************************************************)
EXTENDS EventuallyMC, FiniteSetTheorems, SequenceTheorems, TLAPS
-----------------------------------------------------------------------------
(***************************************************************************)
(* The gateway.  A request waits in the queue of its service, once, and    *)
(* the requests under way to a service are finitely many.                  *)
(***************************************************************************)
Sent(s) == {r \in Requests : req[r].service = s /\ req[r].step = "sent"}
InLine(r, s) == \E i \in 1 .. Len(queue[s]) : queue[s][i] = r

RequestRow == [step : Proxy!Steps, service : Services \cup {Proxy!NoService},
               route : Proxy!Routes, answer : Proxy!Answers]

GatewayTypes ==
  /\ phase \in {"down", "warming", "up"} /\ timeoutSet \in BOOLEAN
  /\ warm \subseteq Services
  /\ req \in [Requests -> RequestRow]
  /\ queue \in [Services -> Seq(Requests)]
  /\ run \in [Requests -> Proxy!Statuses \cup {"none", "running"}]

InOrder ==
  /\ \A s \in Services : \A i \in 1 .. Len(queue[s]) :
       req[queue[s][i]].service = s /\ req[queue[s][i]].step = "queued"
  /\ \A s \in Services : \A i, j \in 1 .. Len(queue[s]) :
       queue[s][i] = queue[s][j] => i = j

SocketsHeld ==
  \A s \in Services : IsFiniteSet(Sent(s)) /\ Cardinality(Sent(s)) <= MaxSockets

\* A request that has been let in is one of a service.
Addressed ==
  \A r \in Requests : req[r].step \in {"guard", "admitted", "queued", "sent"}
                        => req[r].service \in Services

NoneLost ==
  \A r \in Requests : req[r].step = "queued" => InLine(r, req[r].service)

GatewayInv == GatewayTypes /\ InOrder /\ SocketsHeld /\ Addressed /\ NoneLost

\* A line holds exactly the requests of its service that wait, each once.
LinesAreRight ==
  \A s \in Services :
    /\ \A r \in Requests :
         InLine(r, s) <=> req[r].service = s /\ req[r].step = "queued"
    /\ \A i, j \in 1 .. Len(queue[s]) : queue[s][i] = queue[s][j] => i = j
-----------------------------------------------------------------------------
LEMMA ProxyCardinality == \A S : Proxy!Cardinality(S) = Cardinality(S)
BY DEF Proxy!Cardinality, Cardinality

LEMMA GatewayTypeOK == GatewayInv => Proxy!TypeOK
BY ProxyCardinality
   DEF GatewayInv, GatewayTypes, InOrder, SocketsHeld, Sent, RequestRow,
       Proxy!TypeOK

LEMMA LinesFollow ==
  ASSUME GatewayInv PROVE LinesAreRight
<1> SUFFICES ASSUME NEW s \in Services, NEW r \in Requests
             PROVE  InLine(r, s) <=> req[r].service = s /\ req[r].step = "queued"
  BY DEF LinesAreRight, GatewayInv, InOrder
<1>1. InLine(r, s) => req[r].service = s /\ req[r].step = "queued"
  BY DEF InLine, GatewayInv, InOrder
<1>2. req[r].service = s /\ req[r].step = "queued" => InLine(r, s)
  BY DEF GatewayInv, NoneLost
<1> QED
  BY <1>1, <1>2

\* One request takes another row.
RequestTakes(r, row) == req' = [req EXCEPT ![r] = row]

LEMMA StepTakes ==
  ASSUME GatewayTypes, NEW r \in Requests, NEW step \in Proxy!Steps,
         req' = [req EXCEPT ![r].step = step]
  PROVE  \E row \in RequestRow : /\ RequestTakes(r, row) /\ row.step = step
                                 /\ row.service = req[r].service
<1> DEFINE row == [req[r] EXCEPT !.step = step]
<1>1. req[r] \in RequestRow
  BY DEF GatewayTypes
<1>2. row \in RequestRow /\ row.step = step /\ row.service = req[r].service
  BY <1>1 DEF RequestRow
<1>3. RequestTakes(r, row)
  BY DEF RequestTakes
<1> QED
  BY <1>2, <1>3

LEMMA ReplyTakes ==
  ASSUME GatewayTypes, NEW r \in Requests, NEW a \in Proxy!Answers,
         Proxy!Reply(r, a)
  PROVE  \E row \in RequestRow :
           /\ RequestTakes(r, row) /\ row.step = "answered"
           /\ row.service = req[r].service
<1> DEFINE row == [req[r] EXCEPT !.step = "answered", !.answer = a]
<1>1. req[r] \in RequestRow
  BY DEF GatewayTypes
<1>2. /\ row \in RequestRow /\ row.step = "answered"
      /\ row.service = req[r].service
  BY <1>1 DEF RequestRow, Proxy!Steps
<1>3. RequestTakes(r, row)
  BY <1>1 DEF RequestTakes, Proxy!Reply, GatewayTypes, RequestRow
<1> QED
  BY <1>2, <1>3

LEMMA RowTaken ==
  ASSUME GatewayTypes, NEW r \in Requests, NEW row \in RequestRow,
         RequestTakes(r, row)
  PROVE  /\ req' \in [Requests -> RequestRow] /\ req'[r] = row
         /\ \A o \in Requests \ {r} : req'[o] = req[o]
BY DEF GatewayTypes, RequestTakes

\* The requests under way to a service, when one of them is answered or none is
\* sent: not more of them.
LEMMA FewerSent ==
  ASSUME GatewayInv, Proxy!GatewayAssumption, NEW r \in Requests,
         req'[r].step # "sent", \A o \in Requests \ {r} : req'[o] = req[o]
  PROVE  SocketsHeld'
<1> SUFFICES ASSUME NEW s \in Services
             PROVE  IsFiniteSet(Sent(s)') /\ Cardinality(Sent(s)') <= MaxSockets
  BY DEF SocketsHeld
<1>1. Sent(s)' \subseteq Sent(s)
  BY DEF Sent
<1>2. IsFiniteSet(Sent(s)) /\ Cardinality(Sent(s)) <= MaxSockets
  BY DEF GatewayInv, SocketsHeld
<1>3. /\ IsFiniteSet(Sent(s)') /\ Cardinality(Sent(s)') <= Cardinality(Sent(s))
      /\ Cardinality(Sent(s)') \in Nat /\ Cardinality(Sent(s)) \in Nat
  BY <1>1, <1>2, FS_Subset, FS_CardinalityType
<1> QED
  BY <1>2, <1>3 DEF Proxy!GatewayAssumption

\* A request that is in no line is let in, refused or answered.
LEMMA LeavesTheLines ==
  ASSUME GatewayInv, Proxy!GatewayAssumption, NEW r \in Requests,
         NEW row \in RequestRow, RequestTakes(r, row), queue' = queue,
         req[r].step # "queued", row.step \notin {"queued", "sent"},
         row.step \in {"guard", "admitted"} => row.service \in Services
  PROVE  /\ req' \in [Requests -> RequestRow]
         /\ InOrder' /\ SocketsHeld' /\ Addressed' /\ NoneLost'
<1>1. /\ req' \in [Requests -> RequestRow] /\ req'[r] = row
      /\ \A o \in Requests \ {r} : req'[o] = req[o]
  BY RowTaken DEF GatewayInv
<1>2. SocketsHeld'
  BY <1>1, FewerSent
<1>3. \A s \in Services : \A i \in 1 .. Len(queue[s]) :
        queue[s][i] \in Requests \ {r}
  BY DEF GatewayInv, GatewayTypes, InOrder
<1>4. InOrder'
  BY <1>1, <1>3 DEF GatewayInv, InOrder
<1>5. Addressed' /\ NoneLost'
  BY <1>1 DEF GatewayInv, Addressed, NoneLost, InLine
<1> QED
  BY <1>1, <1>2, <1>4, <1>5

LEMMA GatewayForward ==
  ASSUME GatewayInv, Proxy!GatewayAssumption, NEW r \in Requests,
         Proxy!Forward(r)
  PROVE  GatewayInv'
<1>1. req[r].step = "admitted" /\ UNCHANGED <<phase, timeoutSet, warm, run>>
  BY DEF Proxy!Forward, Proxy!process
<1>2. CASE Proxy!Reply(r, "gatewayError") /\ UNCHANGED queue
  <2>1. PICK row \in RequestRow :
          /\ RequestTakes(r, row) /\ row.step = "answered"
          /\ row.service = req[r].service
    BY <1>2, ReplyTakes DEF GatewayInv, Proxy!Answers
  <2> QED
    BY <1>1, <1>2, <2>1, LeavesTheLines DEF GatewayInv, GatewayTypes
<1>3. CASE /\ req' = [req EXCEPT ![r].step = "queued"]
           /\ queue' = [queue EXCEPT ![req[r].service] = Append(@, r)]
  <2> DEFINE s == req[r].service
  <2>1. s \in Services
    BY <1>1 DEF GatewayInv, Addressed
  <2>2. PICK row \in RequestRow :
          /\ RequestTakes(r, row) /\ row.step = "queued"
          /\ row.service = s
    BY <1>3, StepTakes DEF GatewayInv, Proxy!Steps
  <2>3. /\ req' \in [Requests -> RequestRow] /\ req'[r] = row
        /\ \A o \in Requests \ {r} : req'[o] = req[o]
    BY <2>2, RowTaken DEF GatewayInv
  <2>4. SocketsHeld'
    BY <2>2, <2>3, FewerSent
  <2> DEFINE line == queue[s]
  <2>5. line \in Seq(Requests) /\ line = queue[s]
    BY <2>1 DEF GatewayInv, GatewayTypes
  <2>6. /\ queue' \in [Services -> Seq(Requests)]
        /\ queue'[s] = Append(line, r)
        /\ \A t \in Services \ {s} : queue'[t] = queue[t]
    BY <1>3, <2>1, <2>5 DEF GatewayInv, GatewayTypes
  <2>7. /\ Len(queue'[s]) = Len(line) + 1 /\ Len(line) \in Nat
        /\ queue'[s][Len(line) + 1] = r
        /\ \A i \in 1 .. Len(line) : queue'[s][i] = line[i]
    BY <2>5, <2>6
  <2>8. \A t \in Services : \A i \in 1 .. Len(queue[t]) :
          queue[t][i] \in Requests \ {r}
    BY <1>1 DEF GatewayInv, GatewayTypes, InOrder
  <2> HIDE DEF s, line
  <2>9. InOrder'
    <3>1. ASSUME NEW t \in Services, NEW i \in 1 .. Len(queue'[t])
          PROVE  /\ req'[queue'[t][i]].service = t
                 /\ req'[queue'[t][i]].step = "queued"
      <4>1. CASE t # s
        BY <2>3, <2>6, <2>8, <3>1, <4>1 DEF GatewayInv, InOrder
      <4>2. CASE t = s /\ i \in 1 .. Len(line)
        BY <2>3, <2>5, <2>7, <2>8, <4>2 DEF GatewayInv, InOrder
      <4>3. CASE t = s /\ i = Len(line) + 1
        BY <2>2, <2>3, <2>7, <4>3
      <4> QED
        BY <2>7, <3>1, <4>1, <4>2, <4>3
    <3>2. ASSUME NEW t \in Services, NEW i \in 1 .. Len(queue'[t]),
                 NEW j \in 1 .. Len(queue'[t]), queue'[t][i] = queue'[t][j]
          PROVE  i = j
      <4>1. CASE t # s
        BY <2>6, <3>2, <4>1 DEF GatewayInv, InOrder
      <4>2. CASE t = s
        <5>1. \A k \in 1 .. Len(line) : queue'[s][k] = line[k] /\ line[k] # r
          BY <2>5, <2>7, <2>8, <4>2
        <5>2. \A k, l \in 1 .. Len(line) : line[k] = line[l] => k = l
          BY <2>5, <4>2 DEF GatewayInv, InOrder
        <5> QED
          BY <2>7, <3>2, <4>2, <5>1, <5>2
      <4> QED
        BY <4>1, <4>2
    <3> QED
      BY <3>1, <3>2 DEF InOrder
  <2>10. Addressed'
    BY <2>1, <2>2, <2>3 DEF GatewayInv, Addressed
  <2>11. NoneLost'
    <3> SUFFICES ASSUME NEW o \in Requests, req'[o].step = "queued"
                 PROVE  \E i \in 1 .. Len(queue'[req'[o].service]) :
                          queue'[req'[o].service][i] = o
      BY DEF NoneLost, InLine
    <3>1. CASE o = r
      <4>1. Len(line) + 1 \in 1 .. Len(queue'[s])
        BY <2>7
      <4> QED
        BY <2>2, <2>3, <2>7, <3>1, <4>1
    <3>2. CASE o # r
      <4>1. req'[o] = req[o]
        BY <2>3, <3>2
      <4>2. req[o].service \in Services
        BY <4>1 DEF GatewayInv, Addressed
      <4>3. PICK i \in 1 .. Len(queue[req[o].service]) :
              queue[req[o].service][i] = o
        BY <4>1 DEF GatewayInv, NoneLost, InLine
      <4>4. CASE req[o].service # s
        BY <2>6, <4>1, <4>2, <4>3, <4>4
      <4>5. CASE req[o].service = s
        <5>1. i \in 1 .. Len(queue'[s]) /\ queue'[s][i] = o
          BY <2>5, <2>7, <4>3, <4>5
        <5> QED
          BY <4>1, <4>5, <5>1
      <4> QED
        BY <4>4, <4>5
    <3> QED
      BY <3>1, <3>2
  <2> QED
    BY <1>1, <2>3, <2>4, <2>6, <2>9, <2>10, <2>11 DEF GatewayInv, GatewayTypes
<1> QED
  BY <1>2, <1>3 DEF Proxy!Forward

\* The request at the head of the line leaves it.
LEMMA GatewayConnect ==
  ASSUME GatewayInv, Proxy!GatewayAssumption, NEW s \in Services,
         Proxy!Connect(s)
  PROVE  GatewayInv'
<1> DEFINE line == queue[s]
           r == Head(line)
<1>1. line \in Seq(Requests) /\ line # <<>>
  BY DEF GatewayInv, GatewayTypes, Proxy!Connect
<1>2. /\ r \in Requests /\ r = line[1] /\ Len(line) \in Nat \ {0}
      /\ 1 \in 1 .. Len(line)
  BY <1>1
<1>3. req[r].service = s /\ req[r].step = "queued"
  BY <1>2 DEF GatewayInv, InOrder
<1>4. PICK row \in RequestRow :
        /\ RequestTakes(r, row) /\ row.service = s
        /\ row.step \in {"sent", "answered"}
        /\ run' \in [Requests -> Proxy!Statuses \cup {"none", "running"}]
  <2>1. CASE /\ req' = [req EXCEPT ![r].step = "sent"]
             /\ run' = [run EXCEPT ![r] = "running"]
    <3>1. PICK row \in RequestRow :
            /\ RequestTakes(r, row) /\ row.step = "sent"
            /\ row.service = req[r].service
      BY <1>2, <2>1, StepTakes DEF GatewayInv, Proxy!Steps
    <3> QED
      BY <1>3, <2>1, <3>1 DEF GatewayInv, GatewayTypes
  <2>2. ASSUME NEW code \in {"refused", "reset"},
               Proxy!Reply(r, Proxy!Failure(r, code)), run' = run
        PROVE  \E row \in RequestRow :
                 /\ RequestTakes(r, row) /\ row.service = s
                 /\ row.step \in {"sent", "answered"}
                 /\ run' \in [Requests ->
                               Proxy!Statuses \cup {"none", "running"}]
    <3>1. Proxy!Failure(r, code) \in Proxy!Answers
      BY DEF Proxy!Failure, Proxy!Answers
    <3>2. PICK row \in RequestRow : /\ RequestTakes(r, row)
                                    /\ row.step = "answered"
                                    /\ row.service = req[r].service
      BY <1>2, <2>2, <3>1, ReplyTakes DEF GatewayInv
    <3> QED
      BY <1>3, <2>2, <3>2 DEF GatewayInv, GatewayTypes
  <2> QED
    BY <2>1, <2>2 DEF Proxy!Connect
<1>5. /\ req' \in [Requests -> RequestRow] /\ req'[r] = row
      /\ \A o \in Requests \ {r} : req'[o] = req[o]
  BY <1>2, <1>4, RowTaken DEF GatewayInv
<1>6. /\ queue' \in [Services -> Seq(Requests)]
      /\ queue'[s] = Tail(line)
      /\ \A t \in Services \ {s} : queue'[t] = queue[t]
  BY <1>1 DEF Proxy!Connect, GatewayInv, GatewayTypes
<1>7. /\ Len(queue'[s]) = Len(line) - 1
      /\ \A i \in 1 .. Len(queue'[s]) :
           i + 1 \in 1 .. Len(line) /\ queue'[s][i] = line[i + 1]
  BY <1>1, <1>2, <1>6
<1>8. UNCHANGED <<phase, timeoutSet, warm>> /\ Proxy!SocketFree(s)
  BY DEF Proxy!Connect, Proxy!process
<1> HIDE DEF r, line
<1>9. /\ \A i \in 1 .. Len(queue[s]) : i # 1 => queue[s][i] \in Requests \ {r}
      /\ \A t \in Services \ {s} : \A i \in 1 .. Len(queue[t]) :
           queue[t][i] \in Requests \ {r}
  <2>1. \A i \in 1 .. Len(queue[s]) : i # 1 => queue[s][i] \in Requests \ {r}
    BY <1>1, <1>2 DEF GatewayInv, GatewayTypes, InOrder, line
  <2>2. \A t \in Services \ {s} : \A i \in 1 .. Len(queue[t]) :
          queue[t][i] \in Requests \ {r}
    BY <1>3 DEF GatewayInv, GatewayTypes, InOrder
  <2> QED
    BY <2>1, <2>2
<1>10. InOrder'
  <2>1. ASSUME NEW t \in Services, NEW i \in 1 .. Len(queue'[t])
        PROVE  /\ req'[queue'[t][i]].service = t
               /\ req'[queue'[t][i]].step = "queued"
    <3>1. CASE t # s
      <4>1. i \in 1 .. Len(queue[t]) /\ queue'[t][i] = queue[t][i]
        BY <1>6, <2>1, <3>1
      <4>2. req'[queue[t][i]] = req[queue[t][i]]
        BY <1>5, <1>9, <3>1, <4>1
      <4> QED
        BY <4>1, <4>2 DEF GatewayInv, InOrder
    <3>2. CASE t = s
      <4>1. /\ i + 1 \in 1 .. Len(queue[s]) /\ i + 1 # 1
            /\ queue'[s][i] = queue[s][i + 1]
        BY <1>7, <2>1, <3>2 DEF line
      <4> QED
        BY <1>5, <1>9, <3>2, <4>1 DEF GatewayInv, InOrder
    <3> QED
      BY <3>1, <3>2
  <2>2. ASSUME NEW t \in Services, NEW i \in 1 .. Len(queue'[t]),
               NEW j \in 1 .. Len(queue'[t]), queue'[t][i] = queue'[t][j]
        PROVE  i = j
    <3>1. CASE t # s
      BY <1>6, <2>2, <3>1 DEF GatewayInv, InOrder
    <3>2. CASE t = s
      <4>1. /\ i + 1 \in 1 .. Len(queue[s]) /\ j + 1 \in 1 .. Len(queue[s])
            /\ queue[s][i + 1] = queue[s][j + 1]
        BY <1>7, <2>2, <3>2 DEF line
      <4>2. i + 1 = j + 1
        BY <4>1 DEF GatewayInv, InOrder
      <4> QED
        BY <4>2
    <3> QED
      BY <3>1, <3>2
  <2> QED
    BY <2>1, <2>2 DEF InOrder
<1>11. SocketsHeld'
  <2> SUFFICES ASSUME NEW t \in Services
               PROVE  /\ IsFiniteSet(Sent(t)')
                      /\ Cardinality(Sent(t)') <= MaxSockets
    BY DEF SocketsHeld
  <2>1. /\ IsFiniteSet(Sent(t)) /\ Cardinality(Sent(t)) <= MaxSockets
        /\ Cardinality(Sent(t)) \in Nat
    BY FS_CardinalityType DEF GatewayInv, SocketsHeld
  <2>2. CASE t # s
    <3>1. Sent(t)' = Sent(t)
      BY <1>3, <1>4, <1>5, <2>2 DEF Sent
    <3> QED
      BY <2>1, <3>1
  <2>3. CASE t = s
    <3>1. Cardinality(Sent(s)) < MaxSockets
      BY <1>8, ProxyCardinality DEF Proxy!SocketFree, Sent
    <3>2. Sent(s)' \subseteq Sent(s) \cup {r}
      BY <1>5 DEF Sent
    <3>3. r \notin Sent(s)
      BY <1>3 DEF Sent
    <3>4. /\ IsFiniteSet(Sent(s) \cup {r})
          /\ Cardinality(Sent(s) \cup {r}) = Cardinality(Sent(s)) + 1
      BY <2>1, <2>3, <3>3, FS_AddElement
    <3>5. /\ IsFiniteSet(Sent(s)')
          /\ Cardinality(Sent(s)') <= Cardinality(Sent(s) \cup {r})
          /\ Cardinality(Sent(s)') \in Nat
      BY <3>2, <3>4, FS_Subset, FS_CardinalityType
    <3> QED
      BY <2>1, <2>3, <3>1, <3>4, <3>5 DEF Proxy!GatewayAssumption
  <2> QED
    BY <2>2, <2>3
<1>12. Addressed'
  BY <1>4, <1>5 DEF GatewayInv, Addressed
<1>13. NoneLost'
  <2> SUFFICES ASSUME NEW o \in Requests, req'[o].step = "queued"
               PROVE  \E i \in 1 .. Len(queue'[req'[o].service]) :
                        queue'[req'[o].service][i] = o
    BY DEF NoneLost, InLine
  <2>1. o # r
    BY <1>4, <1>5
  <2>2. req'[o] = req[o] /\ req[o].service \in Services
    BY <1>5, <2>1 DEF GatewayInv, Addressed
  <2>3. PICK i \in 1 .. Len(queue[req[o].service]) :
          queue[req[o].service][i] = o
    BY <2>2 DEF GatewayInv, NoneLost, InLine
  <2>4. CASE req[o].service # s
    BY <1>6, <2>2, <2>3, <2>4
  <2>5. CASE req[o].service = s
    <3>1. i # 1
      BY <1>2, <2>1, <2>3, <2>5 DEF line
    <3>2. i - 1 \in 1 .. Len(queue'[s]) /\ queue'[s][i - 1] = o
      BY <1>2, <1>7, <2>3, <2>5, <3>1 DEF line
    <3> QED
      BY <2>2, <2>5, <3>2
  <2> QED
    BY <2>4, <2>5
<1> QED
  BY <1>4, <1>5, <1>6, <1>8, <1>10, <1>11, <1>12, <1>13
     DEF GatewayInv, GatewayTypes

\* The steps of one request that stays out of the lines.
LEMMA GatewayRequest ==
  ASSUME GatewayInv, Proxy!GatewayAssumption, NEW r \in Requests,
         \/ \E s \in Services, route \in Proxy!Routes :
              Proxy!Arrive(r, s, route)
         \/ Proxy!ApiRoot(r) \/ Proxy!Guard(r) \/ Proxy!Respond(r)
         \/ Proxy!Timeout(r) \/ Proxy!Reset(r)
  PROVE  GatewayInv'
<1>1. /\ req[r].step # "queued"
      /\ UNCHANGED <<phase, timeoutSet, warm, queue, run>>
  BY DEF Proxy!Arrive, Proxy!ApiRoot, Proxy!Guard, Proxy!Respond,
     Proxy!Timeout, Proxy!Reset, Proxy!process
<1>2. ASSUME NEW row \in RequestRow, RequestTakes(r, row),
             row.step \notin {"queued", "sent"},
             row.step \in {"guard", "admitted"} => row.service \in Services
      PROVE  GatewayInv'
  BY <1>1, <1>2, LeavesTheLines DEF GatewayInv, GatewayTypes
<1>3. ASSUME NEW a \in Proxy!Answers, Proxy!Reply(r, a) PROVE GatewayInv'
  <2>1. PICK row \in RequestRow :
          /\ RequestTakes(r, row) /\ row.step = "answered"
          /\ row.service = req[r].service
    BY <1>3, ReplyTakes DEF GatewayInv
  <2> QED
    BY <1>2, <2>1
<1>4. ASSUME NEW s \in Services, NEW route \in Proxy!Routes,
             Proxy!Arrive(r, s, route)
      PROVE  GatewayInv'
  <2>1. PICK step \in {"guard", "admitted"} :
          req' = [req EXCEPT ![r] = [step |-> step, service |-> s,
                                     route |-> route, answer |-> "none"]]
    BY <1>4 DEF Proxy!Arrive
  <2> DEFINE row == [step |-> step, service |-> s, route |-> route,
                     answer |-> "none"]
  <2>2. row \in RequestRow /\ row.step = step /\ row.service = s
    BY DEF RequestRow, Proxy!Steps, Proxy!Answers
  <2>3. RequestTakes(r, row)
    BY <2>1 DEF RequestTakes
  <2> HIDE DEF row
  <2> QED
    BY <1>2, <2>2, <2>3
<1>5. CASE Proxy!Guard(r)
  <2>1. CASE req' = [req EXCEPT ![r].step = "admitted"]
    <3>1. PICK row \in RequestRow :
            /\ RequestTakes(r, row) /\ row.step = "admitted"
            /\ row.service = req[r].service
      BY <2>1, StepTakes DEF GatewayInv, Proxy!Steps
    <3>2. req[r].service \in Services
      BY <1>5 DEF Proxy!Guard, GatewayInv, Addressed
    <3> QED
      BY <1>2, <3>1, <3>2
  <2> QED
    BY <1>3, <1>5, <2>1 DEF Proxy!Guard, Proxy!Answers, Proxy!Statuses
<1>6. CASE Proxy!Respond(r) \/ Proxy!Timeout(r) \/ Proxy!Reset(r)
  <2>1. \E a \in Proxy!Answers : Proxy!Reply(r, a)
    BY <1>6 DEF Proxy!Respond, Proxy!AnswerOf, Proxy!Timeout, Proxy!Reset,
       Proxy!Failure, Proxy!Answers, Proxy!Statuses
  <2> QED
    BY <1>3, <2>1
<1>7. CASE Proxy!ApiRoot(r)
  BY <1>3, <1>7 DEF Proxy!ApiRoot, Proxy!Answers
<1> QED
  BY <1>4, <1>5, <1>6, <1>7

LEMMA GatewayNext ==
  ASSUME GatewayInv, Proxy!GatewayAssumption, Proxy!Next
  PROVE  GatewayInv'
<1>1. ASSUME req' = req, queue' = queue,
             phase' \in {"down", "warming", "up"}, timeoutSet' = timeoutSet,
             warm' \subseteq Services,
             run' \in [Requests -> Proxy!Statuses \cup {"none", "running"}]
      PROVE  GatewayInv'
  BY <1>1
     DEF GatewayInv, GatewayTypes, InOrder, SocketsHeld, Addressed, NoneLost,
         InLine, Sent
<1>2. CASE Proxy!Listen
  BY <1>1, <1>2 DEF Proxy!Listen, GatewayInv, GatewayTypes
<1>3. ASSUME NEW s \in Services, Proxy!WarmUp(s) PROVE GatewayInv'
  BY <1>1, <1>3 DEF Proxy!WarmUp, GatewayInv, GatewayTypes
<1>4. ASSUME NEW r \in Requests, Proxy!Serve(r) PROVE GatewayInv'
  BY <1>1, <1>4 DEF Proxy!Serve, Proxy!process, GatewayInv, GatewayTypes
<1> QED
  BY <1>2, <1>3, <1>4, GatewayRequest, GatewayForward, GatewayConnect
     DEF Proxy!Next

LEMMA GatewayInit ==
  ASSUME Proxy!Init, Proxy!GatewayAssumption PROVE GatewayInv
<1>1. GatewayTypes
  BY DEF Proxy!Init, GatewayTypes, RequestRow, Proxy!Steps, Proxy!Routes,
         Proxy!Answers
<1>2. SocketsHeld
  <2>1. \A s \in Services : Sent(s) = {}
    BY DEF Proxy!Init, Sent
  <2> QED
    BY <2>1, FS_EmptySet DEF SocketsHeld, Proxy!GatewayAssumption
<1>3. InOrder /\ Addressed /\ NoneLost
  BY DEF Proxy!Init, InOrder, Addressed, NoneLost
<1> QED
  BY <1>1, <1>2, <1>3 DEF GatewayInv

LEMMA GatewayStays ==
  ASSUME GatewayInv, UNCHANGED GatewayVars PROVE GatewayInv'
<1>1. UNCHANGED <<phase, timeoutSet, warm, req, queue, run>>
  BY DEF GatewayVars
<1>2. GatewayTypes' /\ InOrder'
  BY <1>1 DEF GatewayInv, GatewayTypes, InOrder
<1>3. SocketsHeld' /\ Addressed' /\ NoneLost'
  BY <1>1 DEF GatewayInv, SocketsHeld, Sent, Addressed, NoneLost, InLine
<1> QED
  BY <1>2, <1>3 DEF GatewayInv
-----------------------------------------------------------------------------
(***************************************************************************)
(* Stock events, one after the other.  The events that wait are the latest *)
(* ones, and the event being served comes right before them: an ad that is *)
(* done shows the event being served, so that the last one to be served    *)
(* leaves what Warehouse has.                                              *)
(***************************************************************************)
ProjectionLocals ==
  [job : {"stock"}, pc : {"ads"}, event : 1 .. MaxStockEvents,
   todo : SUBSET StockAds, read : [StockAds -> Stock!AdRow], quantity : {0}]

Projecting == {w \in StockWorkers : projector[w].job # "none"}

ProjectionTypes ==
  /\ available \in Quantities /\ offerable = TRUE
  /\ stockEvents \in Seq(Stock!StockEvent) /\ Len(stockEvents) <= MaxStockEvents
  /\ catalogEvents = 0 /\ catalogQueue = {}
  /\ projected \in [StockAds -> Stock!AdRow]
  /\ projector \in [StockWorkers -> ProjectionLocals \cup {Stock!Idle}]
  /\ crashes \in 0 .. MaxCrashes
  /\ missed \subseteq StockAds

OneProjects == \A v, w \in Projecting : v = w

Count == Len(stockEvents)

\* The first k events have been taken from the queue, the k-th is being served.
LatestWait ==
  \E k \in 0 .. Count :
    /\ stockQueue = (k + 1) .. Count
    /\ \A w \in Projecting : k # 0 /\ projector[w].event = k

LastIsAvailable == Count # 0 => available = stockEvents[Count].quantity

Shows(d, q) == projected[d].stock = q /\ (projected[d].active <=> q > 0)

\* What an ad has noted as applied it shows; nothing else writes these columns.
NotedIsShown ==
  \A d \in StockAds : projected[d].stockSync.status = "applied" =>
    Shows(d, projected[d].stockSync.quantity)

ReadIsCurrent ==
  \A w \in Projecting : \A d \in projector[w].todo :
    projector[w].read[d] = projected[d]

ServedIsShown ==
  \A w \in Projecting :
    \A d \in Stock!Existing \ (missed \cup projector[w].todo) :
      Shows(d, stockEvents[projector[w].event].quantity)

CaughtUp ==
  stockQueue = {} /\ Projecting = {} =>
    \A d \in Stock!Existing \ missed : Shows(d, available)

ProjectionInv ==
  /\ ProjectionTypes /\ OneProjects /\ LatestWait /\ LastIsAvailable
  /\ NotedIsShown /\ ReadIsCurrent /\ ServedIsShown /\ CaughtUp

-----------------------------------------------------------------------------
LEMMA StockParameters ==
  ASSUME Stock!StockAssumption
  PROVE  /\ 0 \in Quantities /\ Quantities \subseteq Nat
         /\ MaxStockEvents \in Nat /\ MaxCrashes \in Nat
BY DEF Stock!StockAssumption

LEMMA CountIsNat == ProjectionTypes => Count \in Nat
BY DEF ProjectionTypes, Count

LEMMA IdleDoesNothing == Stock!Idle.job = "none"
BY DEF Stock!Idle

LEMMA ProjectingLocals ==
  ASSUME ProjectionTypes, NEW w \in Projecting
  PROVE  projector[w] \in ProjectionLocals
BY IdleDoesNothing DEF ProjectionTypes, Projecting

LEMMA OnlyStockJobs ==
  ASSUME ProjectionTypes, NEW w \in StockWorkers
  PROVE  projector[w].job \in {"none", "stock"}
BY IdleDoesNothing DEF ProjectionTypes, ProjectionLocals

LEMMA StockCardinality == \A S : Stock!Cardinality(S) = Cardinality(S)
BY DEF Stock!Cardinality, Cardinality

LEMMA FewRun ==
  ASSUME OneProjects PROVE Projecting = {} <=> Stock!Running < 1
<1>1. Stock!Running = Cardinality(Projecting)
  BY StockCardinality DEF Stock!Running, Projecting
<1>2. Projecting = {} => Cardinality(Projecting) = 0
  BY FS_EmptySet
<1>3. ASSUME NEW v \in Projecting PROVE Cardinality(Projecting) = 1
  <2>1. Projecting = {v}
    BY DEF OneProjects
  <2> QED
    BY <2>1, FS_Singleton
<1> QED
  BY <1>1, <1>2, <1>3

LEMMA ProjectionTypeOK ==
  ASSUME Stock!StockAssumption, ProjectionInv PROVE Stock!TypeOK
<1>1. ProjectionTypes /\ Count \in Nat
  BY CountIsNat DEF ProjectionInv
<1>2. stockQueue \subseteq 1 .. Len(stockEvents)
  <2>1. PICK k \in 0 .. Count : stockQueue = (k + 1) .. Count
    BY DEF ProjectionInv, LatestWait
  <2> QED
    BY <1>1, <2>1 DEF Count
<1>3. ProjectionLocals \subseteq Stock!WorkerState
  BY StockParameters DEF ProjectionLocals, Stock!WorkerState, Stock!Jobs
<1>4. projector \in [StockWorkers -> Stock!WorkerState \cup {Stock!Idle}]
  BY <1>1, <1>3 DEF ProjectionTypes
<1>5. catalogEvents \in 0 .. 0 /\ catalogQueue \subseteq 1 .. catalogEvents
      /\ offerable \in BOOLEAN
  BY <1>1 DEF ProjectionTypes
<1> QED
  BY <1>1, <1>2, <1>4, <1>5 DEF ProjectionTypes, Stock!TypeOK

\* What the invariant is for.
StockSettles ==
  Stock!Drained =>
    \A d \in Stock!Existing \ missed :
      projected[d].stock = available /\ (projected[d].active <=> available > 0)

LEMMA SettlesInEnd == ProjectionInv => StockSettles
BY FewRun DEF ProjectionInv, CaughtUp, StockSettles, Stock!Drained, Shows

-----------------------------------------------------------------------------
\* What a worker does when it is done with an ad, and what that leaves.
LEMMA ProjectionProceeds ==
  ASSUME ProjectionInv, Stock!StockAssumption, NEW w \in Projecting,
         NEW d \in StockAds, d \in projector[w].todo,
         NEW new \in Stock!AdRow,
         projected' = [projected EXCEPT ![d] = new], Stock!Proceed(w, d),
         UNCHANGED <<available, offerable, stockEvents, stockQueue,
                     catalogEvents, catalogQueue, crashes>>,
         missed' \subseteq StockAds, missed \subseteq missed' \cup {d},
         new.stockSync.status = "applied" =>
           /\ new.stock = new.stockSync.quantity
           /\ new.active <=> new.stockSync.quantity > 0,
         d \in missed' \/
           LET q == stockEvents[projector[w].event].quantity IN
           new.stock = q /\ (new.active <=> q > 0)
  PROVE  ProjectionInv'
<1> DEFINE rest == projector[w].todo \ {d}
           next == [projector[w] EXCEPT !.pc = "ads", !.todo = rest,
                                        !.read[d] = Stock!NoAd]
           row == IF rest = {} THEN Stock!Idle ELSE next
           n == projector[w].event
<1>1. /\ projector[w] \in ProjectionLocals /\ ProjectionTypes
      /\ w \in StockWorkers /\ Count \in Nat /\ Projecting = {w}
  BY ProjectingLocals, CountIsNat DEF ProjectionInv, Projecting, OneProjects
<1>2. Stock!NoAd \in Stock!AdRow
  BY StockParameters
     DEF Stock!NoAd, Stock!NewAd, Stock!AdRow, Stock!StockAssumption
<1>3. rest # {} =>
        /\ next \in ProjectionLocals /\ next.todo = rest /\ next.event = n
        /\ next.job = "stock"
        /\ \A e \in rest : next.read[e] = projector[w].read[e]
  BY <1>1, <1>2 DEF ProjectionLocals
<1>4. projector' = [projector EXCEPT ![w] = row]
  BY DEF Stock!Proceed
<1> HIDE DEF next
<1>5. /\ row \in ProjectionLocals \cup {Stock!Idle}
      /\ row.job # "none" <=> rest # {}
      /\ rest # {} => row = next
  BY <1>3, IdleDoesNothing
<1> HIDE DEF row
<1>6. /\ projector' \in [StockWorkers -> ProjectionLocals \cup {Stock!Idle}]
      /\ projector'[w] = row
      /\ \A v \in StockWorkers \ {w} : projector'[v] = projector[v]
  BY <1>1, <1>4, <1>5 DEF ProjectionTypes
<1>7. Projecting' = IF rest = {} THEN {} ELSE {w}
  BY <1>1, <1>5, <1>6 DEF Projecting
<1>8. /\ projected' \in [StockAds -> Stock!AdRow] /\ projected'[d] = new
      /\ \A e \in StockAds \ {d} : projected'[e] = projected[e]
  BY <1>1 DEF ProjectionTypes
<1>9. ProjectionTypes'
  BY <1>1, <1>6, <1>8 DEF ProjectionTypes
<1>10. OneProjects' /\ LastIsAvailable'
  BY <1>7 DEF ProjectionInv, OneProjects, LastIsAvailable, Count
<1>11. LatestWait'
  <2>1. PICK k \in 0 .. Count : /\ stockQueue = (k + 1) .. Count
                                /\ k # 0 /\ n = k
    BY DEF ProjectionInv, LatestWait
  <2>2. \A v \in Projecting' : projector'[v].event = n
    BY <1>3, <1>5, <1>6, <1>7
  <2> QED
    BY <2>1, <2>2 DEF LatestWait, Count
<1>12. NotedIsShown'
  BY <1>8 DEF ProjectionInv, NotedIsShown, Shows
<1>13. ReadIsCurrent'
  <2> SUFFICES ASSUME rest # {}, NEW e \in rest
               PROVE  next.read[e] = projected'[e]
    BY <1>3, <1>5, <1>6, <1>7 DEF ReadIsCurrent
  <2>1. e \in projector[w].todo /\ e # d /\ e \in StockAds
    BY <1>1 DEF ProjectionLocals
  <2>2. next.read[e] = projector[w].read[e]
    BY <1>3
  <2> QED
    BY <1>8, <2>1, <2>2 DEF ProjectionInv, ReadIsCurrent
\* Every ad the worker is done with.
<1>14. ASSUME NEW e \in Stock!Existing' \ (missed' \cup rest)
       PROVE  /\ projected'[e].stock = stockEvents[n].quantity
              /\ projected'[e].active <=> stockEvents[n].quantity > 0
  <2>0. e \in StockAds /\ projected'[e].status # "absent"
    BY DEF Stock!Existing
  <2>1. CASE e = d
    BY <1>8, <2>1 DEF Shows
  <2>2. CASE e # d
    <3>1. e \in Stock!Existing \ (missed \cup projector[w].todo)
      BY <1>8, <2>0, <2>2 DEF Stock!Existing
    <3>2. Shows(e, stockEvents[n].quantity)
      BY <3>1 DEF ProjectionInv, ServedIsShown
    <3> QED
      BY <1>8, <2>0, <2>2, <3>2 DEF Shows
  <2> QED
    BY <2>1, <2>2
<1>15. ServedIsShown'
  BY <1>3, <1>5, <1>6, <1>7, <1>14 DEF ServedIsShown, Shows
<1>16. CaughtUp'
  <2> SUFFICES ASSUME stockQueue = {}, rest = {},
                      NEW e \in Stock!Existing' \ missed'
               PROVE  Shows(e, available)'
    BY <1>7 DEF CaughtUp
  <2>1. PICK k \in 0 .. Count : /\ stockQueue = (k + 1) .. Count
                                /\ k # 0 /\ n = k
    BY DEF ProjectionInv, LatestWait
  <2>2. Count = n /\ Count # 0
    BY <1>1, <2>1
  <2>3. available = stockEvents[n].quantity
    BY <2>2 DEF ProjectionInv, LastIsAvailable
  <2> QED
    BY <1>14, <2>3 DEF Shows
<1> QED
  BY <1>9, <1>10, <1>11, <1>12, <1>13, <1>15, <1>16 DEF ProjectionInv

LEMMA EvidenceType ==
  ASSUME Stock!StockAssumption, ProjectionTypes, NEW n \in 1 .. Count,
         NEW status \in {"applied", "failed"}
  PROVE  /\ Stock!Evidence(n, status) \in Stock!StockSync
         /\ Stock!Evidence(n, status).status = status
         /\ Stock!Evidence(n, status).quantity = stockEvents[n].quantity
<1>1. n \in 1 .. MaxStockEvents
  BY CountIsNat, StockParameters DEF ProjectionTypes, Count
<1>2. stockEvents[n] \in Stock!StockEvent
  BY CountIsNat DEF ProjectionTypes, Count
<1>3. /\ stockEvents[n].type \in {"stock.updated", "stock.out"}
      /\ stockEvents[n].quantity \in Quantities
  BY <1>2 DEF Stock!StockEvent
<1> QED
  BY <1>1, <1>3 DEF Stock!Evidence, Stock!StockSync

LEMMA EventServed ==
  ASSUME ProjectionInv, NEW w \in Projecting
  PROVE  projector[w].event \in 1 .. Count
BY CountIsNat DEF ProjectionInv, LatestWait

LEMMA ProjectedType ==
  ASSUME Stock!StockAssumption, ProjectionTypes, NEW n \in 1 .. Count,
         NEW row \in Stock!AdRow, NEW read \in Stock!AdRow
  PROVE  LET new == Stock!Projected(row, read, n)
             q == stockEvents[n].quantity
         IN /\ new \in Stock!AdRow /\ new.stock = q /\ (new.active <=> q > 0)
            /\ new.stockSync.quantity = q
<1> DEFINE q == stockEvents[n].quantity
           sync == Stock!Evidence(n, "applied")
<1>1. sync \in Stock!StockSync /\ sync.quantity = q
  BY EvidenceType
<1>2. q \in Quantities /\ q \in Nat
  <2>1. stockEvents[n] \in Stock!StockEvent
    BY CountIsNat DEF ProjectionTypes, Count
  <2> QED
    BY <2>1, StockParameters DEF Stock!StockEvent
<1> HIDE DEF sync
<1>3. PICK status \in {"absent", "draft", "published", "deleted"} :
        Stock!Projected(row, read, n) =
          [row EXCEPT !.stock = q, !.active = ~(q = 0), !.status = status,
                      !.stockSync = sync, !.catalogSync = read.catalogSync,
                      !.reconciled = read.reconciled]
  <2>1. row.status \in {"absent", "draft", "published", "deleted"}
    BY DEF Stock!AdRow
  <2> QED
    BY <2>1 DEF Stock!Projected, sync
<1> HIDE DEF q
<1>4. [row EXCEPT !.stock = q, !.active = ~(q = 0), !.status = status,
                  !.stockSync = sync, !.catalogSync = read.catalogSync,
                  !.reconciled = read.reconciled] \in Stock!AdRow
  BY <1>1, <1>2 DEF Stock!AdRow
<1>5. LET new == Stock!Projected(row, read, n) IN
      new.stock = q /\ (new.active <=> ~(q = 0)) /\ new.stockSync = sync
  BY <1>3 DEF Stock!AdRow
<1> QED
  BY <1>1, <1>2, <1>3, <1>4, <1>5 DEF q

LEMMA ProjectKeeps ==
  ASSUME ProjectionInv, Stock!StockAssumption, NEW w \in StockWorkers,
         NEW d \in StockAds, Stock!StockProject(w, d)
  PROVE  ProjectionInv'
<1> DEFINE n == projector[w].event
           read == projector[w].read[d]
           q == stockEvents[n].quantity
<1>1. /\ w \in Projecting /\ d \in projector[w].todo /\ Stock!Proceed(w, d)
      /\ missed' = missed \ {d}
      /\ UNCHANGED <<available, offerable, stockEvents, stockQueue,
                     catalogEvents, catalogQueue, crashes>>
  BY DEF Stock!StockProject, Projecting, Stock!external, Stock!events,
         Stock!queues
<1>2. /\ ProjectionTypes /\ projected[d] \in Stock!AdRow
      /\ read = projected[d] /\ n \in 1 .. Count
      /\ missed' \subseteq StockAds
  BY <1>1, EventServed DEF ProjectionInv, ProjectionTypes, ReadIsCurrent
<1>3. CASE Stock!Applied(read, n) /\ projected' = projected
  <2>1. projected[d].stockSync.status = "applied"
        /\ projected[d].stockSync.quantity = q
    BY <1>2, <1>3, EvidenceType DEF Stock!Applied
  <2>2. projected[d].stock = q /\ (projected[d].active <=> q > 0)
    BY <2>1 DEF ProjectionInv, NotedIsShown, Shows
  <2>3. projected' = [projected EXCEPT ![d] = projected[d]]
    BY <1>2, <1>3 DEF ProjectionTypes
  <2> QED
    BY <1>1, <1>2, <2>1, <2>2, <2>3, ProjectionProceeds
<1>4. CASE projected' = [projected EXCEPT ![d] =
                           Stock!Projected(projected[d], read, n)]
  <2> DEFINE new == Stock!Projected(projected[d], read, n)
  <2>1. /\ new \in Stock!AdRow /\ new.stock = q /\ (new.active <=> q > 0)
        /\ new.stockSync.quantity = q
    BY <1>2, ProjectedType
  <2>2. projected' = [projected EXCEPT ![d] = new]
    BY <1>4
  <2> HIDE DEF new
  <2> QED
    BY <1>1, <1>2, <2>1, <2>2, ProjectionProceeds
<1> QED
  BY <1>3, <1>4 DEF Stock!StockProject

LEMMA ProjectFails ==
  ASSUME ProjectionInv, Stock!StockAssumption, NEW w \in StockWorkers,
         NEW d \in StockAds, Stock!StockProjectFails(w, d)
  PROVE  ProjectionInv'
<1> DEFINE n == projector[w].event
           read == projector[w].read[d]
           sync == Stock!Evidence(n, "failed")
           new == [projected[d] EXCEPT !.stockSync = sync,
                     !.catalogSync = read.catalogSync,
                     !.reconciled = read.reconciled]
<1>1. /\ w \in Projecting /\ d \in projector[w].todo /\ Stock!Proceed(w, d)
      /\ missed' = missed \cup {d}
      /\ UNCHANGED <<available, offerable, stockEvents, stockQueue,
                     catalogEvents, catalogQueue, crashes>>
  BY DEF Stock!StockProjectFails, Projecting, Stock!external, Stock!events,
         Stock!queues
<1>2. /\ ProjectionTypes /\ projected[d] \in Stock!AdRow
      /\ read = projected[d] /\ n \in 1 .. Count
      /\ missed' \subseteq StockAds
  BY <1>1, EventServed DEF ProjectionInv, ProjectionTypes, ReadIsCurrent
<1>3. sync \in Stock!StockSync /\ sync.status = "failed"
  BY <1>2, EvidenceType
<1>4. CASE projected' = projected
  <2>1. projected' = [projected EXCEPT ![d] = projected[d]]
    BY <1>2, <1>4 DEF ProjectionTypes
  <2>2. projected[d].stockSync.status = "applied" =>
          /\ projected[d].stock = projected[d].stockSync.quantity
          /\ projected[d].active <=> projected[d].stockSync.quantity > 0
    BY DEF ProjectionInv, NotedIsShown, Shows
  <2> QED
    BY <1>1, <1>2, <2>1, <2>2, ProjectionProceeds
<1>5. CASE projected' = [projected EXCEPT ![d].stockSync = sync,
                           ![d].catalogSync = read.catalogSync,
                           ![d].reconciled = read.reconciled]
  <2> HIDE DEF sync
  <2>1. new \in Stock!AdRow /\ new.stockSync = sync
    BY <1>2, <1>3 DEF Stock!AdRow
  <2>2. projected' = [projected EXCEPT ![d] = new]
    BY <1>2, <1>5 DEF ProjectionTypes, Stock!AdRow
  <2> HIDE DEF new
  <2> QED
    BY <1>1, <1>2, <1>3, <2>1, <2>2, ProjectionProceeds
<1> QED
  BY <1>4, <1>5 DEF Stock!StockProjectFails

\* The event that has waited longest is taken.
LEMMA DeliverKeeps ==
  ASSUME ProjectionInv, Stock!StockAssumption, NEW w \in StockWorkers,
         Stock!StockDeliver(w)
  PROVE  ProjectionInv'
<1>1. /\ stockQueue # {} /\ Projecting = {} /\ ProjectionTypes /\ Count \in Nat
      /\ UNCHANGED <<available, offerable, stockEvents, catalogEvents,
                     catalogQueue, projected, crashes>>
  BY FewRun, CountIsNat
     DEF ProjectionInv, Stock!StockDeliver, Stock!MayStart, Stock!external,
         Stock!events
<1>2. PICK k \in 0 .. Count : stockQueue = (k + 1) .. Count
  BY DEF ProjectionInv, LatestWait
<1>3. k + 1 \in stockQueue /\ \A m \in stockQueue : k + 1 <= m
  BY <1>1, <1>2
<1>4. Stock!Min(stockQueue) = k + 1
  <2>1. \A x : x \in stockQueue /\ (\A m \in stockQueue : x <= m) => x = k + 1
    BY <1>1, <1>2, <1>3
  <2> QED
    BY <1>3, <2>1 DEF Stock!Min
<1> DEFINE n == k + 1
<1>5. /\ n \in 1 .. Count
      /\ stockQueue' = (n + 1) .. Count
  <2>1. stockQueue' = stockQueue \ {k + 1}
    BY <1>4 DEF Stock!StockDeliver
  <2> QED
    BY <1>1, <1>2, <1>3, <2>1
<1>6. NotedIsShown' /\ LastIsAvailable'
  BY <1>1 DEF ProjectionInv, NotedIsShown, LastIsAvailable, Count, Shows
<1>7. Stock!Existing' = Stock!Existing /\ Stock!Existing \subseteq StockAds
  BY <1>1 DEF Stock!Existing
\* Nobody projects: there are no ads, or the read has failed.
<1>8. CASE /\ UNCHANGED projector
           /\ \/ Stock!Existing = {} /\ UNCHANGED missed
              \/ missed' = Stock!Existing
  <2>1. Projecting' = {}
    BY <1>1, <1>8 DEF Projecting
  <2>2. Stock!Existing' \ missed' = {}
    BY <1>7, <1>8
  <2>3. ProjectionTypes'
    BY <1>1, <1>7, <1>8 DEF ProjectionTypes
  <2>4. LatestWait'
    BY <1>1, <1>5, <2>1 DEF LatestWait, Count
  <2> QED
    BY <1>6, <2>1, <2>2, <2>3, <2>4
       DEF ProjectionInv, OneProjects, ReadIsCurrent, ServedIsShown, CaughtUp
<1>9. CASE Stock!Begin(w, "stock", "ads", n, Stock!Existing) /\ UNCHANGED missed
  <2> DEFINE rows == [d \in StockAds |-> IF d \in Stock!Existing
                                         THEN projected[d] ELSE Stock!NoAd]
             row == [job |-> "stock", pc |-> "ads", event |-> n,
                     todo |-> Stock!Existing, read |-> rows, quantity |-> 0]
  <2>1. Stock!NoAd \in Stock!AdRow
    BY StockParameters
       DEF Stock!NoAd, Stock!NewAd, Stock!AdRow, Stock!StockAssumption
  <2>2. rows \in [StockAds -> Stock!AdRow]
    BY <1>1, <2>1 DEF ProjectionTypes
  <2>3. \A d \in Stock!Existing : rows[d] = projected[d]
    BY <1>7
  <2>4. n \in 1 .. MaxStockEvents
    BY <1>1, <1>5, StockParameters DEF ProjectionTypes, Count
  <2>5. projector' = [projector EXCEPT ![w] = row]
    BY <1>9 DEF Stock!Begin
  <2> HIDE DEF rows
  <2>6. /\ row \in ProjectionLocals /\ row.event = n /\ row.job = "stock"
        /\ row.todo = Stock!Existing /\ row.read = rows
    BY <1>7, <2>2, <2>4 DEF ProjectionLocals
  <2> HIDE DEF row, n
  <2>7. /\ projector' \in [StockWorkers -> ProjectionLocals \cup {Stock!Idle}]
        /\ projector'[w] = row
        /\ \A v \in StockWorkers \ {w} : projector'[v] = projector[v]
    BY <1>1, <2>5, <2>6 DEF ProjectionTypes
  <2>8. Projecting' = {w}
    BY <1>1, <2>6, <2>7 DEF Projecting
  <2>9. ProjectionTypes'
    BY <1>1, <1>9, <2>7 DEF ProjectionTypes
  <2>10. LatestWait'
    BY <1>1, <1>5, <2>6, <2>7, <2>8 DEF LatestWait, Count
  <2>11. ReadIsCurrent'
    BY <1>1, <2>3, <2>6, <2>7, <2>8 DEF ReadIsCurrent
  <2>12. ServedIsShown' /\ CaughtUp' /\ OneProjects'
    BY <1>7, <2>6, <2>7, <2>8 DEF ServedIsShown, CaughtUp, OneProjects
  <2> QED
    BY <1>6, <2>9, <2>10, <2>11, <2>12 DEF ProjectionInv
<1> QED
  BY <1>4, <1>8, <1>9 DEF Stock!StockDeliver

LEMMA ChangeKeeps ==
  ASSUME ProjectionInv, Stock!StockAssumption, Stock!ChangeStock
  PROVE  ProjectionInv'
<1>1. /\ ProjectionTypes /\ Count \in Nat /\ Count < MaxStockEvents
      /\ UNCHANGED <<offerable, catalogEvents, catalogQueue, projected,
                     projector, crashes, missed>>
      /\ stockQueue' = stockQueue \cup {Count + 1}
  BY CountIsNat DEF ProjectionInv, Stock!ChangeStock, Count
<1>2. PICK q \in Quantities, type \in {"stock.updated", "stock.out"} :
        /\ available' = q
        /\ stockEvents' = Append(stockEvents, [type |-> type, quantity |-> q])
  BY DEF Stock!ChangeStock
<1> DEFINE event == [type |-> type, quantity |-> q]
<1>3. event \in Stock!StockEvent /\ event.quantity = q
  BY DEF Stock!StockEvent
<1> HIDE DEF event
<1>4. /\ stockEvents' \in Seq(Stock!StockEvent)
      /\ Count' = Count + 1 /\ stockEvents'[Count + 1] = event
      /\ \A i \in 1 .. Count : stockEvents'[i] = stockEvents[i]
  BY <1>1, <1>2, <1>3 DEF ProjectionTypes, Count, event
<1>5. ProjectionTypes'
  BY <1>1, <1>2, <1>4, StockParameters DEF ProjectionTypes, Count
<1>6. Projecting' = Projecting /\ Stock!Existing' = Stock!Existing
  BY <1>1 DEF Projecting, Stock!Existing
<1>7. /\ LatestWait' /\ stockQueue' # {}
  <2>1. PICK k \in 0 .. Count : /\ stockQueue = (k + 1) .. Count
                                /\ \A w \in Projecting :
                                     k # 0 /\ projector[w].event = k
    BY DEF ProjectionInv, LatestWait
  <2>2. k \in 0 .. Count' /\ stockQueue' = (k + 1) .. Count'
    BY <1>1, <1>4, <2>1
  <2> QED
    BY <1>1, <1>6, <2>1, <2>2 DEF LatestWait
<1>8. LastIsAvailable'
  BY <1>2, <1>3, <1>4 DEF LastIsAvailable
<1>9. ServedIsShown'
  <2> SUFFICES ASSUME NEW w \in Projecting,
                      NEW d \in Stock!Existing \ (missed \cup projector[w].todo)
               PROVE  Shows(d, stockEvents[projector[w].event].quantity)'
    BY <1>1, <1>6 DEF ServedIsShown
  <2>1. stockEvents'[projector[w].event] = stockEvents[projector[w].event]
    BY <1>4, EventServed
  <2> QED
    BY <1>1, <2>1 DEF ProjectionInv, ServedIsShown, Shows
<1>10. OneProjects' /\ NotedIsShown' /\ ReadIsCurrent' /\ CaughtUp'
  BY <1>1, <1>6, <1>7
     DEF ProjectionInv, OneProjects, NotedIsShown, ReadIsCurrent, CaughtUp,
         Shows
<1> QED
  BY <1>5, <1>7, <1>8, <1>9, <1>10 DEF ProjectionInv

\* The event being served waits again.
LEMMA CrashKeeps ==
  ASSUME ProjectionInv, Stock!StockAssumption, Stock!Crash
  PROVE  ProjectionInv'
<1>1. /\ ProjectionTypes /\ Count \in Nat
      /\ UNCHANGED <<available, offerable, stockEvents, catalogEvents,
                     projected, missed>>
      /\ projector' = [w \in StockWorkers |-> Stock!Idle]
      /\ stockQueue' = stockQueue \cup Stock!Unacked("stock")
      /\ catalogQueue' = catalogQueue \cup Stock!Unacked("catalog")
      /\ crashes' \in 0 .. MaxCrashes
  BY CountIsNat, StockParameters
     DEF ProjectionInv, ProjectionTypes, Stock!Crash, Stock!external,
         Stock!events
<1>2. catalogQueue' = {}
  <2>1. Stock!Unacked("catalog") = {}
    BY <1>1, OnlyStockJobs DEF Stock!Unacked
  <2> QED
    BY <1>1, <2>1 DEF ProjectionTypes
<1>3. Projecting' = {} /\ Stock!Existing' = Stock!Existing
  BY <1>1, IdleDoesNothing DEF Projecting, Stock!Existing
<1>4. ProjectionTypes'
  BY <1>1, <1>2 DEF ProjectionTypes
<1>5. Stock!Unacked("stock") = {projector[w].event : w \in Projecting}
  BY <1>1, OnlyStockJobs DEF Stock!Unacked, Projecting
<1>6. LatestWait' /\ (stockQueue' = {} => stockQueue = {} /\ Projecting = {})
  <2>1. PICK k \in 0 .. Count : /\ stockQueue = (k + 1) .. Count
                                /\ \A w \in Projecting :
                                     k # 0 /\ projector[w].event = k
    BY DEF ProjectionInv, LatestWait
  <2>2. CASE Projecting = {}
    BY <1>1, <1>3, <1>5, <2>1, <2>2 DEF LatestWait, Count
  <2>3. CASE Projecting # {}
    <3>1. Stock!Unacked("stock") = {k} /\ k # 0
      BY <1>5, <2>1, <2>3
    <3>2. k - 1 \in 0 .. Count /\ stockQueue' = ((k - 1) + 1) .. Count
      BY <1>1, <2>1, <3>1
    <3> QED
      BY <1>1, <1>3, <3>1, <3>2 DEF LatestWait, Count
  <2> QED
    BY <2>2, <2>3
<1>7. CaughtUp'
  BY <1>1, <1>3, <1>6 DEF ProjectionInv, CaughtUp, Shows
<1>8. /\ OneProjects' /\ LastIsAvailable' /\ NotedIsShown' /\ ReadIsCurrent'
      /\ ServedIsShown'
  BY <1>1, <1>3 DEF ProjectionInv, OneProjects, LastIsAvailable, NotedIsShown,
     ReadIsCurrent, ServedIsShown, Count, Shows
<1> QED
  BY <1>4, <1>6, <1>7, <1>8 DEF ProjectionInv

LEMMA ProjectionStays ==
  ASSUME ProjectionInv, UNCHANGED StockVars PROVE ProjectionInv'
<1>1. UNCHANGED <<available, offerable, stockEvents, stockQueue, catalogEvents,
                  catalogQueue, projected, projector, crashes, missed>>
  BY DEF StockVars
<1>2. ProjectionTypes' /\ OneProjects' /\ LatestWait' /\ LastIsAvailable'
  BY <1>1 DEF ProjectionInv, ProjectionTypes, OneProjects, LatestWait,
     LastIsAvailable, Projecting, Count
<1>3. NotedIsShown' /\ ReadIsCurrent' /\ ServedIsShown' /\ CaughtUp'
  BY <1>1
     DEF ProjectionInv, NotedIsShown, ReadIsCurrent, ServedIsShown, CaughtUp,
         Projecting, Shows, Stock!Existing
<1> QED
  BY <1>2, <1>3 DEF ProjectionInv

\* The other jobs are not begun, and no Catalog event is sent.
LEMMA ProjectionNext ==
  ASSUME ProjectionInv, Stock!StockAssumption, Stock!Next
  PROVE  ProjectionInv'
<1>1. /\ ProjectionTypes /\ catalogEvents = 0 /\ catalogQueue = {}
      /\ offerable = TRUE
  BY DEF ProjectionInv, ProjectionTypes
<1>2. ~Stock!StopOffering /\ ~Stock!OfferAgain
  BY <1>1 DEF Stock!StopOffering, Stock!OfferAgain
<1>3. ASSUME NEW w \in StockWorkers, Stock!Work(w) PROVE ProjectionInv'
  <2>1. projector[w].job \notin {"catalog", "reconcile", "sync"}
    BY <1>1, OnlyStockJobs
  <2>2. ~Stock!CatalogDeliver(w)
    BY <1>1 DEF Stock!CatalogDeliver
  <2>3. ~Stock!ReconcileCatalog(w) /\ ~Stock!SyncFindAd(w)
        /\ ~Stock!CatalogApplyFails(w)
    BY <2>1
       DEF Stock!ReconcileCatalog, Stock!SyncFindAd, Stock!CatalogApplyFails
  <2>4. \A d \in StockAds :
          /\ ~Stock!CatalogApply(w, d) /\ ~Stock!ReconcileWarehouse(w, d)
          /\ ~Stock!ReconcileDisable(w, d) /\ ~Stock!SyncUpdate(w, d)
          /\ ~Stock!SyncCreate(w, d)
    BY <2>1 DEF Stock!CatalogApply, Stock!ReconcileWarehouse,
       Stock!ReconcileDisable, Stock!SyncUpdate, Stock!SyncCreate
  <2> QED
    BY <1>3, <2>2, <2>3, <2>4, DeliverKeeps, ProjectKeeps, ProjectFails
       DEF Stock!Work
<1>4. \A w \in StockWorkers : ~Stock!ReconcileList(w) /\ ~Stock!SyncReadStock(w)
  BY DEF Stock!ReconcileList, Stock!SyncReadStock
<1>5. \A d \in StockAds : /\ \A active \in BOOLEAN : ~Stock!SetActive(d, active)
                         /\ ~Stock!Publishing(d)
  BY DEF Stock!SetActive, Stock!Publishing, Stock!CheckPolicy, Stock!ClaimAd,
     Stock!CreateDraft, Stock!EditAd, Stock!Prepare, Stock!PublishAd,
     Stock!SellerWrites
<1> QED
  BY <1>2, <1>3, <1>4, <1>5, ChangeKeeps, CrashKeeps DEF Stock!Next

LEMMA ProjectionInit ==
  ASSUME Stock!StockAssumption, Stock!Init PROVE ProjectionInv
<1>1. /\ available \in Quantities \ {0} /\ offerable = TRUE
      /\ stockEvents = <<>> /\ catalogEvents = 0
      /\ stockQueue = {} /\ catalogQueue = {}
      /\ projected \in [StockAds -> {Stock!NoAd,
                                     Stock!NewAd("published", available)}]
      /\ projector = [w \in StockWorkers |-> Stock!Idle]
      /\ crashes = 0 /\ missed = {}
  BY DEF Stock!Init
<1>2. available \in Nat /\ available > 0
  BY <1>1, StockParameters
<1>3. /\ Stock!NoAd \in Stock!AdRow
      /\ Stock!NewAd("published", available) \in Stock!AdRow
  BY <1>1, StockParameters
     DEF Stock!NoAd, Stock!NewAd, Stock!AdRow, Stock!StockAssumption
<1>4. Count = 0
  BY <1>1 DEF Count
<1>5. ProjectionTypes
  BY <1>1, <1>3, StockParameters DEF ProjectionTypes, Stock!StockAssumption
<1>6. Projecting = {}
  BY <1>1, IdleDoesNothing DEF Projecting
<1>7. OneProjects /\ LastIsAvailable /\ ReadIsCurrent /\ ServedIsShown
  BY <1>4, <1>6 DEF OneProjects, LastIsAvailable, ReadIsCurrent, ServedIsShown
<1>8. LatestWait
  <2>1. 0 \in 0 .. Count /\ stockQueue = (0 + 1) .. Count
    BY <1>1, <1>4
  <2> QED
    BY <1>6, <2>1 DEF LatestWait
<1>9. NotedIsShown
  <2>1. \A d \in StockAds : projected[d].stockSync = Stock!NoSync
    BY <1>1 DEF Stock!NoAd, Stock!NewAd
  <2> QED
    BY <2>1 DEF NotedIsShown, Stock!NoSync
<1>10. CaughtUp
  <2>1. ASSUME NEW d \in Stock!Existing PROVE Shows(d, available)
    <3>1. projected[d] = Stock!NewAd("published", available)
      BY <1>1, <2>1 DEF Stock!Existing, Stock!NoAd, Stock!NewAd
    <3>2. /\ Stock!NewAd("published", available).stock = available
          /\ Stock!NewAd("published", available).active = (available > 0)
      BY DEF Stock!NewAd
    <3> QED
      BY <1>2, <3>1, <3>2 DEF Shows
  <2> QED
    BY <2>1 DEF CaughtUp
<1> QED
  BY <1>5, <1>7, <1>8, <1>9, <1>10 DEF ProjectionInv
-----------------------------------------------------------------------------
(***************************************************************************)
(* Ads and the timer.  The ads are in rotation: a write sends an ad to the *)
(* end and lets the others move up, so that none is passed over.           *)
(***************************************************************************)
AdTypes ==
  /\ ad \in [Ads -> Timer!AdRow]
  /\ listing \in [Ads -> [online: BOOLEAN, content: Timer!Contents,
                          date: Timer!Days]]
  /\ worker \in [Timer!Workers ->
                   Timer!Locals \cup {Timer!Idle}]
  /\ prepared \in [Ads -> Timer!Contents \cup {Timer!None}]
  /\ day \in Timer!Days /\ edits \in Timer!Contents

CountTypes ==
  /\ expiry \in [Ads -> [left: 0 .. Lifetime, known: BOOLEAN]]
  /\ requests \in 0 .. MaxRequests
  /\ activeAdCount \in 0 .. Cardinality(Ads) + requests

\* Every ad has its turn.
Rotation ==
  /\ order \in [1 .. Cardinality(Ads) -> Ads]
  /\ \A a \in Ads : \E k \in 1 .. Cardinality(Ads) : order[k] = a

AdsInv == AdTypes /\ CountTypes /\ Rotation

-----------------------------------------------------------------------------
LEMMA AdCardinality == \A S : Timer!Cardinality(S) = Cardinality(S)
BY DEF Timer!Cardinality, Cardinality

LEMMA FiniteAds == IsFiniteSet(Ads)
BY Parameters

LEMMA AdCount == Cardinality(Ads) \in Nat
BY FiniteAds, FS_CardinalityType

LEMMA StoreRotates ==
  ASSUME Rotation, NEW a \in Ads, NEW row,
         Timer!Store(a, row)
  PROVE  Rotation'
<1> DEFINE n == Cardinality(Ads)
           p == Timer!Place(a)
           front == SubSeq(order, 1, p - 1)
           back == SubSeq(order, p + 1, n)
           rest == front \o back
<1>1. n \in Nat
  BY AdCount
<1>2. order \in Seq(Ads) /\ Len(order) = n /\ DOMAIN order = 1 .. n
  BY <1>1 DEF Rotation
<1>3. p \in 1 .. n /\ order[p] = a
  BY <1>2 DEF Rotation, Timer!Place
<1>4. order' = Append(rest, a)
  BY <1>2 DEF Timer!Store, Timer!RemoveAt
<1> HIDE DEF n, p
<1>5. /\ front \in Seq(Ads) /\ Len(front) = p - 1
      /\ \A i \in 1 .. p - 1 : front[i] = order[i]
  BY <1>1, <1>2, <1>3
<1>6. /\ back \in Seq(Ads) /\ Len(back) = n - p
      /\ \A i \in 1 .. n - p : back[i] = order[p + i]
  BY <1>1, <1>2, <1>3
<1> HIDE DEF front, back
<1>7. /\ rest \in Seq(Ads) /\ Len(rest) = n - 1
      /\ \A i \in 1 .. p - 1 : rest[i] = order[i]
      /\ \A i \in p .. n - 1 : rest[i] = order[i + 1]
  <2>1. rest \in Seq(Ads) /\ Len(rest) = n - 1
    <3>1. rest \in Seq(Ads) /\ Len(rest) = Len(front) + Len(back)
      BY <1>5, <1>6, ConcatProperties
    <3> QED
      BY <1>1, <1>3, <1>5, <1>6, <3>1
  <2>2. \A i \in 1 .. p - 1 : rest[i] = order[i]
    BY <1>1, <1>3, <1>5, <1>6
  <2>3. ASSUME NEW i \in p .. n - 1 PROVE rest[i] = order[i + 1]
    <3>1. rest[i] = back[i - Len(front)]
      BY <1>1, <1>3, <1>5, <1>6
    <3>2. i - Len(front) \in 1 .. n - p /\ p + (i - Len(front)) = i + 1
      BY <1>1, <1>3, <1>5
    <3> QED
      BY <1>6, <3>1, <3>2
  <2> QED
    BY <2>1, <2>2, <2>3
<1> HIDE DEF rest
<1>8. /\ order' \in Seq(Ads) /\ Len(order') = n
      /\ order'[n] = a
      /\ \A i \in 1 .. n - 1 : order'[i] = rest[i]
  BY <1>1, <1>3, <1>4, <1>7
<1>9. ASSUME NEW k \in 1 .. n
      PROVE  \/ \E j \in 1 .. k : order'[j] = order[k]
             \/ order'[n] = order[k]
  <2>1. CASE k < p
    <3>1. k \in 1 .. p - 1 /\ k \in 1 .. n - 1
      BY <1>1, <1>3, <2>1
    <3>2. order'[k] = order[k] /\ k \in 1 .. k
      BY <1>7, <1>8, <3>1
    <3> QED
      BY <3>2
  <2>2. CASE k = p
    BY <1>3, <1>8, <2>2
  <2>3. CASE k > p
    <3>1. k - 1 \in p .. n - 1 /\ k - 1 \in 1 .. n - 1 /\ (k - 1) + 1 = k
      BY <1>1, <1>3, <2>3
    <3>2. order'[k - 1] = order[k] /\ k - 1 \in 1 .. k
      BY <1>7, <1>8, <3>1
    <3> QED
      BY <3>2
  <2> QED
    BY <1>1, <1>3, <2>1, <2>2, <2>3
<1>10. order' \in [1 .. n -> Ads]
  BY <1>1, <1>8
<1>11. ASSUME NEW b \in Ads PROVE \E k \in 1 .. n : order'[k] = b
  <2>1. PICK k \in 1 .. n : order[k] = b
    BY DEF Rotation, n
  <2>2. CASE order'[n] = b
    BY <1>1, <1>3, <2>2
  <2>3. ASSUME NEW j \in 1 .. k, order'[j] = b
        PROVE  \E i \in 1 .. n : order'[i] = b
    BY <1>1, <2>3
  <2> QED
    BY <1>9, <2>1, <2>2, <2>3
<1> QED
  BY <1>10, <1>11 DEF Rotation, n

LEMMA OrderStays ==
  ASSUME Rotation, UNCHANGED order PROVE Rotation'
BY DEF Rotation

\* The ads are in rotation from the start.
LEMMA RotationInit ==
  ASSUME Timer!Init PROVE Rotation
<1>1. PICK s \in SUBSET Ads :
        /\ order \in [1 .. Cardinality(s) -> s]
        /\ \A i, j \in 1 .. Cardinality(s) : i # j => order[i] # order[j]
  BY AdCardinality DEF Timer!Init, Timer!SetToAllKPermutations, Timer!SetToSeqs
<1>2. Cardinality(Ads) \in Nat /\ Cardinality(s) \in Nat /\ IsFiniteSet(s)
  BY AdCount, FS_Subset, FS_CardinalityType, FiniteAds
<1>3. Len(order) = Cardinality(s)
  BY <1>1, <1>2
<1>4. Cardinality(s) = Cardinality(Ads)
  BY <1>3, AdCardinality DEF Timer!Init
<1>5. s = Ads
  BY <1>4, FS_Subset, FiniteAds
<1> DEFINE D == 1 .. Cardinality(Ads)
<1>6. order \in Injection(D, Ads)
  BY <1>1, <1>5 DEF Injection, IsInjective
<1>7. Cardinality(D) = Cardinality(Ads)
  BY <1>2, FS_Interval
<1>8. order \in Surjection(D, Ads)
  BY <1>6, <1>7, FS_Injection, FiniteAds
<1> QED
  BY <1>8 DEF Rotation, Surjection
-----------------------------------------------------------------------------
\* The statements that write a row, and how a handler goes on, keep the types.
AdHandlers == Timer!Locals \cup {Timer!Idle}
AdPcs ==
  {"pending", "resolve", "fetch", "apply", "schedule", "disable", "count",
   "write"}

LEMMA AdParameters ==
  ASSUME Timer!AvailabilityAssumption
  PROVE  /\ MaxEdits \in Nat /\ MaxDays \in Nat /\ 0 \in 0 .. MaxInterval
         /\ Lifetime \in Nat /\ MaxRequests \in Nat
         /\ MaxInterval \in Nat /\ Timer!Interval \subseteq 0 .. MaxInterval
BY DEF Timer!AvailabilityAssumption, Timer!Interval

LEMMA AdLocals ==
  ASSUME AdTypes, NEW w \in Timer!Workers, Timer!Busy(w)
  PROVE  /\ worker[w] \in Timer!Locals
         /\ worker[w].ad \in Ads /\ worker[w].read \in Timer!AdRow
         /\ worker[w].slot \in 0 .. MaxInterval
         /\ worker[w].answer \in Timer!Answer
         /\ ad[worker[w].ad] \in Timer!AdRow
<1>1. worker[w] \in Timer!Locals
  BY DEF AdTypes, Timer!Busy
<1> QED
  BY <1>1 DEF AdTypes, Timer!Locals

LEMMA AdPutBack ==
  ASSUME AdTypes, NEW a \in Ads, NEW read \in Timer!AdRow
  PROVE  Timer!PutBack(a, read) \in Timer!AdRow
BY DEF AdTypes, Timer!PutBack, Timer!AdRow

LEMMA AdDeleted ==
  ASSUME AdTypes, NEW a \in Ads, NEW read \in Timer!AdRow
  PROVE  Timer!Deleted(a, read) \in Timer!AdRow
BY AdPutBack DEF Timer!Deleted, Timer!AdRow

LEMMA AdStored ==
  ASSUME AdTypes, NEW a \in Ads, NEW row \in Timer!AdRow, Timer!Store(a, row)
  PROVE  ad' \in [Ads -> Timer!AdRow]
BY DEF AdTypes, Timer!Store

LEMMA AdGoesOn ==
  ASSUME AdTypes, NEW w \in Timer!Workers, Timer!Busy(w),
         Timer!End(w) \/ \E pc \in AdPcs : Timer!Goto(w, pc)
  PROVE  worker' \in [Timer!Workers -> AdHandlers]
<1>1. CASE Timer!End(w)
  BY <1>1 DEF AdTypes, AdHandlers, Timer!End
<1>2. ASSUME NEW pc \in AdPcs, Timer!Goto(w, pc)
      PROVE  worker' \in [Timer!Workers -> AdHandlers]
  <2>1. [worker[w] EXCEPT !.pc = pc] \in AdHandlers
    BY AdLocals DEF Timer!Locals, AdPcs, AdHandlers
  <2> QED
    BY <1>2, <2>1 DEF AdTypes, AdHandlers, Timer!Goto
<1> QED
  BY <1>1, <1>2

LEMMA AdBegins ==
  ASSUME Timer!AvailabilityAssumption, AdTypes, NEW w \in Timer!Workers,
         NEW job \in Timer!Jobs, NEW a \in Ads, NEW pc \in AdPcs,
         Timer!Begin(w, job, pc, a)
  PROVE  worker' \in [Timer!Workers -> AdHandlers]
<1>1. PICK turn \in Timer!Interval :
        worker' = [worker EXCEPT ![w] =
          [job |-> job, ad |-> a, read |-> ad[a], slot |-> turn,
           answer |-> Timer!NoAnswer, pc |-> pc]]
  BY DEF Timer!Begin
<1>2. Timer!NoAnswer \in Timer!Answer
  BY AdParameters DEF Timer!NoAnswer, Timer!Answer, Timer!Contents, Timer!Days
<1>3. [job |-> job, ad |-> a, read |-> ad[a], slot |-> turn,
       answer |-> Timer!NoAnswer, pc |-> pc] \in AdHandlers
  BY <1>2, AdParameters DEF AdTypes, Timer!Locals, AdPcs, AdHandlers
<1> QED
  BY <1>1, <1>3 DEF AdTypes, AdHandlers

\* A handler that fetches, applies or resolves what it got.
LEMMA AdFetched ==
  ASSUME AdTypes, NEW w \in Timer!Workers, Timer!Fetch(w)
  PROVE  AdTypes'
<1> DEFINE c == worker[w]
           page == listing[c.ad]
           seen == [available |-> IF page.online THEN "yes" ELSE "no",
                    content |-> page.content, date |-> page.date]
<1>1. c \in Timer!Locals /\ c.ad \in Ads
  BY AdLocals DEF Timer!Fetch
<1>2. PICK pc \in {"resolve", "apply"} :
        \/ worker' = [worker EXCEPT ![w].answer = seen, ![w].pc = pc]
        \/ worker' = [worker EXCEPT ![w].pc = pc]
  BY DEF Timer!Fetch
<1>3. seen \in Timer!Answer
  BY <1>1 DEF AdTypes, Timer!Answer
<1> HIDE DEF seen
<1>4. PICK local \in {[c EXCEPT !.answer = seen, !.pc = pc],
                      [c EXCEPT !.pc = pc]} :
        worker' = [worker EXCEPT ![w] = local]
  BY <1>2
<1>5. local \in AdHandlers
  BY <1>1, <1>3 DEF Timer!Locals, AdHandlers
<1>6. worker' \in [Timer!Workers -> AdHandlers]
  BY <1>4, <1>5 DEF AdTypes, AdHandlers
<1> QED
  BY <1>6 DEF Timer!Fetch, Timer!clock, AdTypes, AdHandlers

LEMMA AdApplied ==
  ASSUME AdTypes, NEW w \in Timer!Workers,
         Timer!ApplyGone(w) \/ Timer!ApplyOnline(w) \/ Timer!ApplyUnknown(w)
  PROVE  AdTypes'
<1> DEFINE c == worker[w]
<1>1. /\ Timer!Busy(w) /\ c \in Timer!Locals /\ c.ad \in Ads
      /\ c.read \in Timer!AdRow /\ c.answer \in Timer!Answer
  BY AdLocals DEF Timer!ApplyGone, Timer!ApplyOnline, Timer!ApplyUnknown
<1>2. UNCHANGED <<listing, day, edits, prepared>>
  BY DEF Timer!ApplyGone, Timer!ApplyOnline, Timer!ApplyUnknown, Timer!clock,
     Timer!counters
<1>3. CASE Timer!ApplyGone(w)
  <2>1. Timer!Goto(w, "count") /\ Timer!Store(c.ad, Timer!Deleted(c.ad, c.read))
    BY <1>3 DEF Timer!ApplyGone
  <2>2. ad' \in [Ads -> Timer!AdRow]
    BY <1>1, <2>1, AdDeleted, AdStored
  <2> QED
    BY <1>1, <1>2, <2>1, <2>2, AdGoesOn DEF AdPcs, AdTypes, AdHandlers
<1>4. CASE Timer!ApplyUnknown(w)
  <2>1. UNCHANGED ad /\ \E pc \in AdPcs : Timer!Goto(w, pc)
    BY <1>4 DEF Timer!ApplyUnknown, AdPcs
  <2> QED
    BY <1>1, <1>2, <2>1, AdGoesOn DEF AdTypes, AdHandlers
<1>5. CASE Timer!ApplyOnline(w)
  <2> DEFINE row == [Timer!PutBack(c.ad, c.read) EXCEPT
                       !.content = IF c.answer.content # c.read.content
                                   THEN c.answer.content ELSE @]
  <2>1. PICK pc \in AdPcs :
          worker' = [worker EXCEPT ![w].read = row, ![w].pc = pc]
    BY <1>5 DEF Timer!ApplyOnline, AdPcs
  <2> DEFINE local == [c EXCEPT !.read = row, !.pc = pc]
  <2>2. row \in Timer!AdRow
    BY <1>1, AdPutBack DEF Timer!AdRow, Timer!Answer
  <2>3. Timer!Store(c.ad, row)
    BY <1>5 DEF Timer!ApplyOnline
  <2>4. worker' = [worker EXCEPT ![w] = local]
    BY <2>1
  <2> HIDE DEF row
  <2>5. local \in AdHandlers
    BY <1>1, <2>2 DEF Timer!Locals, AdPcs, AdHandlers
  <2> HIDE DEF local
  <2>6. worker' \in [Timer!Workers -> AdHandlers]
    BY <2>4, <2>5 DEF AdTypes, AdHandlers
  <2>7. ad' \in [Ads -> Timer!AdRow]
    BY <1>1, <2>2, <2>3, AdStored
  <2> QED
    BY <1>2, <2>6, <2>7 DEF AdTypes, AdHandlers
<1> QED
  BY <1>3, <1>4, <1>5

LEMMA AdResolved ==
  ASSUME Timer!AvailabilityAssumption, AdTypes, NEW w \in Timer!Workers,
         Timer!ResolvePending(w)
  PROVE  AdTypes'
<1> DEFINE c == worker[w]
           a == c.ad
           row == IF Timer!IsGone(c.answer) THEN Timer!Deleted(a, c.read)
                  ELSE [Timer!PutBack(a, c.read) EXCEPT !.pending = Timer!None]
<1>1. /\ c \in Timer!Locals /\ a \in Ads /\ c.read \in Timer!AdRow
  BY AdLocals DEF Timer!ResolvePending
<1>2. UNCHANGED <<listing, day, edits, prepared>>
  BY DEF Timer!ResolvePending, Timer!clock, Timer!counters
<1>3. row \in Timer!AdRow
  BY <1>1, AdPutBack, AdDeleted DEF Timer!AdRow
<1>4. UNCHANGED ad \/ Timer!Store(a, row)
  BY DEF Timer!ResolvePending
<1>5. \A r : Timer!ManagedPc(a, r) # "end" => Timer!ManagedPc(a, r) \in AdPcs
  BY DEF Timer!ManagedPc, AdPcs
<1>6. \/ worker' = [worker EXCEPT ![w] = Timer!Idle]
      \/ \E pc \in AdPcs, read \in Timer!AdRow :
           worker' = [worker EXCEPT ![w] =
             [c EXCEPT !.pc = pc, !.answer = Timer!NoAnswer, !.read = read]]
  BY <1>1, <1>3, <1>5, Zenon DEF Timer!ResolvePending
<1> HIDE DEF row
<1>7. worker' \in [Timer!Workers -> AdHandlers]
  <2>1. CASE worker' = [worker EXCEPT ![w] = Timer!Idle]
    BY <2>1 DEF AdTypes, AdHandlers
  <2>2. ASSUME NEW pc \in AdPcs, NEW read \in Timer!AdRow,
               worker' = [worker EXCEPT ![w] =
                 [c EXCEPT !.pc = pc, !.answer = Timer!NoAnswer, !.read = read]]
        PROVE  worker' \in [Timer!Workers -> AdHandlers]
    <3>1. Timer!NoAnswer \in Timer!Answer
      BY AdParameters
         DEF Timer!NoAnswer, Timer!Answer, Timer!Contents, Timer!Days
    <3>2. [c EXCEPT !.pc = pc, !.answer = Timer!NoAnswer, !.read = read]
            \in AdHandlers
      BY <1>1, <3>1, <2>2 DEF Timer!Locals, AdPcs, AdHandlers
    <3> QED
      BY <2>2, <3>2 DEF AdTypes, AdHandlers
  <2> QED
    BY <1>6, <2>1, <2>2
<1>8. ad' \in [Ads -> Timer!AdRow]
  BY <1>1, <1>3, <1>4, AdStored DEF AdTypes
<1> QED
  BY <1>2, <1>7, <1>8 DEF AdTypes, AdHandlers

\* The statements that write lastPolicyCheck, the next check or the content.
LEMMA AdWritten ==
  ASSUME Timer!AvailabilityAssumption, AdTypes, NEW w \in Timer!Workers,
         \/ Timer!Schedule(w) \/ Timer!DisableCheck(w) \/ Timer!UpdateDraft(w)
         \/ Timer!ManageOpened(w) \/ Timer!EvaluatePublishPolicy(w)
  PROVE  AdTypes'
<1> DEFINE c == worker[w]
           back == Timer!PutBack(c.ad, c.read)
<1>1. /\ Timer!Busy(w) /\ c.ad \in Ads /\ c.read \in Timer!AdRow
      /\ c.slot \in 0 .. MaxInterval /\ ad[c.ad] \in Timer!AdRow
  BY AdLocals
     DEF Timer!Schedule, Timer!DisableCheck, Timer!UpdateDraft,
         Timer!ManageOpened, Timer!EvaluatePublishPolicy
<1>2. back \in Timer!AdRow
  BY <1>1, AdPutBack
<1>3. UNCHANGED <<listing, day>>
  BY DEF Timer!Schedule, Timer!DisableCheck, Timer!UpdateDraft,
     Timer!ManageOpened, Timer!EvaluatePublishPolicy, Timer!clock
<1>4. /\ edits' \in Timer!Contents
      /\ prepared' \in [Ads -> Timer!Contents \cup {Timer!None}]
  <2>1. CASE Timer!UpdateDraft(w)
    <3>1. edits' \in Timer!Contents
      BY <2>1, AdParameters DEF Timer!UpdateDraft, AdTypes, Timer!Contents
    <3> QED
      BY <1>1, <2>1, <3>1 DEF Timer!UpdateDraft, AdTypes
  <2>2. CASE UNCHANGED <<edits, prepared>>
    BY <2>2 DEF AdTypes
  <2> QED
    BY <2>1, <2>2
       DEF Timer!Schedule, Timer!DisableCheck, Timer!ManageOpened,
           Timer!EvaluatePublishPolicy, Timer!counters
<1>5. Timer!End(w) \/ \E pc \in AdPcs : Timer!Goto(w, pc)
  BY DEF Timer!Schedule, Timer!AfterSchedule, Timer!DisableCheck,
     Timer!UpdateDraft, Timer!ManageOpened, Timer!EvaluatePublishPolicy, AdPcs
<1>6. \E row \in Timer!AdRow : Timer!Store(c.ad, row)
  <2>1. CASE Timer!Schedule(w)
    <3> DEFINE row == IF c.read.enabled THEN [back EXCEPT !.next = c.slot]
                      ELSE back
    <3>1. row \in Timer!AdRow
      BY <1>1, <1>2 DEF Timer!AdRow
    <3> QED
      BY <2>1, <3>1 DEF Timer!Schedule
  <2>2. CASE Timer!DisableCheck(w)
    <3> DEFINE row == [back EXCEPT !.enabled = FALSE]
    <3>1. row \in Timer!AdRow
      BY <1>2 DEF Timer!AdRow
    <3> QED
      BY <2>2, <3>1 DEF Timer!DisableCheck
  <2>3. CASE Timer!UpdateDraft(w)
    <3> DEFINE row == [back EXCEPT !.content = edits', !.pending = day]
    <3>1. row \in Timer!AdRow
      BY <1>2, <1>4 DEF Timer!AdRow, AdTypes
    <3> QED
      BY <2>3, <3>1 DEF Timer!UpdateDraft
  <2>4. CASE Timer!ManageOpened(w)
    <3> DEFINE row == [back EXCEPT !.enabled = TRUE, !.next = c.slot]
    <3>1. row \in Timer!AdRow
      BY <1>1, <1>2 DEF Timer!AdRow
    <3> QED
      BY <2>4, <3>1 DEF Timer!ManageOpened
  <2>5. CASE Timer!EvaluatePublishPolicy(w)
    <3> DEFINE row == [ad[c.ad] EXCEPT !.pending = Timer!None,
                                       !.enabled = FALSE, !.next = 0]
    <3>1. row \in Timer!AdRow
      BY <1>1, AdParameters DEF Timer!AdRow
    <3> QED
      BY <2>5, <3>1 DEF Timer!EvaluatePublishPolicy
  <2> QED
    BY <2>1, <2>2, <2>3, <2>4, <2>5
<1>7. ad' \in [Ads -> Timer!AdRow]
  BY <1>1, <1>6, AdStored
<1>8. worker' \in [Timer!Workers -> AdHandlers]
  BY <1>1, <1>5, AdGoesOn
<1> QED
  BY <1>3, <1>4, <1>7, <1>8 DEF AdTypes, AdHandlers

LEMMA AdEnded ==
  ASSUME AdTypes, NEW w \in Timer!Workers, Timer!Recount(w) \/ Timer!Throw(w)
  PROVE  AdTypes'
<1>1. Timer!Busy(w) /\ Timer!End(w)
  BY DEF Timer!Recount, Timer!Throw
<1>2. UNCHANGED <<ad, listing, day, edits, prepared>>
  BY DEF Timer!Recount, Timer!Throw, Timer!clock, Timer!counters
<1> QED
  BY <1>1, <1>2, AdGoesOn DEF AdTypes, AdHandlers

\* Bazos removes a listing, a human edits one, an ad is published anew.
LEMMA AdListed ==
  ASSUME Timer!AvailabilityAssumption, AdTypes, NEW a \in Ads,
         Timer!ListingRemoved(a) \/ Timer!ListingEdited(a)
  PROVE  AdTypes'
<1>1. UNCHANGED <<ad, worker, day>>
  BY DEF Timer!ListingRemoved, Timer!ListingEdited, Timer!clock
<1>2. CASE Timer!ListingRemoved(a)
  BY <1>1, <1>2 DEF Timer!ListingRemoved, AdTypes, Timer!counters
<1>3. CASE Timer!ListingEdited(a)
  <2>1. edits' \in Timer!Contents
    BY <1>3, AdParameters DEF Timer!ListingEdited, AdTypes, Timer!Contents
  <2>2. PICK shown \in Timer!Contents :
          listing' = [listing EXCEPT ![a].content = shown, ![a].date = day]
    BY <1>3, <2>1 DEF Timer!ListingEdited, AdTypes
  <2> QED
    BY <1>1, <1>3, <2>1, <2>2 DEF Timer!ListingEdited, AdTypes
<1> QED
  BY <1>2, <1>3

LEMMA AdRepublished ==
  ASSUME Timer!AvailabilityAssumption, AdTypes, NEW a \in Ads,
         Timer!Republished(a)
  PROVE  AdTypes'
<1> DEFINE row == [ad[a] EXCEPT !.status = "published", !.active = TRUE,
                                !.pending = Timer!None, !.enabled = FALSE,
                                !.next = 0]
<1>1. UNCHANGED <<worker, day, edits>> /\ Timer!Store(a, row)
  BY DEF Timer!Republished
<1>2. row \in Timer!AdRow
  <2>1. ad[a] \in Timer!AdRow
    BY DEF AdTypes
  <2> QED
    BY <2>1, AdParameters DEF Timer!AdRow
<1>3. listing' \in [Ads -> [online: BOOLEAN, content: Timer!Contents,
                            date: Timer!Days]]
  BY DEF Timer!Republished, AdTypes, Timer!AdRow
<1>4. prepared' \in [Ads -> Timer!Contents \cup {Timer!None}]
  BY DEF Timer!Republished, AdTypes
<1> HIDE DEF row
<1>5. ad' \in [Ads -> Timer!AdRow]
  BY <1>1, <1>2, AdStored
<1> QED
  BY <1>1, <1>3, <1>4, <1>5 DEF AdTypes

LEMMA AdTicks ==
  ASSUME Timer!AvailabilityAssumption, AdTypes, Timer!Tick
  PROVE  AdTypes'
<1>1. UNCHANGED <<listing, day, edits, prepared>>
  BY DEF Timer!Tick, Timer!counters
<1>2. \A n \in 0 .. MaxInterval : Timer!Down(n) \in 0 .. MaxInterval
  BY AdParameters DEF Timer!Down
<1>3. ad' \in [Ads -> Timer!AdRow]
  <2>1. ASSUME NEW a \in Ads
        PROVE  [ad[a] EXCEPT !.next = Timer!Down(@)] \in Timer!AdRow
    BY <1>2 DEF AdTypes, Timer!AdRow
  <2> QED
    BY <2>1 DEF Timer!Tick
<1>4. worker' \in [Timer!Workers -> AdHandlers]
  <2> SUFFICES ASSUME NEW w \in Timer!Workers PROVE worker'[w] \in AdHandlers
    BY DEF Timer!Tick
  <2>1. CASE Timer!Busy(w)
    <3> DEFINE local == [worker[w] EXCEPT !.read.next = Timer!Down(@),
                                          !.slot = Timer!Down(@)]
    <3>1. worker[w] \in Timer!Locals /\ worker[w].read \in Timer!AdRow
      BY <2>1, AdLocals
    <3>2. /\ worker[w].slot \in 0 .. MaxInterval
          /\ worker[w].read.next \in 0 .. MaxInterval
      BY <3>1 DEF Timer!Locals, Timer!AdRow
    <3>3. [worker[w].read EXCEPT !.next = Timer!Down(@)] \in Timer!AdRow
      BY <1>2, <3>1, <3>2 DEF Timer!AdRow
    <3>4. local \in AdHandlers
      BY <1>2, <3>1, <3>2, <3>3 DEF Timer!Locals, AdHandlers
    <3> QED
      BY <2>1, <3>4 DEF Timer!Tick
  <2>2. CASE ~Timer!Busy(w)
    BY <2>2 DEF Timer!Tick, AdHandlers
  <2> QED
    BY <2>1, <2>2
<1> QED
  BY <1>1, <1>3, <1>4 DEF AdTypes, AdHandlers

LEMMA AdTypesNext ==
  ASSUME Timer!AvailabilityAssumption, AdTypes, Timer!Next
  PROVE  AdTypes'
<1>1. ASSUME NEW a \in Ads, Timer!TimerChecks(a) PROVE AdTypes'
  <2>1. /\ Timer!Begin("timer", "timer", "fetch", a)
        /\ UNCHANGED <<ad, listing, day, edits, prepared>>
    BY <1>1 DEF Timer!TimerChecks, Timer!counters
  <2> QED
    BY <2>1, AdBegins DEF Timer!Workers, Timer!Jobs, AdPcs, AdTypes, AdHandlers
<1>2. ASSUME NEW w \in AdRequests, NEW job \in Timer!Jobs \ {"timer"},
             NEW a \in Ads,
             Timer!StartRequest(w, job, a)
      PROVE  AdTypes'
  <2>1. /\ Timer!FirstPc(job, a) # "end"
        /\ Timer!Begin(w, job, Timer!FirstPc(job, a), a)
        /\ UNCHANGED <<ad, listing, day, edits, prepared>>
    BY <1>2 DEF Timer!StartRequest, Timer!clock
  <2>2. Timer!FirstPc(job, a) \in AdPcs
    BY <2>1 DEF AdPcs, Timer!FirstPc, Timer!ManagedPc, Timer!Jobs
  <2>3. worker' \in [Timer!Workers -> AdHandlers]
    BY <2>1, <2>2, AdBegins DEF Timer!Workers
  <2> QED
    BY <2>1, <2>3 DEF AdTypes, AdHandlers
<1>3. ASSUME NEW w \in Timer!Workers, Timer!Handle(w) \/ Timer!Throw(w)
      PROVE  AdTypes'
  BY <1>3, AdFetched, AdResolved, AdApplied, AdWritten, AdEnded
     DEF Timer!Handle
<1>4. ASSUME NEW a \in Ads,
             \/ Timer!ListingRemoved(a) \/ Timer!ListingEdited(a)
             \/ Timer!Republished(a)
      PROVE  AdTypes'
  BY <1>4, AdListed, AdRepublished
<1>5. CASE Timer!NextDay
  <2>1. /\ day' \in Timer!Days
        /\ UNCHANGED <<ad, listing, worker, edits, prepared>>
    BY <1>5, AdParameters
       DEF AdTypes, Timer!NextDay, Timer!Days, Timer!counters
  <2> QED
    BY <2>1 DEF AdTypes
<1> QED
  BY <1>1, <1>2, <1>3, <1>4, <1>5, AdTicks DEF Timer!Next, Timer!TimerTick

-----------------------------------------------------------------------------
\* Only the recount and a new publication count.
LEMMA Counted ==
  ASSUME Timer!AvailabilityAssumption, CountTypes,
         \/ UNCHANGED <<expiry, requests, activeAdCount>>
         \/ UNCHANGED <<expiry, activeAdCount>> /\ requests < MaxRequests
              /\ requests' = requests + 1
         \/ UNCHANGED <<expiry, requests>>
              /\ \E S \in SUBSET Ads : activeAdCount' = Cardinality(S)
         \/ UNCHANGED <<requests, activeAdCount>> /\ Timer!Tick
         \/ \E a \in Ads : Timer!Republished(a)
  PROVE  CountTypes'
<1>1. Cardinality(Ads) \in Nat /\ MaxRequests \in Nat /\ Lifetime \in Nat
  BY AdCount, AdParameters
<1>2. CASE UNCHANGED <<expiry, requests, activeAdCount>>
  BY <1>2 DEF CountTypes
<1>3. CASE UNCHANGED <<expiry, activeAdCount>> /\ requests < MaxRequests
             /\ requests' = requests + 1
  BY <1>1, <1>3 DEF CountTypes
<1>4. ASSUME UNCHANGED <<expiry, requests>>, NEW S \in SUBSET Ads,
             activeAdCount' = Cardinality(S)
      PROVE  CountTypes'
  <2>1. Cardinality(S) \in Nat /\ Cardinality(S) <= Cardinality(Ads)
    BY FS_Subset, FS_CardinalityType, FiniteAds
  <2> QED
    BY <1>1, <1>4, <2>1 DEF CountTypes
<1>5. CASE UNCHANGED <<requests, activeAdCount>> /\ Timer!Tick
  <2>1. ASSUME NEW a \in Ads
        PROVE  [expiry[a] EXCEPT !.left = Timer!Down(@)]
                 \in [left: 0 .. Lifetime, known: BOOLEAN]
    BY <1>1 DEF CountTypes, Timer!Down
  <2> QED
    BY <1>5, <2>1 DEF CountTypes, Timer!Tick
<1>6. ASSUME NEW a \in Ads, Timer!Republished(a) PROVE CountTypes'
  <2>1. PICK known \in BOOLEAN :
          expiry' = [expiry EXCEPT ![a] = [left |-> Lifetime, known |-> known]]
    BY <1>6 DEF Timer!Republished
  <2>2. expiry' \in [Ads -> [left: 0 .. Lifetime, known: BOOLEAN]]
    BY <1>1, <2>1 DEF CountTypes
  <2>3. /\ requests < MaxRequests /\ requests' = requests + 1
        /\ activeAdCount' = activeAdCount + 1
    BY <1>6 DEF Timer!Republished
  <2> QED
    BY <1>1, <2>2, <2>3 DEF CountTypes
<1> QED
  BY <1>2, <1>3, <1>4, <1>5, <1>6

LEMMA CountsNext ==
  ASSUME Timer!AvailabilityAssumption, CountTypes, Timer!Next
  PROVE  CountTypes'
<1>1. ASSUME NEW a \in Ads, Timer!TimerChecks(a) PROVE CountTypes'
  <2>1. UNCHANGED <<expiry, requests, activeAdCount>>
    BY <1>1 DEF Timer!TimerChecks, Timer!counters
  <2> QED
    BY <2>1, Counted
<1>2. ASSUME NEW w, NEW job, NEW a, Timer!StartRequest(w, job, a)
      PROVE  CountTypes'
  <2>1. /\ UNCHANGED <<expiry, activeAdCount>> /\ requests < MaxRequests
        /\ requests' = requests + 1
    BY <1>2 DEF Timer!StartRequest, Timer!clock
  <2> QED
    BY <2>1, Counted
<1>3. ASSUME NEW w \in Timer!Workers, Timer!Handle(w) \/ Timer!Throw(w)
      PROVE  CountTypes'
  <2>1. CASE Timer!Recount(w)
    <3> DEFINE S == {a \in Ads : ad[a].active /\ ad[a].status = "published"}
    <3>1. S \in SUBSET Ads /\ activeAdCount' = Cardinality(S)
      BY <2>1, AdCardinality DEF Timer!Recount
    <3>2. UNCHANGED <<expiry, requests>>
      BY <2>1 DEF Timer!Recount, Timer!clock, Timer!counters
    <3> QED
      BY <3>1, <3>2, Counted
  <2>2. CASE ~Timer!Recount(w)
    <3>1. UNCHANGED <<expiry, requests, activeAdCount>>
      BY <1>3, <2>2
         DEF Timer!Handle, Timer!Throw, Timer!Fetch, Timer!ResolvePending,
             Timer!ApplyGone, Timer!ApplyOnline, Timer!ApplyUnknown,
             Timer!Schedule, Timer!DisableCheck, Timer!UpdateDraft,
             Timer!ManageOpened, Timer!EvaluatePublishPolicy, Timer!clock,
             Timer!counters
    <3> QED
      BY <3>1, Counted
  <2> QED
    BY <2>1, <2>2
<1>4. ASSUME NEW a \in Ads, Timer!ListingRemoved(a) \/ Timer!ListingEdited(a)
      PROVE  CountTypes'
  <2>1. UNCHANGED <<expiry, requests, activeAdCount>>
    BY <1>4
       DEF Timer!ListingRemoved, Timer!ListingEdited, Timer!clock,
           Timer!counters
  <2> QED
    BY <2>1, Counted
<1>5. ASSUME NEW a \in Ads, Timer!Republished(a) PROVE CountTypes'
  BY <1>5, Counted
<1>6. CASE Timer!Tick
  <2>1. UNCHANGED <<requests, activeAdCount>>
    BY <1>6 DEF Timer!Tick, Timer!counters
  <2> QED
    BY <1>6, <2>1, Counted
<1>7. CASE Timer!NextDay
  <2>1. UNCHANGED <<expiry, requests, activeAdCount>>
    BY <1>7 DEF Timer!NextDay, Timer!counters
  <2> QED
    BY <2>1, Counted
<1> QED
  BY <1>1, <1>2, <1>3, <1>4, <1>5, <1>6, <1>7 DEF Timer!Next, Timer!TimerTick

-----------------------------------------------------------------------------
\* A step writes one row, or leaves the order as it is.
Writes == \E a \in Ads : \E row : Timer!Store(a, row)

LEMMA OneIsWritten ==
  ASSUME AdTypes, Timer!Next
  PROVE  UNCHANGED order \/ Writes
<1>1. ASSUME NEW w \in Timer!Workers, Timer!Handle(w)
      PROVE  UNCHANGED order \/ Writes
  <2>1. Timer!Busy(w)
    BY <1>1
       DEF Timer!Handle, Timer!Fetch, Timer!ResolvePending, Timer!ApplyGone,
           Timer!ApplyOnline, Timer!ApplyUnknown, Timer!Schedule,
           Timer!Recount, Timer!DisableCheck, Timer!UpdateDraft,
           Timer!ManageOpened, Timer!EvaluatePublishPolicy
  <2>2. worker[w].ad \in Ads
    BY <2>1, AdLocals
  <2>3. UNCHANGED order \/ \E row : Timer!Store(worker[w].ad, row)
    BY <1>1, Zenon
       DEF Timer!Handle, Timer!Fetch, Timer!ResolvePending, Timer!ApplyGone,
           Timer!ApplyOnline, Timer!ApplyUnknown, Timer!Schedule,
           Timer!Recount, Timer!DisableCheck, Timer!UpdateDraft,
           Timer!ManageOpened, Timer!EvaluatePublishPolicy
  <2> QED
    BY <2>2, <2>3, Zenon DEF Writes
<1>2. ASSUME NEW a \in Ads, Timer!Republished(a) PROVE Writes
  BY <1>2, Zenon DEF Timer!Republished, Writes
<1>3. ASSUME \/ \E a : \/ Timer!TimerChecks(a) \/ Timer!ListingRemoved(a)
                       \/ Timer!ListingEdited(a)
             \/ \E w, job, a : Timer!StartRequest(w, job, a)
             \/ \E w : Timer!Throw(w)
             \/ Timer!Tick
             \/ Timer!NextDay
      PROVE  UNCHANGED order
  BY <1>3
     DEF Timer!TimerChecks, Timer!ListingRemoved, Timer!ListingEdited,
         Timer!StartRequest, Timer!Throw, Timer!Tick, Timer!NextDay
<1> QED
  BY <1>1, <1>2, <1>3, Zenon DEF Timer!Next, Timer!TimerTick

LEMMA AdsNext ==
  ASSUME Timer!AvailabilityAssumption, AdsInv, Timer!Next
  PROVE  AdsInv'
<1>1. AdTypes'
  BY AdTypesNext DEF AdsInv
<1>2. CountTypes'
  BY CountsNext DEF AdsInv
<1>3. Rotation'
  <2>1. CASE UNCHANGED order
    BY <2>1, OrderStays DEF AdsInv
  <2>2. CASE Writes
    BY <2>2, StoreRotates DEF AdsInv, Writes
  <2> QED
    BY <2>1, <2>2, OneIsWritten DEF AdsInv
<1> QED
  BY <1>1, <1>2, <1>3 DEF AdsInv

LEMMA AdsInit ==
  ASSUME Timer!AvailabilityAssumption, Timer!Init
  PROVE  AdsInv
<1>1. AdTypes
  BY AdParameters
     DEF Timer!Init, AdTypes, Timer!AdRow, Timer!Contents, Timer!Days
<1>2. CountTypes
  <2>1. activeAdCount = Cardinality(Ads)
    BY AdCardinality DEF Timer!Init
  <2> QED
    BY <2>1, AdCount, AdParameters DEF Timer!Init, CountTypes
<1> QED
  BY <1>1, <1>2, RotationInit DEF AdsInv

LEMMA AdsStay ==
  ASSUME AdsInv, UNCHANGED AdVars
  PROVE  AdsInv'
<1>1. UNCHANGED <<ad, order, expiry, activeAdCount, listing, worker, day,
                  edits, requests, prepared>>
  BY DEF AdVars
<1>2. AdTypes'
  BY <1>1 DEF AdsInv, AdTypes
<1>3. CountTypes'
  BY <1>1 DEF AdsInv, CountTypes
<1> QED
  BY <1>1, <1>2, <1>3, OrderStays DEF AdsInv

LEMMA AdsTypeOK ==
  ASSUME Timer!AvailabilityAssumption, AdsInv
  PROVE  Timer!TypeOK
<1>1. activeAdCount \in 0 .. Cardinality(Ads) + MaxRequests
  BY AdCount, AdParameters DEF AdsInv, CountTypes
<1> QED
  BY <1>1, AdCardinality
     DEF Timer!TypeOK, AdsInv, AdTypes, CountTypes, Rotation
-----------------------------------------------------------------------------
(***************************************************************************)
(* The page.  At most one refresh of the orders is in flight, exactly when *)
(* orderRefreshBusy is set, and it waits for data, not for the user; a     *)
(* refresh that had to wait waits for that one.                            *)
(***************************************************************************)
SlotRow ==
  [kind : {"idle", "render", "refresh", "timer", "claim", "open", "result",
           "enqueue"},
   pc : {"idle", "me", "data", "ready", "catalog", "sent"},
   due : Page!Some]

Shown ==
  [kind : {"loading", "view", "claiming", "handoff", "nothingDue", "queued",
           "error"},
   view : Page!Views, attempt : Page!Some, prompt : Page!Some]

Loads == {"data", "ready", "catalog"}

ViewTypes ==
  /\ activeView \in Page!Views /\ content \in Shown
  /\ publishWorkerBusy \in BOOLEAN /\ hidden \in BOOLEAN /\ meFailed \in BOOLEAN
  /\ prompted \subseteq Attempts
  /\ attempt \in [Attempts -> {"none", "queued", "submitting", "done"}]
  /\ by \in {"user", "page", "server"}

SlotTypes ==
  /\ slot \in [Slots -> SlotRow]
  /\ orderRefreshBusy \in BOOLEAN /\ orderRefreshQueued \in BOOLEAN

Bounded == starts \in 0 .. MaxStarts /\ failures \in 0 .. MaxPageFaults

Refreshes(s) == slot[s].kind = "refresh"

OneRefreshes ==
  /\ \A s \in Slots : Refreshes(s) => orderRefreshBusy /\ slot[s].pc \in Loads
  /\ \A s, t \in Slots : Refreshes(s) /\ Refreshes(t) => s = t
  /\ orderRefreshBusy => \E s \in Slots : Refreshes(s)
  /\ orderRefreshQueued => orderRefreshBusy

PageInv == ViewTypes /\ SlotTypes /\ Bounded /\ OneRefreshes

\* A refresh that had to wait waits for one that loads or is about to draw.
RefreshMoves ==
  orderRefreshQueued =>
    \E s \in Slots : slot[s].kind = "refresh" /\ slot[s].pc \in Loads

LEMMA PageTypeOK == ASSUME PageInv PROVE Page!TypeOK
BY DEF PageInv, ViewTypes, SlotTypes, Bounded, Shown, SlotRow, Page!TypeOK,
       Page!flags

LEMMA PageNotStuck == ASSUME PageInv PROVE RefreshMoves
BY DEF PageInv, OneRefreshes, Refreshes, RefreshMoves

\* A slot takes another row and the others keep theirs.
SlotTakes(s, row) == slot' = [slot EXCEPT ![s] = row]

\* The row goes on, begins a refresh, or ends one.
LEMMA SlotsTake ==
  ASSUME SlotTypes, OneRefreshes, NEW s \in Slots, NEW row \in SlotRow,
         SlotTakes(s, row),
         \/ /\ UNCHANGED <<orderRefreshBusy, orderRefreshQueued>>
            /\ row.kind = "refresh" <=> Refreshes(s)
            /\ row.kind = "refresh" => row.pc \in Loads
         \/ /\ row.kind = "refresh" /\ row.pc = "data"
            /\ Refreshes(s) \/ ~orderRefreshBusy
            /\ orderRefreshBusy' = TRUE /\ orderRefreshQueued' \in BOOLEAN
         \/ /\ row.kind # "refresh" /\ Refreshes(s)
            /\ orderRefreshBusy' = FALSE /\ orderRefreshQueued' = FALSE
  PROVE  SlotTypes' /\ OneRefreshes'
<1>1. /\ slot' \in [Slots -> SlotRow] /\ slot'[s] = row
      /\ \A t \in Slots : t # s => slot'[t] = slot[t]
  BY DEF SlotTypes, SlotTakes
<1>2. SlotTypes'
  BY <1>1 DEF SlotTypes
<1>3. CASE /\ UNCHANGED <<orderRefreshBusy, orderRefreshQueued>>
           /\ row.kind = "refresh" <=> Refreshes(s)
           /\ row.kind = "refresh" => row.pc \in Loads
  BY <1>1, <1>2, <1>3 DEF OneRefreshes, Refreshes
<1>4. CASE /\ row.kind = "refresh" /\ row.pc = "data"
           /\ Refreshes(s) \/ ~orderRefreshBusy
           /\ orderRefreshBusy' = TRUE /\ orderRefreshQueued' \in BOOLEAN
  <2>1. \A t \in Slots : t # s => ~Refreshes(t)
    BY <1>4 DEF OneRefreshes
  <2> QED
    BY <1>1, <1>2, <1>4, <2>1 DEF OneRefreshes, Refreshes, Loads
<1>5. CASE /\ row.kind # "refresh" /\ Refreshes(s)
           /\ orderRefreshBusy' = FALSE /\ orderRefreshQueued' = FALSE
  <2>1. \A t \in Slots : t # s => ~Refreshes(t)
    BY <1>5 DEF OneRefreshes
  <2> QED
    BY <1>1, <1>2, <1>5, <2>1 DEF OneRefreshes, Refreshes
<1> QED
  BY <1>3, <1>4, <1>5

LEMMA SlotsStay ==
  ASSUME SlotTypes, OneRefreshes, UNCHANGED <<slot, orderRefreshBusy>>,
         orderRefreshQueued' \in {orderRefreshQueued, orderRefreshBusy}
  PROVE  SlotTypes' /\ OneRefreshes'
BY DEF SlotTypes, OneRefreshes, Refreshes

-----------------------------------------------------------------------------
LEMMA NothingIsAnAttempt == Page!NoAttempt \in Page!Some
BY DEF Page!Some

LEMMA IdleRow == Page!Idle \in SlotRow /\ Page!Idle.kind = "idle"
BY NothingIsAnAttempt DEF SlotRow, Page!Idle

LEMMA ShownTypes ==
  /\ Page!Loading \in Shown
  /\ \A kind \in {"claiming", "handoff", "nothingDue", "queued", "error"},
       a \in Page!Some : Page!Show(kind, a) \in Shown
  /\ \A v \in Page!Views :
       [Page!Loading EXCEPT !.kind = "view", !.view = v] \in Shown
BY NothingIsAnAttempt DEF Page!Loading, Page!Show, Shown, Page!Views

\* A function of the page begins, any but a refresh.
LEMMA PageBegins ==
  ASSUME Page!ClientPageAssumption, PageInv, NEW s \in Slots, NEW kind, NEW pc,
         NEW due \in Page!Some, Page!Begin(s, kind, pc, due),
         kind \in {"render", "timer", "claim", "open", "result", "enqueue"},
         pc \in {"me", "data", "sent"},
         UNCHANGED <<orderRefreshBusy, orderRefreshQueued, failures>>
  PROVE  SlotTypes' /\ OneRefreshes' /\ Bounded'
<1> DEFINE row == [kind |-> kind, pc |-> pc, due |-> due]
<1>1. row \in SlotRow /\ row.kind = kind
  BY DEF SlotRow
<1>2. SlotTakes(s, row) /\ ~Refreshes(s) /\ row.kind # "refresh"
  BY DEF Page!Begin, Page!Idle, SlotTakes, Refreshes
<1>3. Bounded'
  BY DEF PageInv, Bounded, Page!Begin, Page!ClientPageAssumption
<1> HIDE DEF row
<1> QED
  BY <1>1, <1>2, <1>3, SlotsTake DEF PageInv

LEMMA UserActs ==
  ASSUME Page!ClientPageAssumption, PageInv, NEW s \in Slots,
         \/ \E v \in Page!Views : Page!Navigate(s, v)
         \/ Page!Refresh(s) \/ Page!claimDueAttempt(s)
         \/ Page!recordPublishResult(s)
         \/ \E a \in Attempts : \/ Page!openSubmission(s, a)
                                \/ Page!enqueuePublish(s, a)
  PROVE  PageInv'
<1> USE DEF Page!flags
<1>0. /\ content.attempt \in Page!Some /\ content \in Shown
      /\ \A a \in Attempts : a \in Page!Some
  BY DEF PageInv, ViewTypes, Shown, Page!Some
<1>1. /\ UNCHANGED <<prompted, hidden, meFailed, attempt, failures,
                     orderRefreshBusy, orderRefreshQueued>>
      /\ by' = "user"
  BY DEF Page!Navigate, Page!Refresh, Page!claimDueAttempt,
         Page!recordPublishResult, Page!openSubmission, Page!enqueuePublish
<1>2. SlotTypes' /\ OneRefreshes' /\ Bounded'
  <2>1. \E due \in Page!Some :
          \/ Page!Begin(s, "render", "me", due)
          \/ Page!Begin(s, "render", "data", due)
          \/ Page!Begin(s, "claim", "sent", due)
          \/ Page!Begin(s, "result", "sent", due)
          \/ Page!Begin(s, "open", "sent", due)
          \/ Page!Begin(s, "enqueue", "sent", due)
    BY <1>0, NothingIsAnAttempt
       DEF Page!Navigate, Page!Refresh, Page!claimDueAttempt,
           Page!recordPublishResult, Page!openSubmission, Page!enqueuePublish
  <2> QED
    BY <1>1, <2>1, PageBegins
<1>3. /\ activeView' \in Page!Views \cup {activeView}
      /\ publishWorkerBusy' \in {TRUE, publishWorkerBusy}
      /\ \/ content' = content \/ content' = Page!Loading
         \/ content' = Page!Show("claiming", Page!NoAttempt)
  <2>1. CASE \E v \in Page!Views : Page!Navigate(s, v)
    BY <2>1 DEF Page!Navigate
  <2>2. CASE Page!Refresh(s)
    BY <2>2 DEF Page!Refresh
  <2>3. CASE Page!claimDueAttempt(s)
    BY <2>3 DEF Page!claimDueAttempt
  <2>4. CASE Page!recordPublishResult(s)
    BY <2>4 DEF Page!recordPublishResult
  <2>5. CASE \E a \in Attempts :
               Page!openSubmission(s, a) \/ Page!enqueuePublish(s, a)
    BY <2>5 DEF Page!openSubmission, Page!enqueuePublish
  <2> QED
    BY <2>1, <2>2, <2>3, <2>4, <2>5
<1>4. content' \in Shown
  BY <1>0, <1>3, ShownTypes, NothingIsAnAttempt
<1>5. ViewTypes'
  BY <1>1, <1>3, <1>4 DEF PageInv, ViewTypes
<1> QED
  BY <1>2, <1>5 DEF PageInv

\* refreshVisibleOrderData begins a refresh, or notes that one has to wait.
LEMMA OrdersRefresh ==
  ASSUME Page!ClientPageAssumption, PageInv, NEW s \in Slots,
         Page!RefreshOrders(s), failures' = failures
  PROVE  SlotTypes' /\ OneRefreshes' /\ Bounded'
<1>1. CASE orderRefreshBusy
  BY <1>1, SlotsStay DEF Page!RefreshOrders, PageInv, Bounded
<1>2. CASE ~orderRefreshBusy
  <2> DEFINE row == [kind |-> "refresh", pc |-> "data", due |-> Page!NoAttempt]
  <2>1. row \in SlotRow /\ row.kind = "refresh" /\ row.pc = "data"
    BY NothingIsAnAttempt DEF SlotRow
  <2>2. Page!Begin(s, "refresh", "data", Page!NoAttempt)
    BY <1>2 DEF Page!RefreshOrders
  <2>3. SlotTakes(s, row)
    BY <2>2 DEF Page!Begin, SlotTakes
  <2>4. Bounded'
    BY <2>2 DEF PageInv, Bounded, Page!Begin, Page!ClientPageAssumption
  <2>5. orderRefreshBusy' = TRUE /\ orderRefreshQueued' \in BOOLEAN
    BY <1>2 DEF Page!RefreshOrders, PageInv, SlotTypes
  <2> HIDE DEF row
  <2> QED
    BY <1>2, <2>1, <2>3, <2>4, <2>5, SlotsTake DEF PageInv
<1> QED
  BY <1>1, <1>2

LEMMA TimersAct ==
  ASSUME Page!ClientPageAssumption, PageInv, NEW s \in Slots,
         Page!PublishTick(s) \/ Page!RefreshTick(s) \/ Page!Return(s)
  PROVE  PageInv'
<1>1. /\ UNCHANGED <<activeView, content, publishWorkerBusy, prompted, meFailed,
                     attempt, failures>>
      /\ by' \in {"user", "page"} /\ hidden' \in {FALSE, hidden}
  BY DEF Page!PublishTick, Page!RefreshTick, Page!Return, Page!flags
<1>2. ViewTypes'
  BY <1>1 DEF PageInv, ViewTypes
<1>3. CASE Page!PublishTick(s)
  <2>1. /\ Page!Begin(s, "timer", "data", Page!NoAttempt)
        /\ UNCHANGED <<orderRefreshBusy, orderRefreshQueued>>
    BY <1>3 DEF Page!PublishTick, Page!flags
  <2> QED
    BY <1>1, <1>2, <2>1, PageBegins, NothingIsAnAttempt DEF PageInv
<1>4. CASE Page!RefreshOrders(s)
  BY <1>1, <1>2, <1>4, OrdersRefresh DEF PageInv
<1>5. CASE UNCHANGED <<slot, orderRefreshBusy, orderRefreshQueued, starts>>
  BY <1>1, <1>2, <1>5, SlotsStay DEF PageInv, Bounded
<1> QED
  BY <1>3, <1>4, <1>5 DEF Page!RefreshTick, Page!Return

-----------------------------------------------------------------------------
LEMMA PromptTypes ==
  ASSUME ViewTypes, NEW shown \in Shown, NEW due \in Page!Some,
         Page!WithPrompt(shown, due)
  PROVE  content' \in Shown /\ prompted' \subseteq Attempts
<1>1. due # Page!NoAttempt => due \in Attempts
  BY DEF Page!Some
<1>2. [shown EXCEPT !.prompt = due] \in Shown
  BY DEF Shown
<1> QED
  BY <1>1, <1>2 DEF Page!WithPrompt, Page!Prompts, ViewTypes

\* A function ends; after a refresh the one that waits begins.
LEMMA PageLeaves ==
  ASSUME Page!ClientPageAssumption, PageInv, NEW s \in Slots, Page!Leave(s),
         failures' = failures
  PROVE  SlotTypes' /\ OneRefreshes' /\ Bounded'
<1> DEFINE row == [kind |-> "refresh", pc |-> "data", due |-> Page!NoAttempt]
<1>1. row \in SlotRow /\ row.kind = "refresh" /\ row.pc = "data"
  BY NothingIsAnAttempt DEF SlotRow
<1>2. Bounded'
  <2>1. starts' = starts \/ (starts < MaxStarts /\ starts' = starts + 1)
    BY DEF Page!Leave, Page!EndRefresh
  <2> QED
    BY <2>1 DEF PageInv, Bounded, Page!ClientPageAssumption
<1>3. CASE ~Refreshes(s)
  <2>1. SlotTakes(s, Page!Idle)
    BY <1>3 DEF Page!Leave, SlotTakes, Refreshes
  <2>2. UNCHANGED <<orderRefreshBusy, orderRefreshQueued>>
    BY <1>3 DEF Page!Leave, Refreshes
  <2> QED
    BY <1>2, <1>3, <2>1, <2>2, IdleRow, SlotsTake DEF PageInv
<1>4. CASE Refreshes(s)
  <2>1. Page!EndRefresh(s) /\ orderRefreshBusy = TRUE
    BY <1>4 DEF Page!Leave, Refreshes, PageInv, OneRefreshes, SlotTypes
  <2>2. CASE SlotTakes(s, row) /\ UNCHANGED orderRefreshBusy
    <3>1. orderRefreshBusy' = TRUE /\ orderRefreshQueued' \in BOOLEAN
      BY <2>1, <2>2 DEF Page!EndRefresh
    <3> HIDE DEF row
    <3> QED
      BY <1>1, <1>2, <1>4, <2>2, <3>1, SlotsTake DEF PageInv
  <2>3. CASE SlotTakes(s, Page!Idle) /\ orderRefreshBusy' = FALSE
    <3>1. orderRefreshQueued' = FALSE
      BY <2>1 DEF Page!EndRefresh
    <3> QED
      BY <1>2, <1>4, <2>3, <3>1, IdleRow, SlotsTake DEF PageInv
  <2> QED
    BY <2>1, <2>2, <2>3 DEF Page!EndRefresh, SlotTakes
<1> QED
  BY <1>3, <1>4

\* A function goes on.
LEMMA PageGoesOn ==
  ASSUME PageInv, NEW s \in Slots, NEW pc \in Loads, NEW due \in Page!Some,
         SlotTakes(s, [slot[s] EXCEPT !.pc = pc, !.due = due]),
         UNCHANGED <<orderRefreshBusy, orderRefreshQueued>>
  PROVE  SlotTypes' /\ OneRefreshes'
<1> DEFINE row == [slot[s] EXCEPT !.pc = pc, !.due = due]
<1>1. slot[s] \in SlotRow
  BY DEF PageInv, SlotTypes
<1>2. row \in SlotRow /\ row.kind = slot[s].kind /\ row.pc = pc
  BY <1>1 DEF SlotRow, Loads
<1> HIDE DEF row
<1> QED
  BY <1>2, SlotsTake DEF PageInv, Refreshes, row

LEMMA PageFails ==
  ASSUME Page!ClientPageAssumption, PageInv, NEW fails, Page!Fault(fails),
         starts' = starts
  PROVE  Bounded'
BY DEF PageInv, Bounded, Page!Fault, Page!ClientPageAssumption

LEMMA PageActs ==
  ASSUME Page!ClientPageAssumption, PageInv, NEW s \in Slots,
         \/ Page!Me(s) \/ Page!Load(s) \/ Page!Draw(s) \/ Page!DrawCatalog(s)
  PROVE  PageInv'
<1> USE DEF Page!flags
<1>0. slot[s] \in SlotRow /\ slot[s].due \in Page!Some /\ content \in Shown
  BY DEF PageInv, SlotTypes, ViewTypes, SlotRow
<1>1. CASE Page!Me(s)
  <2>1. /\ UNCHANGED <<activeView, publishWorkerBusy, orderRefreshBusy,
                       orderRefreshQueued, prompted, hidden, attempt, starts>>
        /\ by' = "page" /\ meFailed' \in {TRUE, meFailed}
        /\ content' = content \/ content' = Page!Loading
    BY <1>1 DEF Page!Me
  <2>2. Bounded'
    BY <1>1, <2>1, PageFails DEF Page!Me
  <2>3. ViewTypes'
    BY <2>1, ShownTypes DEF PageInv, ViewTypes
  <2>4. ~Refreshes(s)
    BY <1>1 DEF Page!Me, PageInv, OneRefreshes, Loads
  <2>5. CASE SlotTakes(s, Page!Idle)
    BY <2>1, <2>2, <2>3, <2>4, <2>5, IdleRow, SlotsTake DEF PageInv
  <2>6. CASE slot' = [slot EXCEPT ![s].pc = "data"]
    <3>1. SlotTakes(s, [slot[s] EXCEPT !.pc = "data", !.due = slot[s].due])
      BY <1>0, <2>6 DEF SlotTakes, SlotRow, PageInv, SlotTypes
    <3> QED
      BY <1>0, <2>1, <2>2, <2>3, <3>1, PageGoesOn DEF PageInv, Loads
  <2> QED
    BY <1>1, <2>5, <2>6 DEF Page!Me, SlotTakes
<1>2. CASE Page!Load(s)
  <2>1. /\ UNCHANGED <<activeView, publishWorkerBusy, orderRefreshBusy,
                       content, orderRefreshQueued, prompted, hidden, attempt,
                       starts, meFailed>>
        /\ by' = "server"
    BY <1>2 DEF Page!Load
  <2>2. Bounded'
    BY <1>2, <2>1, PageFails DEF Page!Load
  <2>3. PICK due \in Page!Some :
          slot' = [slot EXCEPT ![s].pc = "ready", ![s].due = due]
    BY <1>2 DEF Page!Load
  <2>4. SlotTakes(s, [slot[s] EXCEPT !.pc = "ready", !.due = due])
    BY <1>0, <2>3 DEF SlotTakes, SlotRow, PageInv, SlotTypes
  <2>5. ViewTypes'
    BY <2>1 DEF PageInv, ViewTypes
  <2> QED
    BY <2>1, <2>2, <2>4, <2>5, PageGoesOn DEF PageInv, Loads
<1>3. ASSUME NEW shown \in Shown,
             Page!WithPrompt(shown, slot[s].due), Page!Leave(s), by' = "page",
             meFailed' \in {FALSE, meFailed},
             UNCHANGED <<activeView, publishWorkerBusy, hidden, attempt,
                         failures>>
      PROVE  PageInv'
  <2>1. content' \in Shown /\ prompted' \subseteq Attempts
    BY <1>0, <1>3, PromptTypes DEF PageInv
  <2>2. ViewTypes'
    BY <1>3, <2>1 DEF PageInv, ViewTypes
  <2> QED
    BY <1>3, <2>2, PageLeaves DEF PageInv
<1>4. \A v \in Page!Views :
        [Page!Loading EXCEPT !.kind = "view", !.view = v] \in Shown
  BY ShownTypes
<1>5. CASE Page!Draw(s)
  <2>1. /\ UNCHANGED <<activeView, publishWorkerBusy, hidden, attempt, failures>>
        /\ by' = "page" /\ meFailed' \in {FALSE, meFailed}
    BY <1>5 DEF Page!Draw
  <2>2. CASE Page!WithPrompt(content, slot[s].due) /\ Page!Leave(s)
    BY <1>0, <1>3, <2>1, <2>2
  <2>3. CASE /\ content' = Page!Loading
             /\ slot' = [slot EXCEPT ![s].pc = "catalog"]
             /\ UNCHANGED <<prompted, orderRefreshBusy, orderRefreshQueued,
                            starts>>
    <3>1. SlotTakes(s, [slot[s] EXCEPT !.pc = "catalog", !.due = slot[s].due])
      BY <1>0, <2>3 DEF SlotTakes, SlotRow, PageInv, SlotTypes
    <3>2. ViewTypes'
      BY <2>1, <2>3, ShownTypes DEF PageInv, ViewTypes
    <3>3. Bounded'
      BY <2>1, <2>3 DEF PageInv, Bounded
    <3> QED
      BY <1>0, <2>3, <3>1, <3>2, <3>3, PageGoesOn DEF PageInv, Loads
  <2>4. CASE Page!WithPrompt(Page!Drawn(s), slot[s].due) /\ Page!Leave(s)
    <3>1. Page!Drawn(s) \in Shown
      BY <1>4 DEF Page!Drawn, PageInv, ViewTypes
    <3> QED
      BY <1>3, <2>1, <2>4, <3>1
  <2> QED
    BY <1>5, <2>2, <2>3, <2>4 DEF Page!Draw
<1>6. CASE Page!DrawCatalog(s)
  <2> DEFINE shown == [Page!Loading EXCEPT !.kind = "view", !.view = "catalog"]
  <2>1. shown \in Shown
    BY <1>4 DEF Page!Views
  <2>2. /\ Page!WithPrompt(shown, slot[s].due) /\ Page!Leave(s) /\ by' = "page"
        /\ UNCHANGED <<activeView, publishWorkerBusy, hidden, attempt, failures>>
        /\ meFailed' \in {FALSE, meFailed}
    BY <1>6 DEF Page!DrawCatalog
  <2> HIDE DEF shown
  <2> QED
    BY <1>3, <2>1, <2>2
<1> QED
  BY <1>1, <1>2, <1>5, <1>6

-----------------------------------------------------------------------------
LEMMA AboutAnAttempt ==
  ASSUME PageInv, NEW s \in Slots, NEW now, Page!Served(s, now)
  PROVE  Page!About(s, now) \in Page!Some
<1>1. CASE slot[s].kind = "claim"
  <2>1. PICK a \in Attempts :
          attempt[a] = "queued" /\ now = [attempt EXCEPT ![a] = "submitting"]
    BY <1>1 DEF Page!Served
  <2>2. now[a] # attempt[a]
    BY <2>1 DEF PageInv, ViewTypes
  <2>3. Page!About(s, now) \in Attempts
    BY <1>1, <2>2 DEF Page!About
  <2> QED
    BY <2>3 DEF Page!Some
<1>2. CASE slot[s].kind # "claim"
  BY <1>2 DEF Page!About, PageInv, SlotTypes, SlotRow
<1> QED
  BY <1>1, <1>2

LEMMA PageAnswers ==
  ASSUME Page!ClientPageAssumption, PageInv, NEW s \in Slots, Page!Answer(s)
  PROVE  PageInv'
<1> DEFINE next == [kind |-> "render", pc |-> "data", due |-> Page!NoAttempt]
<1>1. next \in SlotRow /\ next.kind = "render"
  BY NothingIsAnAttempt DEF SlotRow
<1>2. SlotTakes(s, Page!Idle) \/ SlotTakes(s, next)
  BY DEF Page!Answer, SlotTakes
<1>3. ~Refreshes(s)
  BY DEF Page!Answer, PageInv, OneRefreshes, Loads
<1> HIDE DEF next
<1>4. /\ publishWorkerBusy' \in BOOLEAN /\ by' = "server"
      /\ UNCHANGED <<orderRefreshBusy, orderRefreshQueued, prompted, hidden,
                     meFailed, starts>>
  BY DEF Page!Answer
<1>5. SlotTypes' /\ OneRefreshes'
  BY <1>1, <1>2, <1>3, <1>4, IdleRow, SlotsTake DEF PageInv
<1>6. Bounded'
  <2>1. failures' = failures \/ Page!Fault(TRUE)
    BY DEF Page!Answer
  <2> QED
    BY <1>4, <2>1, PageFails DEF PageInv, Bounded
<1>7. ASSUME activeView' \in {activeView, "details"}, content' \in Shown,
             attempt' \in [Attempts -> {"none", "queued", "submitting", "done"}]
      PROVE  PageInv'
  <2>1. activeView' \in Page!Views
    BY <1>7 DEF PageInv, ViewTypes, Page!Views
  <2>2. ViewTypes'
    BY <1>4, <1>7, <2>1 DEF PageInv, ViewTypes
  <2> QED
    BY <1>5, <1>6, <2>2 DEF PageInv
<1>8. ASSUME NEW now \in [Attempts -> {"none", "queued", "submitting", "done"}],
             Page!Served(s, now), attempt' = now,
             \/ activeView' = "details" /\ content' = Page!Loading
             \/ /\ activeView' = activeView
                /\ \E kind \in {"queued", "handoff"} :
                     content' = Page!Show(kind, Page!About(s, now))
      PROVE  PageInv'
  <2>1. content' \in Shown
    BY <1>8, ShownTypes, AboutAnAttempt
  <2> QED
    BY <1>7, <1>8, <2>1
<1>9. ASSUME NEW kind \in {"nothingDue", "error"},
             content' = Page!Show(kind, Page!NoAttempt),
             UNCHANGED <<activeView, attempt>>
      PROVE  PageInv'
  <2>1. content' \in Shown
    BY <1>9, ShownTypes, NothingIsAnAttempt
  <2> QED
    BY <1>7, <1>9, <2>1 DEF PageInv, ViewTypes
<1>10. CASE \E now \in [Attempts -> {"none", "queued", "submitting", "done"}] :
              /\ Page!Served(s, now) /\ attempt' = now
              /\ \/ activeView' = "details" /\ content' = Page!Loading
                 \/ /\ activeView' = activeView
                    /\ \E kind \in {"queued", "handoff"} :
                         content' = Page!Show(kind, Page!About(s, now))
  BY <1>8, <1>10
<1>11. CASE /\ content' = Page!Show("nothingDue", Page!NoAttempt)
            /\ UNCHANGED <<activeView, attempt>>
  BY <1>9, <1>11
<1>12. CASE /\ content' = Page!Show("error", Page!NoAttempt)
            /\ UNCHANGED <<activeView, attempt>>
  BY <1>9, <1>12
<1> QED
  BY <1>10, <1>11, <1>12 DEF Page!Answer

LEMMA PageNext ==
  ASSUME Page!ClientPageAssumption, PageInv, Page!Next PROVE PageInv'
<1>1. CASE Page!Hide
  <2>1. /\ UNCHANGED <<activeView, content, slot, publishWorkerBusy,
                       orderRefreshBusy, orderRefreshQueued, prompted, meFailed,
                       attempt, starts, failures>>
        /\ hidden' = TRUE /\ by' = "user"
    BY <1>1 DEF Page!Hide, Page!flags
  <2>2. ViewTypes' /\ Bounded'
    BY <2>1 DEF PageInv, ViewTypes, Bounded
  <2> QED
    BY <2>1, <2>2, SlotsStay DEF PageInv
<1> QED
  BY <1>1, UserActs, TimersAct, PageActs, PageAnswers DEF Page!Next

LEMMA PageInit ==
  ASSUME Page!ClientPageAssumption, Page!Init PROVE PageInv
<1>1. slot = [s \in Slots |-> Page!Idle]
  BY DEF Page!Init
<1>2. SlotTypes
  BY <1>1, IdleRow DEF SlotTypes, Page!Init
<1>3. OneRefreshes
  <2>1. \A s \in Slots : ~Refreshes(s)
    BY <1>1, IdleRow DEF Refreshes
  <2> QED
    BY <2>1 DEF OneRefreshes, Page!Init
<1>4. attempt \in [Attempts -> {"none", "queued", "submitting", "done"}]
  BY DEF Page!Init
<1>5. ViewTypes
  BY <1>4, ShownTypes DEF Page!Init, ViewTypes
<1>6. Bounded
  BY DEF Page!Init, Bounded, Page!ClientPageAssumption
<1> QED
  BY <1>2, <1>3, <1>5, <1>6 DEF PageInv

LEMMA PageStays == ASSUME PageInv, UNCHANGED PageVars PROVE PageInv'
<1>1. UNCHANGED <<activeView, content, slot, publishWorkerBusy,
                  orderRefreshBusy, orderRefreshQueued, prompted, hidden,
                  meFailed, attempt, by, starts, failures>>
  BY DEF PageVars
<1>2. ViewTypes' /\ Bounded'
  BY <1>1 DEF PageInv, ViewTypes, Bounded
<1> QED
  BY <1>1, <1>2, SlotsStay DEF PageInv
-----------------------------------------------------------------------------
(***************************************************************************)
(* The settings together.                                                  *)
(***************************************************************************)
EventuallyInv ==
  /\ setting = "gateway" => GatewayInv
  /\ setting = "stock" => ProjectionInv
  /\ setting = "ads" => AdsInv
  /\ setting = "page" => PageInv

LEMMA Assumptions ==
  /\ Proxy!GatewayAssumption /\ Stock!StockAssumption
  /\ Timer!AvailabilityAssumption /\ Page!ClientPageAssumption
BY Parameters

LEMMA EventuallyStart == EventuallyInit => EventuallyInv
BY Assumptions, GatewayInit, ProjectionInit, AdsInit, PageInit
   DEF EventuallyInit, EventuallyInv

LEMMA EventuallyStep ==
  ASSUME EventuallyInv, [EventuallyNext]_EventuallyVars
  PROVE  EventuallyInv'
<1>1. CASE UNCHANGED EventuallyVars
  <2>1. UNCHANGED <<setting, StockVars, AdVars, PageVars, GatewayVars>>
    BY <1>1 DEF EventuallyVars
  <2> QED
    BY <2>1, GatewayStays, ProjectionStays, AdsStay, PageStays
       DEF EventuallyInv
<1>2. CASE EventuallyNext
  <2>1. setting' = setting
    BY <1>2 DEF EventuallyNext
  <2>2. CASE setting = "gateway"
    <3>1. Proxy!Next
      BY <1>2, <2>2 DEF EventuallyNext
    <3> QED
      BY <2>1, <2>2, <3>1, Assumptions, GatewayNext DEF EventuallyInv
  <2>3. CASE setting = "stock"
    <3>1. Stock!Next
      BY <1>2, <2>3 DEF EventuallyNext
    <3> QED
      BY <2>1, <2>3, <3>1, Assumptions, ProjectionNext DEF EventuallyInv
  <2>4. CASE setting = "ads"
    <3>1. Timer!Next
      BY <1>2, <2>4 DEF EventuallyNext
    <3> QED
      BY <2>1, <2>4, <3>1, Assumptions, AdsNext DEF EventuallyInv
  <2>5. CASE setting = "page"
    <3>1. Page!Next
      BY <1>2, <2>5 DEF EventuallyNext
    <3> QED
      BY <2>1, <2>5, <3>1, Assumptions, PageNext DEF EventuallyInv
  <2> QED
    BY <1>2, <2>2, <2>3, <2>4, <2>5 DEF EventuallyNext
<1> QED
  BY <1>1, <1>2

\* The invariant holds in every reachable state.
LEMMA EventuallyAlways == EventuallySpec => []EventuallyInv
<1>1. EventuallyInit => EventuallyInv
  BY EventuallyStart
<1>2. EventuallyInv /\ [EventuallyNext]_EventuallyVars => EventuallyInv'
  BY EventuallyStep
<1> QED
  BY <1>1, <1>2, PTL DEF EventuallySpec

\* Rows, slots, workers and requests keep their types, no service has more
\* requests under way than the agent of the gateway has sockets, and what is
\* queued is in its state, whatever fails, crashes or never answers.
THEOREM EventuallyTypesCorrect == EventuallySpec => []EventuallyTypeOK
<1>1. EventuallyInv => EventuallyTypeOK
  BY Assumptions, GatewayTypeOK, ProjectionTypeOK, AdsTypeOK, PageTypeOK
     DEF EventuallyInv, EventuallyTypeOK
<1> QED
  BY <1>1, EventuallyAlways, PTL

\* A request the agent of the gateway holds back (keepAlive, maxSockets) is in
\* the line of its service, and in no other, once; what was sent, answered or
\* refused is in none.  Connections that fail, services that never answer,
\* timeouts and resets change nothing of it: no request is lost or sent twice.
THEOREM NoRequestIsLost ==
  EventuallySpec => [](setting = "gateway" => LinesAreRight)
<1>1. EventuallyInv => (setting = "gateway" => LinesAreRight)
  BY LinesFollow DEF EventuallyInv
<1> QED
  BY <1>1, EventuallyAlways, PTL

\* When no event is queued and no handler runs, every ad shows what Warehouse
\* has, unless the write of its last event failed: events are served in order
\* and a handler that crashed is not overtaken (handleStockUpdate).
THEOREM StockSettlesInEnd ==
  EventuallySpec => [](setting = "stock" => StockSettles)
<1>1. EventuallyInv => (setting = "stock" => StockSettles)
  BY SettlesInEnd DEF EventuallyInv
<1> QED
  BY <1>1, EventuallyAlways, PTL

\* A refresh of the orders is only noted as waiting while one is in flight
\* that loads or is about to draw, whose end begins it or drops it
\* (refreshVisibleOrderData, orderRefreshQueued).
THEOREM RefreshIsUnderWay ==
  EventuallySpec => [](setting = "page" => RefreshMoves)
<1>1. EventuallyInv => (setting = "page" => RefreshMoves)
  BY PageNotStuck DEF EventuallyInv
<1> QED
  BY <1>1, EventuallyAlways, PTL
=============================================================================
