--------------------------- MODULE PoliciesProofs ---------------------------
(***************************************************************************)
(* Theorems of Policies, for any number of devices, requests, payments,    *)
(* connections and edits.                                                  *)
(***************************************************************************)
EXTENDS Policies, TLAPS

RequestType == [step : {"none", "read", "insert", "reload", "apply", "refresh", "answered"},
                device : Devices \cup {None}, payload : Rows \cup {None}, loaded : Rows \cup {None}]
RoutingType == [step : {"idle", "load", "call"}, row : Rows \cup {None}, todo : Seq(Connections),
                called : SUBSET Connections, gone : SUBSET Connections]

(* ------------------------ the rows that requests hold ------------------ *)

\* A request that got past the row's first read has a row to work on.
RequestsFit ==
    /\ policy \in Rows \cup {None}
    /\ connection \in [Connections -> {"none", "CONNECTED", "DISCONNECTED"}]
    /\ shown \in [Devices -> [state : {"closed", "loading", "error", "data"}, row : Rows \cup {None}]]
    /\ request \in [Requests -> RequestType]
    /\ wanted \in Rows /\ edits \in 0 .. MaxEdits
    /\ trouble \in {"none", "overlapped", "failed"}
    /\ \A d \in Devices : shown[d].state = "data" => shown[d].row \in Rows
    /\ \A q \in Requests :
          /\ request[q].step = "none" => request[q] = NoRequest
          /\ request[q].step \in {"reload", "apply", "refresh", "answered"} => policy # None
          /\ request[q].step \in {"apply", "answered"} => request[q].loaded \in Rows
          /\ request[q].step \in {"apply", "refresh"} => request[q].payload \in Rows

\* BioRouter calls connections that were connected after its payment began.
RoutingFits ==
    /\ routing \in [Payments -> RoutingType]
    /\ \A p \in Payments :
          /\ routing[p].step = "load" => routing[p].row \in Rows /\ routing[p].called = {}
          /\ \A c \in routing[p].gone : connection[c] = "DISCONNECTED"
          /\ \A i \in 1 .. Len(routing[p].todo) : routing[p].todo[i] \notin routing[p].gone
          /\ routing[p].called \cap routing[p].gone = {}

\* Whatever row a screen or a request holds, somebody chose its columns.
WasChosen(r) == r # None => \A col \in Columns : r[col] \in chosen[col]
RowsWereChosen ==
    /\ chosen \in [Columns -> SUBSET (Modes \cup Connections \cup {None})]
    /\ WasChosen(policy) /\ WasChosen(DefaultPolicy)
    /\ \A d \in Devices : WasChosen(shown[d].row)
    /\ \A q \in Requests : WasChosen(request[q].payload) /\ WasChosen(request[q].loaded)

\* The only device, as long as its requests neither overlapped nor failed: where
\* its one request is tells which of the row, the screen and the choice agree.
GetFits(q, d) ==
    /\ shown[d].state = "loading"
    /\ request[q].step \in {"read", "insert", "reload", "answered"}
    /\ request[q].step = "reload" => policy = DefaultPolicy
    /\ request[q].step = "answered" => policy = DefaultPolicy /\ request[q].loaded = DefaultPolicy
PutFits(q, d) ==
    /\ shown[d].state = "data"
    /\ request[q].payload = wanted
    /\ request[q].step \in {"read", "apply", "refresh", "answered"}
    /\ request[q].step \in {"read", "apply"} => policy = shown[d].row
    /\ request[q].step = "apply" => request[q].loaded = policy
    /\ request[q].step \in {"refresh", "answered"} => policy = wanted
    /\ request[q].step = "answered" => request[q].loaded = wanted
AloneFits(d) ==
    trouble = "none" =>
        /\ \A q, r \in Requests : request[q] # NoRequest /\ request[r] # NoRequest => q = r
        /\ shown[d].state \in {"closed", "loading", "data"}
        /\ shown[d].state = "closed" => Quiet
        /\ shown[d].state # "data" => wanted = DefaultPolicy /\ policy \in {None, DefaultPolicy}
        /\ shown[d].state = "data" /\ Quiet => policy = wanted /\ shown[d].row = policy
        /\ \A q \in Requests : request[q] # NoRequest =>
              /\ request[q].device = d
              /\ request[q].payload = None => GetFits(q, d)
              /\ request[q].payload # None => PutFits(q, d)

PoliciesInv == RequestsFit /\ RoutingFits /\ RowsWereChosen /\ \A d \in Devices : Devices = {d} => AloneFits(d)

LEMMA DefaultIsRow == DefaultPolicy \in Rows /\ DefaultPolicy # None /\ NoRequest \in RequestType
  BY DefaultIsMode, NoneIsNoRow DEF DefaultPolicy, Rows, NoRequest, RequestType

LEMMA RowOfColumns ==
  ASSUME NEW r \in Rows, NEW col \in Columns, NEW v \in Values(col)
  PROVE  /\ [r EXCEPT ![col] = v] \in Rows
         /\ [r EXCEPT ![col] = v][col] = v
         /\ \A c \in Columns \ {col} : [r EXCEPT ![col] = v][c] = r[c]
  BY DEF Rows, Columns, Values

LEMMA ColumnsOfRow ==
  ASSUME NEW r \in Rows, NEW s \in Rows, \A c \in Columns : r[c] = s[c] PROVE r = s
  BY DEF Rows, Columns

(* --------------------------- the requests' type ------------------------ *)

LEMMA SendFits ==
  ASSUME RequestsFit, NEW d \in Devices, NEW payload \in Rows \cup {None}, Send(d, payload),
         UNCHANGED policy
  PROVE  \E q \in Requests :
            /\ request[q] = NoRequest
            /\ request' = [request EXCEPT ![q] = [step |-> "read", device |-> d,
                                                  payload |-> payload, loaded |-> None]]
            /\ request' \in [Requests -> RequestType]
            /\ \A r \in Requests : r # q => request'[r] = request[r]
            /\ request'[q].step = "read" /\ request'[q].device = d /\ request'[q].payload = payload
            /\ request'[q].loaded = None
  <1> DEFINE j == [step |-> "read", device |-> d, payload |-> payload, loaded |-> None]
  <1>1. PICK q \in Requests : request[q] = NoRequest /\ request' = [request EXCEPT ![q] = j]
    BY DEF Send
  <1>2. j \in RequestType /\ j.step = "read" /\ j.device = d /\ j.payload = payload /\ j.loaded = None
    BY DEF RequestType
  <1> HIDE DEF j
  <1>3. request' \in [Requests -> RequestType] /\ request'[q] = j /\ \A r \in Requests : r # q => request'[r] = request[r]
    BY <1>1, <1>2 DEF RequestsFit
  <1> QED BY <1>1, <1>2, <1>3 DEF j

\* What the server writes into a request's record.
LEMMA ServerFits ==
  ASSUME RequestsFit, NEW q \in Requests, NEW step \in {"insert", "reload", "apply", "refresh", "answered"},
         NEW loaded \in Rows \cup {None}, Server(q, step, loaded)
  PROVE  /\ request' \in [Requests -> RequestType]
         /\ request'[q].step = step /\ request'[q].loaded = loaded
         /\ request'[q].device = request[q].device /\ request'[q].payload = request[q].payload
         /\ \A r \in Requests : r # q => request'[r] = request[r]
         /\ UNCHANGED <<connection, shown, routing, history>>
  <1>1. /\ request' = [request EXCEPT ![q].step = step, ![q].loaded = loaded]
        /\ UNCHANGED <<connection, shown, routing, history>>
    BY DEF Server
  <1>2. request \in [Requests -> RequestType]
    BY DEF RequestsFit
  <1> QED BY <1>1, <1>2 DEF RequestType

\* The requests that are no longer served.
LEMMA ClearFits ==
  ASSUME RequestsFit, NEW q \in Requests, request' = [request EXCEPT ![q] = NoRequest]
  PROVE  /\ request' \in [Requests -> RequestType] /\ request'[q] = NoRequest
         /\ \A r \in Requests : r # q => request'[r] = request[r]
  BY DefaultIsRow DEF RequestsFit

\* The six steps of a request at the server, each with its effect.
LEMMA ServeSteps ==
  ASSUME RequestsFit, NEW q \in Requests, Serve(q)
  PROVE  \E step \in {"insert", "reload", "apply", "refresh", "answered"}, loaded \in Rows \cup {None} :
            /\ Server(q, step, loaded)
            /\ request[q].step \in {"read", "insert", "reload", "apply", "refresh"}
            /\ policy' \in Rows \cup {None} /\ (policy # None => policy' # None)
            /\ step \in {"reload", "apply", "refresh", "answered"} => policy' # None
            /\ step \in {"apply", "answered"} => loaded \in Rows
            /\ step \in {"apply", "refresh"} => request[q].payload \in Rows
            /\ step # "refresh" => loaded \in {policy, None}
            /\ step = "refresh" => loaded = request[q].loaded
  <1>1. \A p \in Rows : p # None
    BY NoneIsNoRow
  <1>2. AfterLoad(q) \in {"apply", "answered"} /\ (AfterLoad(q) = "apply" => request[q].payload \in Rows)
    BY DEF AfterLoad, RequestsFit, RequestType
  <1>3. CASE FindPolicy(q)
    BY <1>1, <1>2, <1>3 DEF FindPolicy, RequestsFit
  <1>4. CASE MissPolicy(q)
    BY <1>4 DEF MissPolicy, RequestsFit
  <1>5. CASE InsertPolicy(q)
    BY <1>5, DefaultIsRow DEF InsertPolicy
  <1>6. CASE ReloadPolicy(q)
    BY <1>1, <1>2, <1>6 DEF ReloadPolicy, RequestsFit
  <1>7. CASE ApplyUpdate(q)
    <2>1. /\ request[q].step = "apply" /\ policy' = Written(q) /\ Server(q, "refresh", request[q].loaded)
          /\ policy \in Rows /\ request[q].loaded \in Rows /\ request[q].payload \in Rows
      BY <1>7 DEF ApplyUpdate, RequestsFit
    <2>2. Written(q) \in Rows
      BY <2>1 DEF Written, Rows, Columns
    <2> QED BY <1>1, <2>1, <2>2
  <1>8. CASE RefreshPolicy(q)
    BY <1>1, <1>8 DEF RefreshPolicy, RequestsFit
  <1> QED BY <1>3, <1>4, <1>5, <1>6, <1>7, <1>8 DEF Serve

LEMMA StepKeepsRequests == RequestsFit /\ [Next]_vars => RequestsFit'
  <1> SUFFICES ASSUME RequestsFit, [Next]_vars PROVE RequestsFit'
    OBVIOUS
  <1>0. /\ policy \in Rows \cup {None}
        /\ connection \in [Connections -> {"none", "CONNECTED", "DISCONNECTED"}]
        /\ shown \in [Devices -> [state : {"closed", "loading", "error", "data"}, row : Rows \cup {None}]]
        /\ request \in [Requests -> RequestType]
        /\ wanted \in Rows /\ edits \in 0 .. MaxEdits
        /\ trouble \in {"none", "overlapped", "failed"}
        /\ \A p \in Rows : p # None
    BY NoneIsNoRow DEF RequestsFit
  <1>1. ASSUME NEW d \in Devices, OpenScreen(d) PROVE RequestsFit'
    <2>1. /\ shown' = [shown EXCEPT ![d] = Screen("loading", None)] /\ Send(d, None)
          /\ UNCHANGED <<policy, connection, wanted, edits>>
      BY <1>1 DEF OpenScreen
    <2>2. PICK q \in Requests :
            /\ request' \in [Requests -> RequestType]
            /\ \A r \in Requests : r # q => request'[r] = request[r]
            /\ request'[q].step = "read"
      BY <2>1, SendFits
    <2>3. trouble' \in {"none", "overlapped", "failed"}
      BY <1>0, <1>1 DEF OpenScreen, NoteOverlap
    <2>4. /\ shown' \in [Devices -> [state : {"closed", "loading", "error", "data"}, row : Rows \cup {None}]]
          /\ \A e \in Devices : shown'[e].state = "data" => shown'[e].row \in Rows
      BY <1>0, <2>1 DEF Screen, RequestsFit
    <2> QED BY <1>0, <2>1, <2>2, <2>3, <2>4 DEF RequestsFit
  <1>2. ASSUME NEW d \in Devices, NEW col \in Columns, NEW v \in Values(col), UpdatePolicy(d, col, v)
        PROVE  RequestsFit'
    <2>1. /\ shown[d].row \in Rows /\ Send(d, [shown[d].row EXCEPT ![col] = v])
          /\ wanted' = [wanted EXCEPT ![col] = v] /\ edits < MaxEdits /\ edits' = edits + 1
          /\ UNCHANGED <<policy, connection, shown>>
      BY <1>2 DEF UpdatePolicy, RequestsFit
    <2>2. [shown[d].row EXCEPT ![col] = v] \in Rows /\ wanted' \in Rows
      BY <1>0, <2>1, RowOfColumns
    <2>3. PICK q \in Requests :
            /\ request' \in [Requests -> RequestType]
            /\ \A r \in Requests : r # q => request'[r] = request[r]
            /\ request'[q].step = "read"
      BY <2>1, <2>2, SendFits
    <2>4. trouble' \in {"none", "overlapped", "failed"}
      BY <1>0, <1>2 DEF UpdatePolicy, NoteOverlap
    <2>5. edits' \in 0 .. MaxEdits
      BY <1>0, <2>1, EditsBounded
    <2> QED BY <1>0, <2>1, <2>2, <2>3, <2>4, <2>5 DEF RequestsFit
  <1>3. ASSUME NEW q \in Requests, ShowAnswer(q) PROVE RequestsFit'
    <2>1. /\ request[q].step = "answered" /\ request[q].device \in Devices
          /\ shown' = [shown EXCEPT ![request[q].device] = Screen("data", request[q].loaded)]
          /\ request' = [request EXCEPT ![q] = NoRequest]
          /\ UNCHANGED <<policy, connection, wanted, edits, trouble>>
      BY <1>0, <1>3 DEF ShowAnswer, RequestType
    <2>2. request[q].loaded \in Rows
      BY <2>1 DEF RequestsFit
    <2>3. /\ shown' \in [Devices -> [state : {"closed", "loading", "error", "data"}, row : Rows \cup {None}]]
          /\ \A e \in Devices : shown'[e].state = "data" => shown'[e].row \in Rows
      BY <1>0, <2>1, <2>2 DEF Screen, RequestsFit
    <2>4. /\ request' \in [Requests -> RequestType] /\ request'[q] = NoRequest
          /\ \A r \in Requests : r # q => request'[r] = request[r]
      BY <2>1, ClearFits
    <2> QED BY <1>0, <2>1, <2>3, <2>4 DEF RequestsFit, NoRequest
  <1>4. ASSUME NEW q \in Requests, Fail(q) PROVE RequestsFit'
    <2>1. /\ UNCHANGED <<policy, connection, wanted, edits>>
          /\ trouble' \in {"none", "overlapped", "failed"}
      BY <1>0, <1>4 DEF Fail, FailRequest, LoseConnection, DropAnswer, ShowErrorOf, history
    <2>2. /\ shown' \in [Devices -> [state : {"closed", "loading", "error", "data"}, row : Rows \cup {None}]]
          /\ \A e \in Devices : shown'[e].state = "data" => shown'[e].row \in Rows
      <3>1. shown' = shown \/ \E d \in Devices : shown' = [shown EXCEPT ![d] = Screen("error", None)]
        BY <1>0, <1>4 DEF Fail, FailRequest, LoseConnection, DropAnswer, ShowErrorOf, RequestType
      <3> QED BY <1>0, <3>1 DEF Screen, RequestsFit
    <2>3. CASE FailRequest(q) \/ DropAnswer(q)
      <3>1. request' = [request EXCEPT ![q] = NoRequest]
        BY <2>3 DEF FailRequest, DropAnswer
      <3>2. /\ request' \in [Requests -> RequestType] /\ request'[q] = NoRequest
            /\ \A r \in Requests : r # q => request'[r] = request[r]
        BY <3>1, ClearFits
      <3> QED BY <1>0, <2>1, <2>2, <3>2 DEF RequestsFit, NoRequest
    <2>4. CASE LoseConnection(q)
      <3>1. request' = [request EXCEPT ![q].device = None] /\ request[q].device # None
        BY <2>4 DEF LoseConnection, ShowErrorOf
      <3>2. request[q].step # "none"
        BY <3>1 DEF RequestsFit, NoRequest
      <3>3. /\ request' \in [Requests -> RequestType]
            /\ \A r \in Requests : /\ request'[r].step = request[r].step /\ request'[r].payload = request[r].payload
                                   /\ request'[r].loaded = request[r].loaded
                                   /\ r # q => request'[r] = request[r]
        BY <1>0, <3>1 DEF RequestType
      <3> QED BY <1>0, <2>1, <2>2, <3>2, <3>3 DEF RequestsFit
    <2> QED BY <1>4, <2>3, <2>4 DEF Fail
  <1>5. ASSUME NEW q \in Requests, Serve(q) PROVE RequestsFit'
    <2>1. PICK step \in {"insert", "reload", "apply", "refresh", "answered"}, loaded \in Rows \cup {None} :
            /\ Server(q, step, loaded)
            /\ policy' \in Rows \cup {None} /\ (policy # None => policy' # None)
            /\ step \in {"reload", "apply", "refresh", "answered"} => policy' # None
            /\ step \in {"apply", "answered"} => loaded \in Rows
            /\ step \in {"apply", "refresh"} => request[q].payload \in Rows
      BY <1>5, ServeSteps
    <2>2. /\ request' \in [Requests -> RequestType]
          /\ request'[q].step = step /\ request'[q].loaded = loaded /\ request'[q].payload = request[q].payload
          /\ \A r \in Requests : r # q => request'[r] = request[r]
          /\ UNCHANGED <<connection, shown, history>>
      BY <2>1, ServerFits
    <2> QED BY <1>0, <2>1, <2>2 DEF RequestsFit, history
  <1>6. ASSUME NEW c \in Connections, ConnectProvider(c) \/ DisconnectProvider(c) PROVE RequestsFit'
    BY <1>0, <1>6 DEF ConnectProvider, DisconnectProvider, history, RequestsFit
  <1>7. ASSUME NEW p \in Payments,
               BeginRouting(p) \/ LoadConnections(p) \/ CallProvider(p) \/ EndRouting(p)
        PROVE  RequestsFit'
    BY <1>7 DEF BeginRouting, LoadConnections, CallProvider, EndRouting, history, RequestsFit
  <1>8. CASE UNCHANGED vars
    BY <1>8 DEF vars, RequestsFit
  <1> QED BY <1>1, <1>2, <1>3, <1>4, <1>5, <1>6, <1>7, <1>8 DEF Next

(* ------------------------------ the routing ---------------------------- *)

\* The candidates are connections that are connected now.
LEMMA CandidatesConnected ==
  ASSUME NEW a \in Connections \cup {None}, NEW b \in Connections \cup {None}
  PROVE  /\ Candidate(a) \o Candidate(b) \in Seq(Connections)
         /\ \A i \in 1 .. Len(Candidate(a) \o Candidate(b)) :
               connection[(Candidate(a) \o Candidate(b))[i]] = "CONNECTED"
  <1>1. ASSUME NEW c \in Connections \cup {None}
        PROVE  /\ Candidate(c) \in Seq(Connections)
               /\ \A i \in 1 .. Len(Candidate(c)) : connection[Candidate(c)[i]] = "CONNECTED"
    <2>1. CASE UsableAtLoad(c)
      <3>1. c \in Connections /\ connection[c] = "CONNECTED" /\ Candidate(c) = <<c>>
        BY <2>1 DEF UsableAtLoad, Candidate
      <3> QED BY <3>1
    <2>2. CASE ~UsableAtLoad(c)
      <3>1. Candidate(c) = <<>>
        BY <2>2 DEF Candidate
      <3> QED BY <3>1
    <2> QED BY <2>1, <2>2
  <1> QED
    <2> DEFINE s == Candidate(a)
               t == Candidate(b)
    <2>1. s \in Seq(Connections) /\ t \in Seq(Connections)
      BY <1>1
    <2>2. \A i \in 1 .. Len(s) : connection[s[i]] = "CONNECTED"
      BY <1>1
    <2>3. \A i \in 1 .. Len(t) : connection[t[i]] = "CONNECTED"
      BY <1>1
    <2> HIDE DEF s, t
    <2>4. ASSUME NEW i \in 1 .. Len(s \o t) PROVE connection[(s \o t)[i]] = "CONNECTED"
      <3>1. CASE i <= Len(s)
        BY <2>1, <2>2, <3>1
      <3>2. CASE i > Len(s)
        <4>1. i - Len(s) \in 1 .. Len(t) /\ (s \o t)[i] = t[i - Len(s)]
          BY <2>1, <3>2
        <4> QED BY <2>3, <4>1
      <3> QED BY <2>1, <3>1, <3>2
    <2>5. s \o t \in Seq(Connections)
      BY <2>1
    <2> QED BY <2>4, <2>5 DEF s, t

LEMMA StepKeepsRouting == RequestsFit /\ RoutingFits /\ [Next]_vars => RoutingFits'
  <1> SUFFICES ASSUME RequestsFit, RoutingFits, [Next]_vars PROVE RoutingFits'
    OBVIOUS
  <1>0. /\ routing \in [Payments -> RoutingType]
        /\ connection \in [Connections -> {"none", "CONNECTED", "DISCONNECTED"}]
    BY DEF RequestsFit, RoutingFits
  <1>1. ASSUME UNCHANGED routing,
               \A c \in Connections : connection[c] = "DISCONNECTED" => connection'[c] = "DISCONNECTED"
        PROVE  RoutingFits'
    <2>1. \A p \in Payments : routing[p].gone \subseteq Connections
      BY <1>0 DEF RoutingType
    <2> QED BY <1>1, <2>1 DEF RoutingFits
  <1>2. ASSUME NEW q \in Requests, ShowAnswer(q) \/ Fail(q) \/ Serve(q) PROVE UNCHANGED <<routing, connection>>
    BY <1>2 DEF ShowAnswer, Fail, FailRequest, LoseConnection, DropAnswer, ShowErrorOf, Serve, FindPolicy,
       MissPolicy, InsertPolicy, ReloadPolicy, ApplyUpdate, RefreshPolicy, Server
  <1>3. ASSUME NEW d \in Devices,
               OpenScreen(d) \/ \E col \in Columns : \E v \in Values(col) : UpdatePolicy(d, col, v)
        PROVE  UNCHANGED <<routing, connection>>
    BY <1>3 DEF OpenScreen, UpdatePolicy
  <1>4. ASSUME NEW c \in Connections, ConnectProvider(c) \/ DisconnectProvider(c)
        PROVE  /\ UNCHANGED routing
               /\ \A b \in Connections : connection[b] = "DISCONNECTED" => connection'[b] = "DISCONNECTED"
    BY <1>0, <1>4 DEF ConnectProvider, DisconnectProvider
  <1>5. ASSUME NEW p \in Payments, NEW r \in RoutingType, routing' = [routing EXCEPT ![p] = r],
               UNCHANGED connection,
               r.step = "load" => r.row \in Rows /\ r.called = {},
               \A c \in r.gone : connection[c] = "DISCONNECTED",
               \A i \in 1 .. Len(r.todo) : r.todo[i] \notin r.gone,
               r.called \cap r.gone = {}
        PROVE  RoutingFits'
    <2>1. routing' \in [Payments -> RoutingType] /\ routing'[p] = r /\ \A k \in Payments : k # p => routing'[k] = routing[k]
      BY <1>0, <1>5
    <2> QED BY <1>5, <2>1 DEF RoutingFits
  <1>6. ASSUME NEW p \in Payments, BeginRouting(p) PROVE RoutingFits'
    <2> DEFINE gone == {c \in Connections : connection[c] = "DISCONNECTED"}
               r == [NoRouting EXCEPT !.step = "load", !.row = policy, !.gone = gone]
    <2>1. routing' = [routing EXCEPT ![p] = r] /\ UNCHANGED connection /\ policy # None
      BY <1>6 DEF BeginRouting
    <2>2. policy \in Rows
      BY <2>1 DEF RequestsFit
    <2>3. NoRouting \in RoutingType /\ NoRouting.called = {} /\ NoRouting.todo = <<>>
      BY DEF NoRouting, RoutingType
    <2>4. r \in RoutingType /\ r.row \in Rows /\ r.called = {} /\ Len(r.todo) = 0 /\ r.gone = gone
      BY <2>2, <2>3 DEF RoutingType
    <2>5. /\ \A c \in r.gone : connection[c] = "DISCONNECTED"
          /\ \A i \in 1 .. Len(r.todo) : r.todo[i] \notin r.gone
          /\ r.called \cap r.gone = {}
      BY <2>4
    <2> HIDE DEF r
    <2> QED BY <1>5, <2>1, <2>4, <2>5
  <1>7. ASSUME NEW p \in Payments, LoadConnections(p) PROVE RoutingFits'
    <2> DEFINE s == Candidate(routing[p].row.primary) \o Candidate(routing[p].row.fallback)
               r == [routing[p] EXCEPT !.step = "call", !.todo = s]
    <2>1. routing[p].step = "load" /\ UNCHANGED connection
          /\ routing' = [routing EXCEPT ![p].step = "call", ![p].todo = s]
      BY <1>7 DEF LoadConnections
    <2>2. routing[p].row \in Rows
      BY <2>1 DEF RoutingFits
    <2>3. s \in Seq(Connections) /\ \A i \in 1 .. Len(s) : connection[s[i]] = "CONNECTED"
      BY <2>2, CandidatesConnected DEF Rows
    <2> HIDE DEF s
    <2>4. routing' = [routing EXCEPT ![p] = r]
      BY <1>0, <2>1 DEF RoutingType
    <2>5. r \in RoutingType /\ r.step = "call" /\ r.todo = s /\ r.called = routing[p].called /\ r.gone = routing[p].gone
      <3>1. routing[p] \in RoutingType /\ s \in Seq(Connections)
        BY <1>0, <2>3
      <3> QED BY <3>1 DEF RoutingType
    <2> HIDE DEF r
    <2>6. /\ \A c \in r.gone : connection[c] = "DISCONNECTED"
          /\ r.called \cap r.gone = {}
      BY <2>5 DEF RoutingFits
    <2>7. \A i \in 1 .. Len(r.todo) : r.todo[i] \notin r.gone
      BY <2>3, <2>5, <2>6
    <2> QED BY <1>5, <2>1, <2>4, <2>5, <2>6, <2>7
  <1>8. ASSUME NEW p \in Payments, CallProvider(p) PROVE RoutingFits'
    <2>1. PICK rest \in {<<>>, Tail(routing[p].todo)} :
            routing' = [routing EXCEPT ![p].todo = rest,
                                       ![p].called = @ \cup {Head(routing[p].todo)}]
      BY <1>8 DEF CallProvider
    <2>2. /\ routing[p].step = "call" /\ routing[p].todo # <<>> /\ UNCHANGED connection
          /\ routing[p].todo \in Seq(Connections) /\ routing[p].called \subseteq Connections
      BY <1>0, <1>8 DEF CallProvider, RoutingType
    <2> DEFINE h == Head(routing[p].todo)
               r == [routing[p] EXCEPT !.todo = rest, !.called = @ \cup {h}]
    <2>3. h \in Connections /\ h \notin routing[p].gone
      <3>1. 1 \in 1 .. Len(routing[p].todo) /\ h = routing[p].todo[1] /\ h \in Connections
        BY <2>2
      <3> QED BY <3>1 DEF RoutingFits
    <2>4. rest \in Seq(Connections) /\ \A i \in 1 .. Len(rest) : rest[i] \notin routing[p].gone
      <3>1. CASE rest = <<>>
        BY <3>1
      <3>2. CASE rest = Tail(routing[p].todo)
        <4>1. /\ rest \in Seq(Connections)
              /\ \A i \in 1 .. Len(rest) : i + 1 \in 1 .. Len(routing[p].todo) /\ rest[i] = routing[p].todo[i + 1]
          BY <2>2, <3>2
        <4> QED BY <4>1 DEF RoutingFits
      <3> QED BY <3>1, <3>2
    <2> HIDE DEF h
    <2>5. routing' = [routing EXCEPT ![p] = r]
      BY <1>0, <2>1 DEF RoutingType, h
    <2>6. /\ r \in RoutingType /\ r.step = "call" /\ r.todo = rest /\ r.gone = routing[p].gone
          /\ r.called = routing[p].called \cup {h}
      BY <1>0, <2>2, <2>3, <2>4 DEF RoutingType
    <2> HIDE DEF r
    <2>7. (\A c \in r.gone : connection[c] = "DISCONNECTED") /\ r.called \cap r.gone = {}
      BY <2>3, <2>6 DEF RoutingFits
    <2> QED BY <1>5, <2>2, <2>4, <2>5, <2>6, <2>7
  <1>9. ASSUME NEW p \in Payments, EndRouting(p) PROVE RoutingFits'
    <2>1. NoRouting \in RoutingType /\ NoRouting.step = "idle" /\ NoRouting.gone = {} /\ Len(NoRouting.todo) = 0
      BY DEF NoRouting, RoutingType
    <2>2. routing' = [routing EXCEPT ![p] = NoRouting] /\ UNCHANGED connection
      BY <1>9 DEF EndRouting
    <2> QED BY <1>5, <2>1, <2>2
  <1>10. CASE UNCHANGED vars
    BY <1>1, <1>10 DEF vars
  <1> QED BY <1>1, <1>2, <1>3, <1>4, <1>6, <1>7, <1>8, <1>9, <1>10 DEF Next

(* ------------------------- what the user ever chose -------------------- *)

LEMMA StepKeepsChosen == RequestsFit /\ RowsWereChosen /\ [Next]_vars => RowsWereChosen'
  <1> SUFFICES ASSUME RequestsFit, RowsWereChosen, [Next]_vars PROVE RowsWereChosen'
    OBVIOUS
  <1> DEFINE Known(r) == r = None \/ \A col \in Columns : r[col] \in chosen'[col]
             Held == {policy, DefaultPolicy} \cup {shown[d].row : d \in Devices}
                     \cup {request[q].payload : q \in Requests} \cup {request[q].loaded : q \in Requests}
  <1>0. /\ request \in [Requests -> RequestType]
        /\ shown \in [Devices -> [state : {"closed", "loading", "error", "data"}, row : Rows \cup {None}]]
        /\ \A p \in Rows : p # None
    BY NoneIsNoRow DEF RequestsFit
  <1>1. ASSUME chosen' \in [Columns -> SUBSET (Modes \cup Connections \cup {None})],
               \A col \in Columns : chosen[col] \subseteq chosen'[col]
        PROVE  \A r \in Held : Known(r)
    BY <1>1 DEF RowsWereChosen, WasChosen
  <1>2. ASSUME chosen' \in [Columns -> SUBSET (Modes \cup Connections \cup {None})],
               \A col \in Columns : chosen[col] \subseteq chosen'[col],
               Known(policy'),
               \A d \in Devices : Known(shown'[d].row),
               \A q \in Requests : Known(request'[q].payload) /\ Known(request'[q].loaded)
        PROVE  RowsWereChosen'
    BY <1>1, <1>2 DEF RowsWereChosen, WasChosen, DefaultPolicy
  <1>3. ASSUME UNCHANGED chosen
        PROVE  /\ chosen' \in [Columns -> SUBSET (Modes \cup Connections \cup {None})]
               /\ \A col \in Columns : chosen[col] \subseteq chosen'[col]
               /\ \A r \in Held : Known(r)
    BY <1>1, <1>3 DEF RowsWereChosen
  <1>4. /\ policy \in Held /\ DefaultPolicy \in Held
        /\ \A d \in Devices : shown[d].row \in Held
        /\ \A q \in Requests : request[q].payload \in Held /\ request[q].loaded \in Held
    OBVIOUS
  <1>5. Known(None) /\ NoRequest.payload = None /\ NoRequest.loaded = None
    BY DEF NoRequest
  <1> HIDE DEF Known, Held
  <1>6. ASSUME NEW d \in Devices, OpenScreen(d) PROVE RowsWereChosen'
    <2>1. /\ shown' = [shown EXCEPT ![d] = Screen("loading", None)] /\ Send(d, None)
          /\ UNCHANGED <<policy, chosen>>
      BY <1>6 DEF OpenScreen
    <2>2. PICK q \in Requests :
            /\ \A r \in Requests : r # q => request'[r] = request[r]
            /\ request'[q].payload = None /\ request'[q].loaded = None
      BY <2>1, SendFits
    <2>3. \A e \in Devices : shown'[e] = shown[e] \/ shown'[e].row = None
      BY <1>0, <2>1 DEF Screen
    <2> QED BY <1>2, <1>3, <1>4, <1>5, <2>1, <2>2, <2>3
  <1>7. ASSUME NEW d \in Devices, NEW col \in Columns, NEW v \in Values(col), UpdatePolicy(d, col, v)
        PROVE  RowsWereChosen'
    <2> DEFINE new == [shown[d].row EXCEPT ![col] = v]
    <2>1. /\ shown[d].row \in Rows /\ Send(d, new)
          /\ chosen' = [chosen EXCEPT ![col] = @ \cup {v}]
          /\ UNCHANGED <<policy, shown>>
      BY <1>7 DEF UpdatePolicy, RequestsFit
    <2>2. new \in Rows /\ new[col] = v /\ \A c \in Columns \ {col} : new[c] = shown[d].row[c]
      BY <2>1, RowOfColumns
    <2> HIDE DEF new
    <2>3. /\ chosen' \in [Columns -> SUBSET (Modes \cup Connections \cup {None})]
          /\ \A c \in Columns : chosen[c] \subseteq chosen'[c]
          /\ v \in chosen'[col]
      BY <2>1 DEF RowsWereChosen, Values
    <2>4. \A r \in Held : Known(r)
      BY <1>1, <2>3
    <2>5. Known(new)
      BY <1>0, <1>4, <2>1, <2>2, <2>3, <2>4 DEF Known
    <2>6. PICK q \in Requests :
            /\ \A r \in Requests : r # q => request'[r] = request[r]
            /\ request'[q].payload = new /\ request'[q].loaded = None
      BY <2>1, <2>2, SendFits
    <2>7. \A r \in Requests : Known(request'[r].payload) /\ Known(request'[r].loaded)
      BY <1>4, <1>5, <2>4, <2>5, <2>6
    <2> QED BY <1>2, <1>4, <2>1, <2>3, <2>4, <2>7
  <1>8. ASSUME NEW q \in Requests, ShowAnswer(q) \/ Fail(q) PROVE RowsWereChosen'
    <2>1. UNCHANGED <<policy, chosen>>
      BY <1>8 DEF ShowAnswer, Fail, FailRequest, LoseConnection, DropAnswer, ShowErrorOf, history
    <2>2. \A d \in Devices : Known(shown'[d].row)
      <3>1. \/ shown' = shown
            \/ \E d \in Devices : shown' = [shown EXCEPT ![d] = Screen("error", None)]
            \/ \E d \in Devices : shown' = [shown EXCEPT ![d] = Screen("data", request[q].loaded)]
        BY <1>0, <1>8 DEF ShowAnswer, Fail, FailRequest, LoseConnection, DropAnswer, ShowErrorOf, RequestType
      <3>2. \A d \in Devices : shown'[d].row \in {shown[d].row, None, request[q].loaded}
        BY <1>0, <3>1 DEF Screen
      <3> QED BY <1>3, <1>4, <1>5, <2>1, <3>2
    <2>3. \A r \in Requests : /\ request'[r].payload \in {request[r].payload, None}
                              /\ request'[r].loaded \in {request[r].loaded, None}
      <3>1. request' = [request EXCEPT ![q] = NoRequest] \/ request' = [request EXCEPT ![q].device = None]
        BY <1>8 DEF ShowAnswer, Fail, FailRequest, LoseConnection, DropAnswer
      <3> QED BY <1>0, <1>5, <3>1 DEF RequestType
    <2> QED BY <1>2, <1>3, <1>4, <1>5, <2>1, <2>2, <2>3
  <1>9. ASSUME NEW q \in Requests, Serve(q) PROVE RowsWereChosen'
    <2>1. PICK step \in {"insert", "reload", "apply", "refresh", "answered"}, loaded \in Rows \cup {None} :
            /\ Server(q, step, loaded)
            /\ step # "refresh" => loaded \in {policy, None}
            /\ step = "refresh" => loaded = request[q].loaded
      BY <1>9, ServeSteps
    <2>2. /\ request'[q].loaded = loaded /\ request'[q].payload = request[q].payload
          /\ \A r \in Requests : r # q => request'[r] = request[r]
          /\ UNCHANGED <<shown, history>>
      BY <2>1, ServerFits
    <2>3. UNCHANGED <<shown, chosen>>
      BY <2>2 DEF history
    <2>4. Known(loaded) /\ Known(policy) /\ Known(DefaultPolicy) /\ Known(request[q].payload)
      BY <1>3, <1>4, <1>5, <2>1, <2>3
    <2>5. \/ policy' \in {policy, DefaultPolicy}
          \/ request[q].step = "apply" /\ policy' = Written(q)
      BY <1>9 DEF Serve, FindPolicy, MissPolicy, InsertPolicy, ReloadPolicy, ApplyUpdate, RefreshPolicy
    <2>6. ASSUME request[q].step = "apply", policy' = Written(q) PROVE Known(policy')
      <3>1. request[q].payload \in Rows /\ policy # None
        BY <2>6 DEF RequestsFit
      <3>2. \A col \in Columns : Written(q)[col] \in {request[q].payload[col], policy[col]}
        BY DEF Written
      <3> QED BY <1>0, <2>4, <2>6, <3>1, <3>2 DEF Known
    <2>7. Known(policy')
      BY <2>4, <2>5, <2>6
    <2> QED BY <1>2, <1>3, <1>4, <2>2, <2>3, <2>4, <2>7
  <1>10. ASSUME UNCHANGED <<policy, shown, request, chosen>> PROVE RowsWereChosen'
    BY <1>10 DEF RowsWereChosen, WasChosen
  <1>11. ASSUME NEW c \in Connections, ConnectProvider(c) \/ DisconnectProvider(c)
         PROVE  UNCHANGED <<policy, shown, request, chosen>>
    BY <1>11 DEF ConnectProvider, DisconnectProvider, history
  <1>12. ASSUME NEW p \in Payments,
                BeginRouting(p) \/ LoadConnections(p) \/ CallProvider(p) \/ EndRouting(p)
         PROVE  UNCHANGED <<policy, shown, request, chosen>>
    BY <1>12 DEF BeginRouting, LoadConnections, CallProvider, EndRouting, history
  <1>13. CASE UNCHANGED vars
    BY <1>10, <1>13 DEF vars
  <1> QED BY <1>6, <1>7, <1>8, <1>9, <1>10, <1>11, <1>12, <1>13 DEF Next

(* ------------------------ one device, undisturbed ---------------------- *)

\* A step that leaves the policy, the screen and the requests alone.
LEMMA QuietKeepsAlone ==
  ASSUME NEW d \in Devices, AloneFits(d), UNCHANGED <<policy, shown, request, wanted, trouble>>
  PROVE  (AloneFits(d))'
  BY DEF AloneFits, GetFits, PutFits, Quiet

\* A request may be sent undisturbed only when no other is under way.
LEMMA OpenKeepsAlone ==
  ASSUME RequestsFit, NEW d \in Devices, Devices = {d}, AloneFits(d), OpenScreen(d)
  PROVE  (AloneFits(d))'
  <1>1. /\ shown' = [shown EXCEPT ![d] = Screen("loading", None)] /\ Send(d, None)
        /\ UNCHANGED <<policy, wanted>> /\ shown[d].state \in {"closed", "error"}
    BY DEF OpenScreen
  <1>2. PICK q \in Requests :
          /\ \A r \in Requests : r # q => request'[r] = request[r]
          /\ request'[q].step = "read" /\ request'[q].device = d /\ request'[q].payload = None
    BY <1>1, SendFits
  <1>3. SUFFICES ASSUME trouble' = "none" PROVE (AloneFits(d))'
    BY DEF AloneFits
  <1>4. trouble = "none" /\ Quiet
    BY <1>3 DEF OpenScreen, NoteOverlap
  <1>5. wanted = DefaultPolicy /\ policy \in {None, DefaultPolicy}
    BY <1>1, <1>4 DEF AloneFits
  <1>6. shown'[d].state = "loading"
    BY <1>1 DEF Screen, RequestsFit
  <1>7. \A r \in Requests : r # q => request'[r] = NoRequest
    BY <1>2, <1>4 DEF Quiet
  <1>8. (GetFits(q, d))'
    BY <1>2, <1>6 DEF GetFits
  <1>9. \A r, s \in Requests : request'[r] # NoRequest /\ request'[s] # NoRequest => r = s
    BY <1>7
  <1>10. \A r \in Requests : request'[r] # NoRequest =>
              /\ request'[r].device = d
              /\ request'[r].payload = None => (GetFits(r, d))'
              /\ request'[r].payload # None => (PutFits(r, d))'
    BY <1>2, <1>7, <1>8
  <1> QED BY <1>1, <1>5, <1>6, <1>9, <1>10 DEF AloneFits

LEMMA EditKeepsAlone ==
  ASSUME RequestsFit, NEW d \in Devices, Devices = {d}, AloneFits(d),
         NEW col \in Columns, NEW v \in Values(col), UpdatePolicy(d, col, v)
  PROVE  (AloneFits(d))'
  <1> DEFINE new == [shown[d].row EXCEPT ![col] = v]
  <1>1. /\ shown[d].state = "data" /\ Send(d, new) /\ UNCHANGED <<policy, shown>>
        /\ wanted' = [wanted EXCEPT ![col] = v] /\ shown[d].row \in Rows
    BY DEF UpdatePolicy, RequestsFit
  <1>2. new \in Rows /\ new # None
    BY <1>1, RowOfColumns, NoneIsNoRow
  <1>3. SUFFICES ASSUME trouble' = "none" PROVE (AloneFits(d))'
    BY DEF AloneFits
  <1>4. trouble = "none" /\ Quiet
    BY <1>3 DEF UpdatePolicy, NoteOverlap
  <1>5. policy = wanted /\ shown[d].row = policy
    BY <1>1, <1>4 DEF AloneFits
  <1>6. wanted' = new
    BY <1>1, <1>5
  <1> HIDE DEF new
  <1>7. PICK q \in Requests :
          /\ \A r \in Requests : r # q => request'[r] = request[r]
          /\ request'[q].step = "read" /\ request'[q].device = d /\ request'[q].payload = new
          /\ request'[q] # NoRequest
    <2>1. PICK q \in Requests :
          /\ \A r \in Requests : r # q => request'[r] = request[r]
          /\ request'[q].step = "read" /\ request'[q].device = d /\ request'[q].payload = new
      BY <1>1, <1>2, SendFits
    <2> QED BY <2>1 DEF NoRequest
  <1>8. \A r \in Requests : r # q => request'[r] = NoRequest
    BY <1>4, <1>7 DEF Quiet
  <1>9. (PutFits(q, d))'
    BY <1>1, <1>5, <1>6, <1>7 DEF PutFits
  <1>10. \A r \in Requests : request'[r] # NoRequest =>
              /\ request'[r].device = d
              /\ request'[r].payload = None => (GetFits(r, d))'
              /\ request'[r].payload # None => (PutFits(r, d))'
    BY <1>2, <1>7, <1>8, <1>9
  <1>11. ~Quiet'
    BY <1>7 DEF Quiet
  <1>12. \A r, s \in Requests : request'[r] # NoRequest /\ request'[s] # NoRequest => r = s
    BY <1>8
  <1> QED BY <1>1, <1>10, <1>11, <1>12 DEF AloneFits

LEMMA AnswerKeepsAlone ==
  ASSUME RequestsFit, NEW d \in Devices, Devices = {d}, AloneFits(d), NEW q \in Requests, ShowAnswer(q)
  PROVE  (AloneFits(d))'
  <1>1. /\ request[q].step = "answered" /\ request[q] # NoRequest
        /\ shown' = [shown EXCEPT ![request[q].device] = Screen("data", request[q].loaded)]
        /\ request' = [request EXCEPT ![q] = NoRequest]
        /\ UNCHANGED <<policy, wanted, trouble>>
    BY DEF ShowAnswer, NoRequest
  <1>2. /\ request'[q] = NoRequest /\ \A r \in Requests : r # q => request'[r] = request[r]
    BY <1>1, ClearFits
  <1>3. SUFFICES ASSUME trouble = "none" PROVE (AloneFits(d))'
    BY <1>1 DEF AloneFits
  <1>4. \A r \in Requests : request'[r] = NoRequest
    BY <1>1, <1>2, <1>3 DEF AloneFits
  <1>5. request[q].device = d /\ policy = wanted /\ request[q].loaded = wanted
    BY <1>1, <1>3 DEF AloneFits, GetFits, PutFits
  <1>6. shown'[d].state = "data" /\ shown'[d].row = wanted
    BY <1>1, <1>5 DEF Screen, RequestsFit
  <1> QED BY <1>1, <1>4, <1>5, <1>6 DEF AloneFits

LEMMA FailKeepsAlone ==
  ASSUME RequestsFit, NEW d \in Devices, Devices = {d}, AloneFits(d), NEW q \in Requests, Fail(q)
  PROVE  (AloneFits(d))'
  <1>1. SUFFICES ASSUME trouble' = "none" PROVE (AloneFits(d))'
    BY DEF AloneFits
  <1>2. DropAnswer(q) /\ trouble = "none"
    BY <1>1 DEF Fail, FailRequest, LoseConnection, ShowErrorOf, DropAnswer, history
  <1>3. request[q] # NoRequest /\ request[q].device = None
    BY <1>2 DEF DropAnswer, NoRequest
  <1> QED BY <1>2, <1>3, NoneIsNew DEF AloneFits

LEMMA ServeKeepsAlone ==
  ASSUME RequestsFit, NEW d \in Devices, Devices = {d}, AloneFits(d), NEW q \in Requests, Serve(q)
  PROVE  (AloneFits(d))'
  <1>1. PICK step \in {"insert", "reload", "apply", "refresh", "answered"}, loaded \in Rows \cup {None} :
            /\ Server(q, step, loaded)
            /\ request[q].step \in {"read", "insert", "reload", "apply", "refresh"}
    BY ServeSteps
  <1>2. /\ request'[q].step = step /\ request'[q].loaded = loaded
        /\ request'[q].device = request[q].device /\ request'[q].payload = request[q].payload
        /\ \A r \in Requests : r # q => request'[r] = request[r]
        /\ UNCHANGED <<shown, wanted, trouble>>
    BY <1>1, ServerFits DEF history
  <1>3. request[q] # NoRequest /\ request'[q] # NoRequest
    BY <1>1, <1>2 DEF NoRequest
  <1>4. SUFFICES ASSUME trouble = "none" PROVE (AloneFits(d))'
    BY <1>2 DEF AloneFits
  <1>5. \A r \in Requests : r # q => request'[r] = NoRequest
    BY <1>2, <1>3, <1>4 DEF AloneFits
  <1>6. request[q].device = d /\ ~Quiet'
    BY <1>3, <1>4 DEF AloneFits, Quiet
  <1>7. ASSUME request[q].payload = None
        PROVE  (GetFits(q, d))' /\ wanted = DefaultPolicy /\ policy' \in {None, DefaultPolicy}
    <2>1. /\ GetFits(q, d) /\ wanted = DefaultPolicy /\ policy \in {None, DefaultPolicy}
      BY <1>3, <1>4, <1>7 DEF AloneFits, GetFits
    <2>2. AfterLoad(q) = "answered"
      BY <1>7 DEF AfterLoad
    <2>3. /\ step \in {"insert", "reload", "answered"}
          /\ step = "insert" => policy' = policy
          /\ step = "reload" => policy' = DefaultPolicy
          /\ step = "answered" => policy' = policy /\ policy = DefaultPolicy /\ loaded = DefaultPolicy
      <3>1. CASE FindPolicy(q)
        BY <1>2, <2>1, <2>2, <3>1, ServerFits DEF FindPolicy, RequestsFit, GetFits
      <3>2. CASE MissPolicy(q)
        BY <1>2, <3>2, ServerFits DEF MissPolicy
      <3>3. CASE InsertPolicy(q)
        BY <1>2, <3>3, ServerFits DEF InsertPolicy
      <3>4. CASE ReloadPolicy(q)
        BY <1>2, <2>1, <2>2, <3>4, ServerFits DEF ReloadPolicy, RequestsFit, GetFits
      <3>5. CASE ApplyUpdate(q) \/ RefreshPolicy(q)
        BY <2>1, <3>5 DEF ApplyUpdate, RefreshPolicy, GetFits
      <3> QED BY <3>1, <3>2, <3>3, <3>4, <3>5 DEF Serve
    <2> QED BY <1>2, <2>1, <2>3 DEF GetFits
  <1>8. ASSUME request[q].payload # None PROVE (PutFits(q, d))'
    <2>1. PutFits(q, d) /\ shown[d].row \in Rows /\ wanted \in Rows
      BY <1>3, <1>4, <1>8 DEF AloneFits, PutFits, RequestsFit
    <2>2. AfterLoad(q) = "apply" /\ shown[d].row # None
      BY <1>8, <2>1, NoneIsNoRow DEF AfterLoad
    <2>3. /\ step \in {"apply", "refresh", "answered"}
          /\ step = "apply" => policy' = policy /\ policy = shown[d].row /\ loaded = policy
          /\ step \in {"refresh", "answered"} => policy' = wanted
          /\ step = "answered" => loaded = wanted
      <3>1. CASE FindPolicy(q)
        BY <1>2, <2>1, <2>2, <3>1, ServerFits DEF FindPolicy, RequestsFit, PutFits
      <3>2. CASE ApplyUpdate(q)
        <4>1. /\ request[q].step = "apply" /\ policy' = Written(q) /\ Server(q, "refresh", request[q].loaded)
              /\ policy \in Rows /\ request[q].loaded = policy /\ request[q].payload = wanted
          BY <2>1, <3>2 DEF ApplyUpdate, PutFits
        <4>2. step = "refresh"
          BY <1>2, <4>1, ServerFits DEF RequestsFit
        <4>3. Written(q) \in Rows /\ \A c \in Columns : Written(q)[c] = wanted[c]
          BY <2>1, <4>1 DEF Written, Rows, Columns
        <4>4. Written(q) = wanted
          BY <2>1, <4>3, ColumnsOfRow
        <4> QED BY <4>1, <4>2, <4>4
      <3>3. CASE RefreshPolicy(q)
        BY <1>2, <2>1, <3>3, ServerFits DEF RefreshPolicy, RequestsFit, PutFits
      <3>4. CASE MissPolicy(q) \/ InsertPolicy(q) \/ ReloadPolicy(q)
        BY <2>1, <2>2, <3>4 DEF MissPolicy, InsertPolicy, ReloadPolicy, PutFits
      <3> QED BY <3>1, <3>2, <3>3, <3>4 DEF Serve
    <2> QED BY <1>2, <2>1, <2>3 DEF PutFits
  <1>9. shown[d].state # "data" => request[q].payload = None
    BY <1>3, <1>4 DEF AloneFits, PutFits
  <1>10. shown[d].state \in {"loading", "data"}
    BY <1>3, <1>4 DEF AloneFits, Quiet
  <1>11. \A r \in Requests : request'[r] # NoRequest =>
              /\ request'[r].device = d
              /\ request'[r].payload = None => (GetFits(r, d))'
              /\ request'[r].payload # None => (PutFits(r, d))'
    BY <1>2, <1>5, <1>6, <1>7, <1>8
  <1>12. \A r, s \in Requests : request'[r] # NoRequest /\ request'[s] # NoRequest => r = s
    BY <1>5
  <1> QED BY <1>2, <1>6, <1>7, <1>9, <1>10, <1>11, <1>12 DEF AloneFits

LEMMA StepKeepsAlone ==
  ASSUME RequestsFit, NEW d \in Devices, Devices = {d}, AloneFits(d), [Next]_vars
  PROVE  (AloneFits(d))'
  <1>1. ASSUME NEW e \in Devices, OpenScreen(e) PROVE (AloneFits(d))'
    BY <1>1, OpenKeepsAlone
  <1>2. ASSUME NEW e \in Devices, NEW col \in Columns, NEW v \in Values(col), UpdatePolicy(e, col, v)
        PROVE  (AloneFits(d))'
    BY <1>2, EditKeepsAlone
  <1>3. ASSUME NEW q \in Requests, ShowAnswer(q) \/ Fail(q) \/ Serve(q) PROVE (AloneFits(d))'
    BY <1>3, AnswerKeepsAlone, FailKeepsAlone, ServeKeepsAlone
  <1>4. ASSUME NEW c \in Connections, ConnectProvider(c) \/ DisconnectProvider(c)
        PROVE  UNCHANGED <<policy, shown, request, wanted, trouble>>
    BY <1>4 DEF ConnectProvider, DisconnectProvider, history
  <1>5. ASSUME NEW p \in Payments,
               BeginRouting(p) \/ LoadConnections(p) \/ CallProvider(p) \/ EndRouting(p)
        PROVE  UNCHANGED <<policy, shown, request, wanted, trouble>>
    BY <1>5 DEF BeginRouting, LoadConnections, CallProvider, EndRouting, history
  <1>6. CASE UNCHANGED vars
    BY <1>6, QuietKeepsAlone DEF vars
  <1> QED BY <1>1, <1>2, <1>3, <1>4, <1>5, <1>6, QuietKeepsAlone DEF Next

(* ------------------------------ the theorems --------------------------- *)

LEMMA PoliciesInit == Init => PoliciesInv
  <1> SUFFICES ASSUME Init PROVE PoliciesInv
    OBVIOUS
  <1>1. RequestsFit
    BY DefaultIsRow, EditsBounded DEF Init, RequestsFit, Screen, NoRequest
  <1>2. RoutingFits
    <2>1. NoRouting \in RoutingType /\ NoRouting.step = "idle" /\ NoRouting.gone = {} /\ Len(NoRouting.todo) = 0
          /\ NoRouting.called = {}
      BY DEF NoRouting, RoutingType
    <2> QED BY <2>1 DEF Init, RoutingFits
  <1>3. RowsWereChosen
    <2>1. \A col \in Columns : DefaultPolicy[col] \in Modes \cup Connections \cup {None}
      BY DefaultIsMode DEF DefaultPolicy, Columns
    <2> QED BY <2>1 DEF Init, RowsWereChosen, WasChosen, Screen, NoRequest
  <1>4. \A d \in Devices : AloneFits(d)
    BY DEF Init, AloneFits, Quiet, Screen
  <1> QED BY <1>1, <1>2, <1>3, <1>4 DEF PoliciesInv

THEOREM PoliciesInvariant == Spec => []PoliciesInv
  <1>1. PoliciesInv /\ [Next]_vars => PoliciesInv'
    BY StepKeepsRequests, StepKeepsRouting, StepKeepsChosen, StepKeepsAlone DEF PoliciesInv
  <1> QED BY <1>1, PoliciesInit, PTL DEF Spec

\* The variables of Policies keep their types.
THEOREM PoliciesTypeCorrect == Spec => []TypeOK
  <1>1. PoliciesInv => TypeOK
    BY DEF PoliciesInv, RequestsFit, RoutingFits, RequestType, RoutingType, TypeOK
  <1> QED BY <1>1, PoliciesInvariant, PTL

\* However PUTs of several devices mix, a column of the stored policy holds what
\* somebody chose for that column (routing_policies.py).
THEOREM StoredWasChosen == Spec => []StoredValuesWereChosen
  <1>1. PoliciesInv => StoredValuesWereChosen
    BY DEF PoliciesInv, RowsWereChosen, WasChosen, StoredValuesWereChosen
  <1> QED BY <1>1, PoliciesInvariant, PTL

\* BioRouter never calls a connection that was disconnected before it read the
\* policy naming it (router_service.py).
THEOREM DisconnectedNotCalled == Spec => []NoCallAfterDisconnect
  <1>1. PoliciesInv => NoCallAfterDisconnect
    BY DEF PoliciesInv, RoutingFits, NoCallAfterDisconnect
  <1> QED BY <1>1, PoliciesInvariant, PTL

\* Only an applied PUT changes a policy that exists: the default of a late first
\* read never comes back over it (routing_policy_service.py).
THEOREM NeverReset == Spec => PolicyNeverReset
  <1>1. RequestsFit /\ [Next]_vars =>
          [policy # None /\ policy' # policy =>
              \E q \in Requests : request[q].step = "apply" /\ request'[q].step = "refresh"]_vars
    <2> SUFFICES ASSUME RequestsFit, Next, policy # None, policy' # policy
                 PROVE  \E q \in Requests : request[q].step = "apply" /\ request'[q].step = "refresh"
      OBVIOUS
    <2>1. PICK q \in Requests : ApplyUpdate(q)
      BY DEF Next, OpenScreen, UpdatePolicy, ShowAnswer, Fail, FailRequest, LoseConnection, DropAnswer,
         ShowErrorOf, Serve, FindPolicy, MissPolicy, InsertPolicy, ReloadPolicy, RefreshPolicy,
         ConnectProvider, DisconnectProvider, BeginRouting, LoadConnections, CallProvider, EndRouting
    <2>2. request'[q].step = "refresh"
      BY <2>1, ServerFits DEF ApplyUpdate, RequestsFit
    <2> QED BY <2>1, <2>2 DEF ApplyUpdate
  <1>2. PoliciesInv => RequestsFit
    BY DEF PoliciesInv
  <1> QED BY <1>1, <1>2, PoliciesInvariant, PTL DEF Spec, PolicyNeverReset

\* With one device whose requests neither overlap nor fail, the stored policy, the
\* screen and the user's last choices agree whenever nothing is under way
\* (routing_providers.dart).
THEOREM EditsAreKept == (\E d : Devices = {d}) => (Spec => []EditsKept)
  <1>1. SUFFICES ASSUME NEW d, Devices = {d} PROVE Spec => []EditsKept
    OBVIOUS
  <1>2. PoliciesInv => EditsKept
    BY <1>1 DEF PoliciesInv, AloneFits, EditsKept
  <1> QED BY <1>2, PoliciesInvariant, PTL

=============================================================================
