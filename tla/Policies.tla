------------------------------ MODULE Policies ------------------------------
(***************************************************************************)
(* One user's routing policy and provider connections: the requests that   *)
(* read and replace the policy row, the routing screen of the mobile app   *)
(* that sends the whole policy it shows after every touched control, and   *)
(* BioRouter, which reads the policy, then the connections it names, and   *)
(* then calls them one after the other.                                    *)
(*                                                                         *)
(* A PUT loads the row, assigns its three columns and commits; SQLAlchemy  *)
(* writes only the columns whose value differs from the one it loaded.     *)
(***************************************************************************)
EXTENDS Naturals, Sequences, FiniteSets

CONSTANTS
    Devices,     \* apps signed in as the user
    Requests,    \* GETs and PUTs of the policy under way at the same time
    Payments,    \* payments routed at the same time
    Connections, \* ids of provider connections, one per connect
    Modes,       \* the values of the mode column; the first row has DefaultMode
    DefaultMode,
    MaxEdits,    \* bound: controls touched in one behaviour
    None

ASSUME DefaultIsMode == DefaultMode \in Modes
ASSUME NoneIsNew == None \notin Connections \cup Devices
ASSUME EditsBounded == MaxEdits \in Nat

VARIABLES
    policy,      \* the routing_policies row of the user; None before the first read
    connection,  \* status of each provider_connections row
    shown,       \* what each device's routing screen holds
    request,     \* the requests for the policy
    routing,     \* BioRouter's work for each payment
    wanted,      \* the last value the user chose, by column (history)
    chosen,      \* every value the user ever chose, by column (history)
    edits,       \* how many controls were touched (bounded)
    trouble      \* "none", or requests "overlapped", or one "failed" (history)

vars == <<policy, connection, shown, request, routing, wanted, chosen, edits, trouble>>
history == <<wanted, chosen, edits, trouble>>

Columns == {"mode", "primary", "fallback"}
Values(col) == IF col = "mode" THEN Modes ELSE Connections \cup {None}
Rows == [mode : Modes, primary : Connections \cup {None}, fallback : Connections \cup {None}]
ASSUME NoneIsNoRow == None \notin Rows
Screen(state, row) == [state |-> state, row |-> row]
NullPolicy == [mode |-> None, primary |-> None, fallback |-> None]  \* mutant: no default
DefaultPolicy == [mode |-> DefaultMode, primary |-> None, fallback |-> None]

NoRequest == [step |-> "none", device |-> None, payload |-> None, loaded |-> None]
NoRouting == [step |-> "idle", row |-> None, todo |-> <<>>, called |-> {}, gone |-> {}]

Quiet == \A q \in Requests : request[q] = NoRequest
NoteOverlap == trouble' = IF Quiet \/ trouble = "failed" THEN trouble ELSE "overlapped"

(* ----------------------------- the screen ------------------------------ *)

\* The device sends a request; payload None is the GET of the first build.
Send(d, payload) ==
    \E q \in Requests :
        /\ request[q] = NoRequest
        /\ request' = [request EXCEPT ![q] = [step |-> "read", device |-> d,
                                              payload |-> payload, loaded |-> None]]

\* The screen is built, or built again by a new session after an error.
OpenScreen(d) ==
    /\ shown[d].state \in {"closed", "error"}
    /\ shown' = [shown EXCEPT ![d] = Screen("loading", None)]
    /\ Send(d, None)
    /\ NoteOverlap
    /\ UNCHANGED <<policy, connection, routing, wanted, chosen, edits>>

\* A control is touched: the PUT carries the policy on screen with one column
\* replaced.  The controls stay enabled, on the old policy, until the answer.
UpdatePolicy(d, col, value) ==
    /\ shown[d].state = "data"
    /\ edits < MaxEdits
    /\ value \in Connections => connection[value] # "none"
    /\ Send(d, [shown[d].row EXCEPT ![col] = value])
    /\ wanted' = [wanted EXCEPT ![col] = value]
    /\ chosen' = [chosen EXCEPT ![col] = @ \cup {value}]
    /\ edits' = edits + 1
    /\ NoteOverlap
    /\ UNCHANGED <<policy, connection, shown, routing>>

\* The answer replaces the policy on screen, whichever request it belongs to.
ShowAnswer(q) ==
    /\ request[q].step = "answered"
    /\ request[q].device # None
    /\ shown' = [shown EXCEPT ![request[q].device] = Screen("data", request[q].loaded)]
    /\ request' = [request EXCEPT ![q] = NoRequest]
    /\ UNCHANGED <<policy, connection, routing, wanted, chosen, edits, trouble>>

ShowErrorOf(q) ==
    /\ request[q].device # None
    /\ shown' = [shown EXCEPT ![request[q].device] = Screen("error", None)]
    /\ trouble' = "failed"
    /\ UNCHANGED <<policy, connection, routing, wanted, chosen, edits>>

\* The request fails at the server, its transaction is rolled back ...
FailRequest(q) ==
    /\ request[q].step \in {"read", "insert", "reload", "apply", "refresh"}
    /\ request' = [request EXCEPT ![q] = NoRequest]
    /\ ShowErrorOf(q)

\* ... or the app loses the connection, and the server goes on without it.
LoseConnection(q) ==
    /\ request' = [request EXCEPT ![q].device = None]
    /\ ShowErrorOf(q)

\* The server is done with a request nobody waits for any more.
DropAnswer(q) ==
    /\ request[q].step # "none"
    /\ request[q].device = None
    /\ request' = [request EXCEPT ![q] = NoRequest]
    /\ UNCHANGED <<policy, connection, shown, routing, history>>

(* ----------------------- GET and PUT /routing-policy ------------------- *)

Server(q, step, loaded) ==
    /\ request' = [request EXCEPT ![q].step = step, ![q].loaded = loaded]
    /\ UNCHANGED <<connection, shown, routing, history>>

AfterLoad(q) == IF request[q].payload = None THEN "answered" ELSE "apply"

FindPolicy(q) ==
    /\ request[q].step = "read"
    /\ policy # None
    /\ Server(q, AfterLoad(q), policy)
    /\ UNCHANGED policy

MissPolicy(q) ==
    /\ request[q].step = "read"
    /\ policy = None
    /\ Server(q, "insert", None)
    /\ UNCHANGED policy

InsertAnyway(q) ==       \* mutant: the user_id of a policy is not unique
    /\ request[q].step = "insert"
    /\ policy' = DefaultPolicy
    /\ Server(q, "reload", None)

\* The default row; a concurrent first read that was faster makes the INSERT
\* fail on the unique user_id, and the request ends in FailRequest.
InsertPolicy(q) ==
    /\ request[q].step = "insert"
    /\ policy = None
    /\ policy' = DefaultPolicy
    /\ Server(q, "reload", None)

ReloadPolicy(q) ==
    /\ request[q].step = "reload"
    /\ Server(q, AfterLoad(q), policy)
    /\ UNCHANGED policy

SetOnly(q) ==            \* mutant: a null column means leave it unchanged
    [col \in Columns |-> IF request[q].payload[col] \notin {None, request[q].loaded[col]}
                         THEN request[q].payload[col] ELSE policy[col]]
SwapColumns(q) ==        \* mutant: primary and fallback are mixed up
    [policy EXCEPT !.primary = request[q].payload.fallback,
                   !.fallback = request[q].payload.primary]
\* The row after the UPDATE: the columns that differ from the loaded ones.
Written(q) ==
    [col \in Columns |-> IF request[q].payload[col] # request[q].loaded[col]
                         THEN request[q].payload[col] ELSE policy[col]]

ApplyUpdate(q) ==
    /\ request[q].step = "apply"
    /\ policy' = Written(q)
    /\ Server(q, "refresh", request[q].loaded)

\* The answer is the row as it is when the request reads it back.
RefreshPolicy(q) ==
    /\ request[q].step = "refresh"
    /\ Server(q, "answered", policy)
    /\ UNCHANGED policy

(* ---------------------- connecting and disconnecting ------------------- *)

ConnectProvider(c) ==
    /\ connection[c] = "none"
    /\ connection' = [connection EXCEPT ![c] = "CONNECTED"]
    /\ UNCHANGED <<policy, shown, request, routing, history>>

\* The row stays, and so does a policy that names it.
DisconnectProvider(c) ==
    /\ connection[c] = "CONNECTED"
    /\ connection' = [connection EXCEPT ![c] = "DISCONNECTED"]
    /\ UNCHANGED <<policy, shown, request, routing, history>>

(* ------------------------------ BioRouter ------------------------------ *)

\* The payment reads the policy row.  gone: what was disconnected by then.
BeginRouting(p) ==
    /\ routing[p].step = "idle"
    /\ policy # None
    /\ routing' = [routing EXCEPT ![p] =
          [NoRouting EXCEPT !.step = "load", !.row = policy,
                            !.gone = {c \in Connections : connection[c] = "DISCONNECTED"}]]
    /\ UNCHANGED <<policy, connection, shown, request, history>>

KnownAtLoad(c) == c # None                       \* mutant: the status is not looked at
UsableAtLoad(c) == c # None /\ connection[c] = "CONNECTED"
Candidate(c) == IF UsableAtLoad(c) THEN <<c>> ELSE <<>>

\* ... then the connections it names; those not connected are skipped.
LoadConnections(p) ==
    /\ routing[p].step = "load"
    /\ routing' = [routing EXCEPT ![p].step = "call",
          ![p].todo = Candidate(routing[p].row.primary) \o Candidate(routing[p].row.fallback)]
    /\ UNCHANGED <<policy, connection, shown, request, history>>

\* One call; after a SUCCESS or a PENDING no further one.
CallProvider(p) ==
    /\ routing[p].step = "call"
    /\ routing[p].todo # <<>>
    /\ \E rest \in {<<>>, Tail(routing[p].todo)} :
        routing' = [routing EXCEPT ![p].todo = rest,
                                   ![p].called = @ \cup {Head(routing[p].todo)}]
    /\ UNCHANGED <<policy, connection, shown, request, history>>

EndRouting(p) ==
    /\ routing[p].step = "call"
    /\ routing[p].todo = <<>>
    /\ routing' = [routing EXCEPT ![p] = NoRouting]
    /\ UNCHANGED <<policy, connection, shown, request, history>>

(* ---------------------------- specification ---------------------------- *)

Init ==
    /\ policy = None
    /\ connection = [c \in Connections |-> "none"]
    /\ shown = [d \in Devices |-> Screen("closed", None)]
    /\ request = [q \in Requests |-> NoRequest]
    /\ routing = [p \in Payments |-> NoRouting]
    /\ wanted = DefaultPolicy
    /\ chosen = [col \in Columns |-> {DefaultPolicy[col]}]
    /\ edits = 0
    /\ trouble = "none"

Fail(q) == FailRequest(q) \/ LoseConnection(q) \/ DropAnswer(q)

Serve(q) ==
    \/ FindPolicy(q) \/ MissPolicy(q) \/ InsertPolicy(q) \/ ReloadPolicy(q)
    \/ ApplyUpdate(q) \/ RefreshPolicy(q)

Next ==
    \/ \E d \in Devices :
        OpenScreen(d) \/ \E col \in Columns : \E v \in Values(col) : UpdatePolicy(d, col, v)
    \/ \E q \in Requests : ShowAnswer(q) \/ Fail(q) \/ Serve(q)
    \/ \E c \in Connections : ConnectProvider(c) \/ DisconnectProvider(c)
    \/ \E p \in Payments :
        BeginRouting(p) \/ LoadConnections(p) \/ CallProvider(p) \/ EndRouting(p)

Spec == Init /\ [][Next]_vars

(* ------------------------------ properties ----------------------------- *)

TypeOK ==
    /\ policy \in Rows \cup {None}
    /\ connection \in [Connections -> {"none", "CONNECTED", "DISCONNECTED"}]
    /\ shown \in [Devices -> [state : {"closed", "loading", "error", "data"}, row : Rows \cup {None}]]
    /\ request \in [Requests -> [step : {"none", "read", "insert", "reload", "apply", "refresh",
                                         "answered"},
                                 device : Devices \cup {None},
                                 payload : Rows \cup {None}, loaded : Rows \cup {None}]]
    /\ \A p \in Payments :
        /\ routing[p].step \in {"idle", "load", "call"}
        /\ routing[p].row \in Rows \cup {None}
        /\ routing[p].todo \in Seq(Connections)
        /\ routing[p].called \subseteq Connections
    /\ wanted \in Rows
    /\ edits \in 0 .. MaxEdits
    /\ trouble \in {"none", "overlapped", "failed"}

\* Concurrent PUTs may mix their columns, but a column only ever holds what
\* somebody chose for that column: primary and fallback are never confused.
StoredValuesWereChosen ==
    policy # None => \A col \in Columns : policy[col] \in chosen[col]

\* A late first read never puts the default back over a policy already there:
\* only a PUT that is being applied changes an existing row.
PolicyNeverReset ==
    [][policy # None /\ policy' # policy =>
        \E q \in Requests : request[q].step = "apply" /\ request'[q].step = "refresh"]_vars

\* A provider disconnected before a payment begins to route is not called by
\* it, although the policy still names the connection and is read first.
NoCallAfterDisconnect == \A p \in Payments : routing[p].called \cap routing[p].gone = {}

\* With one device, when every answer is awaited before the next control is
\* touched, the row, the screen and the user's last choices agree.
EditsKept ==
    \A d \in Devices : trouble = "none" /\ Quiet /\ shown[d].state = "data" =>
        policy = wanted /\ shown[d].row = policy

(* What the app's comments say, and the code does not keep.                *)

\* The screen "always has the complete current+edited state in hand anyway":
\* with one device and no failure, once every request is answered the row
\* holds, column by column, what the user chose last.
LastChoiceStored ==
    trouble # "failed" /\ Quiet /\ policy # None /\ (\A d \in Devices : shown[d].state = "data") => policy = wanted
=============================================================================
