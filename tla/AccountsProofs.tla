--------------------------- MODULE AccountsProofs ---------------------------
(***************************************************************************)
(* Theorems of Accounts, for any number of people, of calls under way, of  *)
(* logins and of restarts: what the phone shows, sends and stores is one   *)
(* session, and its BioID is that session's.                               *)
(***************************************************************************)
EXTENDS Accounts, TLAPS

TaskType == [kind : {"none", "restore", "login", "logout"},
             step : {"none", "login", "register", "access", "refresh"}, user : Users \cup {None}]

(* ------------------------- the phone's own state ----------------------- *)

PhoneTyped ==
    /\ stored \in [access : Users \cup {None}, refresh : Users \cup {None}]
    /\ channel \in Seq(Tasks)
    /\ task \in [Tasks -> TaskType]
    /\ token \in Users \cup {None}
    /\ screen \in [auth : BOOLEAN, loading : BOOLEAN, email : Users \cup {None}]
    /\ bio \in {NoBio} \cup [step : {"get", "post", "data", "error"}, user : Users]
    /\ overlap \in BOOLEAN

TasksFit ==
    \A t \in Tasks :
        /\ task[t].step = "none" => task[t] = NoTask
        /\ task[t].step \in {"login", "register"} => task[t].kind = "login"
        /\ task[t].kind = "login" => task[t].user \in Users
        /\ task[t].kind = "none" => task[t].step = "none"

\* The storage answers in order: a task waits in it once, and the restore, which
\* is the first call of the app, is answered before any other.
ChannelFits ==
    /\ \A i \in 1 .. Len(channel) : task[channel[i]].step \in {"access", "refresh"}
    /\ \A i, j \in 1 .. Len(channel) : channel[i] = channel[j] => i = j
    /\ \A t \in Tasks : task[t].kind = "restore" =>
          /\ channel # <<>> /\ channel[1] = t /\ task[t].step = "access"
          /\ \A i \in 1 .. Len(channel) : task[channel[i]].step = "access"

\* Screen, token and BioID are those of one session; a login that was tapped
\* alone stays alone until the screen flips.
SessionFits ==
    /\ ScreenFollowsToken /\ LoadingMeansLogin
    /\ \A t \in Tasks : task[t].kind = "restore" => ~screen.auth /\ screen.email = None
    /\ ~overlap => \A t \in Tasks : task[t].kind = "login" =>
          ~screen.auth /\ \A u \in Tasks \ {t} : task[u] = NoTask
    /\ bio # NoBio => screen.auth
    /\ bio # NoBio /\ ~overlap => bio.user = token

PhoneInv == PhoneTyped /\ TasksFit /\ ChannelFits /\ SessionFits

(* ------------------------ the server's requests ------------------------ *)

RequestType == [kind : {"none", "register", "issue"}, step : Steps, user : Users \cup {None},
                by : Tasks \cup {"bio", None}]

\* What a request has reached is in the tables.
RequestsFit ==
    /\ request \in [Requests -> RequestType] /\ trouble \in BOOLEAN
    /\ account \subseteq Users /\ bioID \subseteq account
    /\ \A q \in Requests :
          /\ request[q].step # "none" => request[q].user \in Users
          /\ request[q].step = "none" => request[q].by = None
          /\ request[q].step \in {"check", "insert", "ok", "conflict"} => request[q].user \in account
          /\ request[q].step \in {"ok", "conflict"} => request[q].user \in bioID
          /\ request[q].step = "failed" => trouble
          /\ request[q].kind = "issue" => request[q].step \notin {"create", "refused"}

\* A request that is waited for is the one its waiter sent, and the only one.
WaitersFit ==
    /\ \A q \in Requests :
          /\ request[q].by = "bio" =>
                request[q].kind = "issue" /\ bio.step = "post" /\ request[q].user = bio.user
          /\ request[q].by \in Tasks =>
                task[request[q].by].step = "register" /\ request[q].user = task[request[q].by].user
          /\ \A r \in Requests : request[q].by = request[r].by /\ request[q].by # None => q = r
    /\ bio.step = "post" => \E q \in Requests : request[q].by = "bio"

\* Tokens are those of registered users, and a BioID on screen is issued.
UsersFit ==
    /\ token # None => token \in account
    /\ stored.access # None => stored.access \in account
    /\ \A t \in Tasks : task[t].kind = "login" /\ task[t].step \in {"access", "refresh"}
          => task[t].user \in account
    /\ FetchRepairs

RequestInv == RequestsFit /\ WaitersFit /\ UsersFit

\* A task at the head of the storage's channel.
LEMMA HeadOfChannel ==
  ASSUME PhoneTyped, NEW t \in Tasks, NEW kind, NEW step, Answered(t, kind, step)
  PROVE  /\ channel[1] = t /\ Len(channel) \in Nat /\ Len(channel) >= 1
         /\ task[t].kind = kind /\ task[t].step = step
         /\ Tail(channel) \in Seq(Tasks) /\ Len(Tail(channel)) = Len(channel) - 1
         /\ \A i \in 1 .. Len(channel) - 1 : Tail(channel)[i] = channel[i + 1]
  BY DEF Answered, Waiting, PhoneTyped

LEMMA TasksTyped == NoTask \in TaskType /\ \A kind \in {"restore", "logout"} : Calling(kind) \in TaskType
  BY DEF NoTask, Calling, TaskType

LEMMA PhoneInit == Init => PhoneInv
  <1> SUFFICES ASSUME Init PROVE PhoneInv
    OBVIOUS
  <1>1. PICK t \in Tasks :
          /\ task = [u \in Tasks |-> IF u = t THEN Calling("restore")
                                     ELSE NoTask]
          /\ channel = <<t>>
    BY DEF Init
  <1>2. PhoneTyped
    <2>1. task \in [Tasks -> TaskType] /\ channel \in Seq(Tasks)
      BY <1>1, TasksTyped
    <2>3. screen \in [auth : BOOLEAN, loading : BOOLEAN, email : Users \cup {None}]
      BY DEF Init, SignedOut
    <2> QED BY <2>1, <2>3 DEF Init, PhoneTyped
  <1>3. TasksFit /\ ChannelFits
    BY <1>1 DEF TasksFit, ChannelFits, NoTask, Calling
  <1>4. SessionFits
    BY <1>1, NoneIsNew DEF Init, SessionFits, ScreenFollowsToken, LoadingMeansLogin, SignedOut, NoTask, Calling,
       NoBio
  <1> QED BY <1>2, <1>3, <1>4 DEF PhoneInv

\* The server's steps and those of the BioID's provider leave the session alone.
LEMMA BioStepKeepsPhone ==
  ASSUME PhoneInv, UNCHANGED <<session, task>>,
         \/ bio' = bio
         \/ bio' = NoBio
         \/ /\ screen.auth /\ bio' \in [step : {"get", "post", "data", "error"}, user : Users]
            /\ ~overlap => bio'.user = token
  PROVE  PhoneInv'
  <1>1. PhoneTyped' /\ TasksFit' /\ ChannelFits'
    BY DEF PhoneInv, PhoneTyped, TasksFit, ChannelFits, session
  <1>2. SessionFits'
    BY DEF PhoneInv, SessionFits, ScreenFollowsToken, LoadingMeansLogin, session
  <1> QED BY <1>1, <1>2 DEF PhoneInv

\* The BioID's provider asks with the token, and keeps the user it asked for.
LEMMA ProviderKeepsPhone ==
  ASSUME PhoneInv, RequestInv, BioIDProvider \/ Refresh PROVE PhoneInv'
  <1>1. bio # NoBio => bio \in [step : {"get", "post", "data", "error"}, user : Users]
    BY DEF PhoneInv, PhoneTyped
  <1>2. screen.auth => token \in Users
    BY DEF PhoneInv, PhoneTyped, SessionFits, ScreenFollowsToken
  <1>3. bio # NoBio => screen.auth /\ (~overlap => bio.user = token)
    BY DEF PhoneInv, SessionFits
  <1>4. CASE FetchBioID \/ Refresh
    BY <1>2, <1>4, BioStepKeepsPhone DEF FetchBioID, Refresh, session
  <1>5. CASE BioIDFound
    <2>1. bio # NoBio /\ bio' = Loaded(bio.user) /\ UNCHANGED <<session, task>>
      BY <1>5 DEF BioIDFound, NoBio
    <2> QED BY <1>1, <1>3, <2>1, BioStepKeepsPhone DEF Loaded
  <1>6. CASE IssueInstead
    <2>1. bio # NoBio /\ bio' = [step |-> "post", user |-> token] /\ UNCHANGED <<session, task>>
      BY <1>6 DEF IssueInstead, NoBio
    <2> QED BY <1>2, <1>3, <2>1, BioStepKeepsPhone
  <1>7. CASE IssueFails
    <2>1. bio # NoBio /\ bio' = [bio EXCEPT !.step = "error"] /\ UNCHANGED <<session, task>>
      BY <1>7 DEF IssueFails, NoBio
    <2> QED BY <1>1, <1>3, <2>1, BioStepKeepsPhone
  <1>8. CASE BioIDIssued
    <2>1. bio.step = "post"
      BY <1>8 DEF BioIDIssued, RequestInv, WaitersFit
    <2>2. bio # NoBio /\ bio' = Loaded(bio.user) /\ UNCHANGED <<session, task>>
      BY <1>8, <2>1 DEF BioIDIssued, NoBio
    <2> QED BY <1>1, <1>3, <2>2, BioStepKeepsPhone DEF Loaded
  <1> QED BY <1>4, <1>5, <1>6, <1>7, <1>8 DEF BioIDProvider

\* A login that waits for the server has no call in the storage, and one that was
\* not disturbed is alone.
LEMMA LoginKeepsPhone ==
  ASSUME PhoneInv, NEW t \in Tasks, NEW u \in Users, Login(t, u) PROVE PhoneInv'
  <1> DEFINE j == [kind |-> "login", step |-> "login", user |-> u]
  <1>1. /\ task' = [task EXCEPT ![t] = j] /\ task[t] = NoTask
        /\ screen' = [screen EXCEPT !.loading = TRUE] /\ ~screen.auth
        /\ overlap' = (overlap \/ Busy) /\ UNCHANGED <<stored, channel, token, bio>>
    BY DEF Login
  <1>2. j \in TaskType
    BY DEF TaskType
  <1>3. \A i \in 1 .. Len(channel) : channel[i] \in Tasks /\ channel[i] # t
    BY <1>1 DEF PhoneInv, PhoneTyped, ChannelFits, NoTask
  <1>4. PhoneTyped'
    BY <1>1, <1>2 DEF PhoneInv, PhoneTyped, Busy
  <1>5. TasksFit' /\ ChannelFits'
    BY <1>1, <1>3 DEF PhoneInv, PhoneTyped, TasksFit, ChannelFits
  <1>6. SessionFits'
    <2>1. ScreenFollowsToken' /\ LoadingMeansLogin'
      BY <1>1 DEF PhoneInv, PhoneTyped, SessionFits, ScreenFollowsToken, LoadingMeansLogin
    <2>2. ~overlap' => \A v \in Tasks \ {t} : task'[v] = NoTask
      BY <1>1 DEF Busy, PhoneInv, PhoneTyped
    <2>3. /\ \A v \in Tasks : task'[v].kind = "restore" => task[v].kind = "restore"
          /\ ~screen'.auth /\ screen'.email = screen.email
      BY <1>1 DEF PhoneInv, PhoneTyped
    <2>4. \A v \in Tasks : task'[v].kind = "login" => v = t \/ task'[v] # NoTask
      BY DEF NoTask
    <2>5. ~overlap' => \A v \in Tasks : task'[v].kind = "login" =>
              ~screen'.auth /\ \A w \in Tasks \ {v} : task'[w] = NoTask
      BY <2>2, <2>3, <2>4
    <2>6. \A v \in Tasks : task'[v].kind = "restore" => ~screen'.auth /\ screen'.email = None
      BY <2>3 DEF PhoneInv, SessionFits
    <2>7. (bio' # NoBio => screen'.auth) /\ (bio' # NoBio /\ ~overlap' => bio'.user = token')
      BY <1>1 DEF PhoneInv, SessionFits
    <2> QED BY <2>1, <2>5, <2>6, <2>7 DEF SessionFits
  <1> QED BY <1>4, <1>5, <1>6 DEF PhoneInv

LEMMA CallKeepsPhone ==
  ASSUME PhoneInv, NEW t \in Tasks, Call(t) PROVE PhoneInv'
  <1>0. /\ task[t].kind = "login" /\ task[t].step \in {"login", "register"}
        /\ task[t] # NoTask /\ UNCHANGED <<stored, token, overlap, bio>>
    BY DEF Call, LoginAnswered, LoginFails, RegisterAnswered, RegisterFails, Waiting, NoTask, session
  <1>1. \A i \in 1 .. Len(channel) : channel[i] \in Tasks /\ channel[i] # t
    BY <1>0 DEF PhoneInv, PhoneTyped, ChannelFits
  <1>2. CASE LoginAnswered(t) \/ RegisterAnswered(t)
    <2>1. /\ task' = [task EXCEPT ![t].step = "access"] /\ channel' = Append(channel, t)
          /\ screen' = screen
      BY <1>2 DEF LoginAnswered, RegisterAnswered, Authenticated, GoOn
    <2>2. /\ channel' \in Seq(Tasks) /\ Len(channel') = Len(channel) + 1 /\ channel'[Len(channel')] = t
          /\ \A i \in 1 .. Len(channel) : channel'[i] = channel[i]
          /\ Len(channel) \in Nat
      BY <2>1 DEF PhoneInv, PhoneTyped
    <2>3. PhoneTyped' /\ TasksFit'
      BY <1>0, <2>1, <2>2 DEF PhoneInv, PhoneTyped, TasksFit, TaskType
    <2>4. ChannelFits'
      BY <1>0, <1>1, <2>1, <2>2 DEF PhoneInv, PhoneTyped, ChannelFits, TaskType
    <2>5. SessionFits'
      BY <1>0, <2>1 DEF PhoneInv, PhoneTyped, TaskType, SessionFits, ScreenFollowsToken, LoadingMeansLogin
    <2> QED BY <2>3, <2>4, <2>5 DEF PhoneInv
  <1>3. CASE LoginFails(t)
    <2>1. task' = [task EXCEPT ![t].step = "register"] /\ UNCHANGED <<screen, channel>>
      BY <1>3 DEF LoginFails, GoOn, session
    <2>2. PhoneTyped' /\ TasksFit'
      BY <1>0, <2>1 DEF PhoneInv, PhoneTyped, TasksFit, TaskType
    <2>3. ChannelFits'
      BY <1>0, <1>1, <2>1 DEF PhoneInv, PhoneTyped, ChannelFits, TaskType
    <2>4. SessionFits'
      BY <1>0, <2>1 DEF PhoneInv, PhoneTyped, TaskType, SessionFits, ScreenFollowsToken, LoadingMeansLogin
    <2> QED BY <2>2, <2>3, <2>4 DEF PhoneInv
  <1>4. CASE RegisterFails(t)
    <2>1. /\ task' = [task EXCEPT ![t] = NoTask] /\ channel' = channel
          /\ screen' = [screen EXCEPT !.loading = FALSE]
      BY <1>4 DEF RegisterFails, Done
    <2>2. PhoneTyped' /\ TasksFit'
      BY <1>0, <2>1, TasksTyped DEF PhoneInv, PhoneTyped, TasksFit, NoTask
    <2>3. ChannelFits'
      BY <1>0, <1>1, <2>1 DEF PhoneInv, PhoneTyped, ChannelFits, NoTask
    <2>4. SessionFits'
      BY <1>0, <2>1 DEF PhoneInv, PhoneTyped, SessionFits, ScreenFollowsToken, LoadingMeansLogin, NoTask
    <2> QED BY <2>2, <2>3, <2>4 DEF PhoneInv
  <1> QED BY <1>2, <1>3, <1>4 DEF Call

\* While another task than the restore is at the head, there is no restore; a
\* task at the head leaves the channel or goes to its end.
LEMMA NoRestoreBehind ==
  ASSUME PhoneInv, NEW t \in Tasks, NEW kind, NEW step, Answered(t, kind, step)
  PROVE  \A u \in Tasks : task[u].kind = "restore" => u = t
  BY HeadOfChannel DEF PhoneInv, ChannelFits

LEMMA DoneFits ==
  ASSUME PhoneInv, NEW t \in Tasks, NEW kind, NEW step, Answered(t, kind, step),
         channel' = Tail(channel), Done(t)
  PROVE  TasksFit' /\ ChannelFits' /\ channel' \in Seq(Tasks) /\ task' \in [Tasks -> TaskType]
  <1>1. /\ task' = [task EXCEPT ![t] = NoTask] /\ task \in [Tasks -> TaskType] /\ channel \in Seq(Tasks)
        /\ Len(channel') = Len(channel) - 1 /\ Len(channel) \in Nat /\ Len(channel) >= 1
        /\ channel[1] = t /\ channel' \in Seq(Tasks)
        /\ \A i \in 1 .. Len(channel') : channel'[i] = channel[i + 1] /\ channel'[i] \in Tasks
                                         /\ i + 1 \in 1 .. Len(channel)
    BY HeadOfChannel DEF PhoneInv, PhoneTyped, Done
  <1>2. \A i \in 1 .. Len(channel') : channel'[i] # t
    BY <1>1 DEF PhoneInv, ChannelFits
  <1>3. task' \in [Tasks -> TaskType] /\ TasksFit'
    BY <1>1, TasksTyped DEF PhoneInv, TasksFit, NoTask
  <1>4. \A u \in Tasks : task'[u].kind # "restore"
    BY <1>1, NoRestoreBehind DEF NoTask
  <1>5. \A i \in 1 .. Len(channel') : task'[channel'[i]].step \in {"access", "refresh"}
    BY <1>1, <1>2 DEF PhoneInv, ChannelFits
  <1>6. \A i, k \in 1 .. Len(channel') : channel'[i] = channel'[k] => i = k
    BY <1>1 DEF PhoneInv, ChannelFits
  <1> QED BY <1>1, <1>3, <1>4, <1>5, <1>6 DEF ChannelFits

LEMMA NextCallFits ==
  ASSUME PhoneInv, NEW t \in Tasks, NEW kind \in {"login", "logout"}, Answered(t, kind, "access"),
         channel' = Append(Tail(channel), t), GoOn(t, "refresh")
  PROVE  TasksFit' /\ ChannelFits' /\ channel' \in Seq(Tasks) /\ task' \in [Tasks -> TaskType]
  <1>0. /\ Tail(channel) \in Seq(Tasks) /\ Len(Tail(channel)) = Len(channel) - 1
        /\ \A i \in 1 .. Len(channel) - 1 : Tail(channel)[i] = channel[i + 1]
        /\ Len(channel) \in Nat /\ Len(channel) >= 1 /\ channel[1] = t /\ task[t].kind = kind
    BY HeadOfChannel DEF PhoneInv
  <1>1. /\ task' = [task EXCEPT ![t].step = "refresh"] /\ task \in [Tasks -> TaskType]
        /\ channel' \in Seq(Tasks) /\ channel \in Seq(Tasks)
        /\ Len(channel') = Len(channel) /\ channel'[Len(channel)] = t
        /\ \A i \in 1 .. Len(channel) - 1 : channel'[i] = channel[i + 1] /\ channel[i + 1] \in Tasks
                                            /\ i + 1 \in 1 .. Len(channel)
    BY <1>0 DEF PhoneInv, PhoneTyped, GoOn
  <1>2. \A i \in 1 .. Len(channel) - 1 : channel'[i] # t
    BY <1>0, <1>1 DEF PhoneInv, ChannelFits
  <1>3. task' \in [Tasks -> TaskType]
    BY <1>1 DEF TaskType
  <1>4. TasksFit'
    BY <1>0, <1>1 DEF PhoneInv, TasksFit, TaskType
  <1>5. \A u \in Tasks : task'[u].kind # "restore"
    BY <1>0, <1>1, NoRestoreBehind DEF TaskType
  <1>6. \A i \in 1 .. Len(channel') : task'[channel'[i]].step \in {"access", "refresh"}
    <2>1. task'[t].step = "refresh"
      BY <1>1 DEF TaskType
    <2>2. \A i \in 1 .. Len(channel) - 1 : task'[channel'[i]] = task[channel[i + 1]]
      BY <1>1, <1>2
    <2>3. \A i \in 1 .. Len(channel) - 1 : task[channel[i + 1]].step \in {"access", "refresh"}
      BY <1>1 DEF PhoneInv, ChannelFits
    <2>4. \A i \in 1 .. Len(channel') : i = Len(channel) \/ i \in 1 .. Len(channel) - 1
      BY <1>0, <1>1
    <2> QED BY <1>1, <2>1, <2>2, <2>3, <2>4
  <1>7. \A i, k \in 1 .. Len(channel') : channel'[i] = channel'[k] => i = k
    <2>1. \A i, k \in 1 .. Len(channel) - 1 : channel'[i] = channel'[k] => i = k
      BY <1>0, <1>1 DEF PhoneInv, ChannelFits
    <2> QED BY <1>0, <1>1, <1>2, <2>1
  <1> QED BY <1>1, <1>3, <1>4, <1>5, <1>6, <1>7 DEF ChannelFits

LEMMA StorageKeepsPhone ==
  ASSUME PhoneInv, NEW t \in Tasks, Storage(t) PROVE PhoneInv'
  <1> USE DEF PhoneInv
  <1>1. CASE RestoreSession(t)
    <2>1. /\ task' = [task EXCEPT ![t] = NoTask] /\ token' = stored.access
          /\ screen' = [screen EXCEPT !.auth = @ \/ stored.access # None]
          /\ UNCHANGED <<stored, overlap>>
          /\ task[t].kind = "restore" /\ task[t] # NoTask
          /\ (screen'.auth = screen.auth /\ bio' = bio) \/ bio' = NoBio
      BY <1>1 DEF RestoreSession, SetScreen, Done, Answered, Waiting, NoTask
    <2>2. TasksFit' /\ ChannelFits' /\ channel' \in Seq(Tasks) /\ task' \in [Tasks -> TaskType]
      BY <1>1, DoneFits DEF RestoreSession
    <2>3. ~screen.auth /\ screen.email = None /\ bio = NoBio
      BY <2>1 DEF SessionFits
    <2>4. bio' = NoBio
      BY <2>1, <2>3
    <2>5. screen' = [auth |-> stored.access # None, loading |-> screen.loading, email |-> None]
      BY <2>1, <2>3 DEF PhoneTyped
    <2>6. PhoneTyped'
      BY <2>1, <2>2, <2>4, <2>5 DEF PhoneTyped
    <2>7. \A u \in Tasks : task'[u].kind # "restore"
      BY <1>1, <2>1, NoRestoreBehind DEF PhoneTyped, NoTask, RestoreSession
    <2>8. ScreenFollowsToken' /\ LoadingMeansLogin'
      BY <2>1, <2>5 DEF PhoneTyped, SessionFits, ScreenFollowsToken, LoadingMeansLogin
    <2>9. ~overlap' => \A u \in Tasks : task'[u].kind # "login"
      BY <2>1 DEF PhoneTyped, SessionFits, NoTask
    <2> QED BY <2>2, <2>4, <2>6, <2>7, <2>8, <2>9 DEF SessionFits
  <1>2. CASE WriteAccess(t) \/ DeleteAccess(t)
    <2>1. PICK kind \in {"login", "logout"} :
              /\ Answered(t, kind, "access") /\ GoOn(t, "refresh")
              /\ channel' = Append(Tail(channel), t)
      BY <1>2 DEF WriteAccess, DeleteAccess
    <2>2. TasksFit' /\ ChannelFits' /\ channel' \in Seq(Tasks) /\ task' \in [Tasks -> TaskType]
      BY <2>1, NextCallFits
    <2>3. /\ task' = [task EXCEPT ![t].step = "refresh"] /\ UNCHANGED <<token, screen, bio, overlap>>
          /\ task[t].kind = kind /\ task[t] # NoTask
      BY <1>2, <2>1 DEF WriteAccess, DeleteAccess, GoOn, Answered, Waiting, NoTask
    <2>4. stored' \in [access : Users \cup {None}, refresh : Users \cup {None}]
      BY <1>2 DEF WriteAccess, DeleteAccess, PhoneTyped, TaskType
    <2>5. PhoneTyped'
      BY <2>2, <2>3, <2>4 DEF PhoneTyped
    <2>6. \A u \in Tasks : /\ task'[u].kind = task[u].kind
                           /\ task[u] = NoTask => task'[u] = NoTask
      BY <2>3 DEF PhoneTyped, TaskType
    <2>7. ScreenFollowsToken' /\ LoadingMeansLogin'
      BY <2>3, <2>6 DEF SessionFits, ScreenFollowsToken, LoadingMeansLogin
    <2> QED BY <2>2, <2>3, <2>5, <2>6, <2>7 DEF SessionFits
  <1>3. CASE WriteRefresh(t)
    <2> DEFINE u == task[t].user
    <2>1. /\ task' = [task EXCEPT ![t] = NoTask] /\ token' = u
          /\ screen' = [auth |-> TRUE, loading |-> FALSE, email |-> u]
          /\ stored' = [stored EXCEPT !.refresh = u] /\ UNCHANGED overlap
          /\ task[t].kind = "login" /\ task[t] # NoTask
      BY <1>3 DEF WriteRefresh, SetScreen, Done, Answered, Waiting, NoTask
    <2>0. (screen.auth /\ bio' = bio) \/ bio' = NoBio
      <3>1. SetScreen([auth |-> TRUE, loading |-> FALSE, email |-> u])
        BY <1>3 DEF WriteRefresh
      <3> HIDE DEF u
      <3> QED BY <3>1 DEF SetScreen, PhoneTyped
    <2>2. TasksFit' /\ ChannelFits' /\ channel' \in Seq(Tasks) /\ task' \in [Tasks -> TaskType]
      BY <1>3, DoneFits DEF WriteRefresh
    <2>3. u \in Users /\ u # None
      BY <2>1, NoneIsNew DEF TasksFit
    <2>4. bio' = NoBio \/ overlap'
      BY <2>0, <2>1 DEF SessionFits
    <2>5. PhoneTyped'
      BY <2>0, <2>1, <2>2, <2>3 DEF PhoneTyped
    <2>6. \A v \in Tasks : task'[v].kind # "restore"
      BY <1>3, <2>1, NoRestoreBehind DEF PhoneTyped, NoTask, WriteRefresh
    <2>7. ScreenFollowsToken' /\ LoadingMeansLogin'
      BY <2>1, <2>3 DEF ScreenFollowsToken, LoadingMeansLogin
    <2>8. ~overlap' => \A v \in Tasks : task'[v].kind # "login"
      BY <2>1 DEF PhoneTyped, SessionFits, NoTask
    <2> QED BY <2>1, <2>2, <2>4, <2>5, <2>6, <2>7, <2>8 DEF SessionFits
  <1>4. CASE DeleteRefresh(t)
    <2>1. /\ task' = [task EXCEPT ![t] = NoTask] /\ token' = None /\ screen' = SignedOut
          /\ stored' = [stored EXCEPT !.refresh = None] /\ UNCHANGED overlap
          /\ task[t].kind = "logout" /\ task[t] # NoTask
          /\ (screen'.auth = screen.auth /\ bio' = bio) \/ bio' = NoBio
      BY <1>4 DEF DeleteRefresh, SetScreen, Done, Answered, Waiting, NoTask
    <2>2. TasksFit' /\ ChannelFits' /\ channel' \in Seq(Tasks) /\ task' \in [Tasks -> TaskType]
      BY <1>4, DoneFits DEF DeleteRefresh
    <2>3. bio' = NoBio
      BY <2>1 DEF SessionFits, SignedOut
    <2>4. PhoneTyped'
      BY <2>1, <2>2, <2>3 DEF PhoneTyped, SignedOut
    <2>5. \A v \in Tasks : task'[v].kind # "restore"
      BY <1>4, <2>1, NoRestoreBehind DEF PhoneTyped, NoTask, DeleteRefresh
    <2>6. ScreenFollowsToken' /\ LoadingMeansLogin'
      BY <2>1 DEF ScreenFollowsToken, LoadingMeansLogin, SignedOut
    <2>7. ~overlap' => \A v \in Tasks : task'[v].kind # "login"
      BY <2>1 DEF PhoneTyped, SessionFits, NoTask
    <2> QED BY <2>2, <2>3, <2>4, <2>5, <2>6, <2>7 DEF SessionFits
  <1> QED BY <1>1, <1>2, <1>3, <1>4 DEF Storage

LEMMA LogoutKeepsPhone ==
  ASSUME PhoneInv, NEW t \in Tasks, Logout(t) PROVE PhoneInv'
  <1> USE DEF PhoneInv
  <1>1. /\ task' = [task EXCEPT ![t] = Calling("logout")] /\ channel' = Append(channel, t)
        /\ screen.auth /\ task[t] = NoTask /\ UNCHANGED <<stored, token, screen, overlap, bio>>
    BY DEF Logout
  <1>2. /\ channel' \in Seq(Tasks) /\ Len(channel') = Len(channel) + 1 /\ channel'[Len(channel')] = t
        /\ \A i \in 1 .. Len(channel) : channel'[i] = channel[i] /\ channel[i] \in Tasks
        /\ Len(channel) \in Nat
    BY <1>1 DEF PhoneTyped
  <1>3. \A i \in 1 .. Len(channel) : channel[i] # t
    BY <1>1 DEF PhoneTyped, ChannelFits, NoTask
  <1>4. PhoneTyped'
    BY <1>1, <1>2, TasksTyped DEF PhoneTyped
  <1>5. \A u \in Tasks : task'[u].kind # "restore"
    BY <1>1 DEF PhoneTyped, SessionFits, Calling
  <1>6. TasksFit' /\ ChannelFits'
    BY <1>1, <1>2, <1>3, <1>5 DEF PhoneTyped, TasksFit, ChannelFits, Calling
  <1>7. \A u \in Tasks : task'[u].kind = "login" <=> task[u].kind = "login"
    BY <1>1 DEF PhoneTyped, Calling, NoTask
  <1>8. SessionFits'
    BY <1>1, <1>5, <1>7 DEF SessionFits, ScreenFollowsToken, LoadingMeansLogin
  <1> QED BY <1>4, <1>6, <1>8

LEMMA RestartKeepsPhone ==
  ASSUME PhoneInv, NEW t \in Tasks, Restart(t) PROVE PhoneInv'
  <1>1. /\ task' = [u \in Tasks |-> IF u = t THEN Calling("restore")
                                   ELSE NoTask]
        /\ channel' = <<t>> /\ token' = None /\ screen' = SignedOut /\ bio' = NoBio
        /\ UNCHANGED <<stored, overlap>>
    BY DEF Restart
  <1>2. PhoneTyped'
    <2>1. task' \in [Tasks -> TaskType] /\ channel' \in Seq(Tasks)
      BY <1>1, TasksTyped
    <2> QED BY <1>1, <2>1 DEF PhoneInv, PhoneTyped, SignedOut
  <1>3. TasksFit' /\ ChannelFits'
    BY <1>1 DEF TasksFit, ChannelFits, NoTask, Calling
  <1>4. SessionFits'
    BY <1>1, NoneIsNew DEF SessionFits, ScreenFollowsToken, LoadingMeansLogin, SignedOut, NoTask, Calling, NoBio
  <1> QED BY <1>2, <1>3, <1>4 DEF PhoneInv

(* ------------------------------ the storage ---------------------------- *)

\* What a login or a logout leaves in the storage, and in the ApiClient.
Effect(t) == IF task[t].kind = "login" THEN task[t].user ELSE None
InRefresh(i) == task[channel[i]].step = "refresh"

\* The storage's access token is that of the last task that has written it, and
\* the session's once no task is between its two writes.
StorageFits ==
    /\ restarts \in Nat
    /\ restarts = 0 => stored.refresh = token
    /\ restarts = 0 => \A t \in Tasks : task[t].kind = "restore" => stored.access = None
    /\ \A i \in 1 .. Len(channel) :
          InRefresh(i) /\ (\A j \in 1 .. Len(channel) : InRefresh(j) => j <= i)
              => stored.access = Effect(channel[i])
    /\ (\A i \in 1 .. Len(channel) : ~InRefresh(i)) /\ (\A t \in Tasks : task[t].kind # "restore")
          => stored.access = token

LEMMA StorageInit == Init => StorageFits
  BY NoneIsNew DEF Init, StorageFits, InRefresh, NoTask, Calling

\* A task outside the storage begins, goes on or calls the storage.
LEMMA OutsideKeepsStorage ==
  ASSUME PhoneInv, StorageFits, UNCHANGED <<stored, token, restarts>>, NEW t \in Tasks,
         \A i \in 1 .. Len(channel) : channel[i] # t,
         \A u \in Tasks \ {t} : task'[u] = task[u],
         task[t].kind # "restore", task'[t].kind # "restore", task'[t].step # "refresh",
         channel' = channel \/ channel' = Append(channel, t)
  PROVE  StorageFits'
  <1>1. /\ Len(channel) \in Nat /\ Len(channel') \in Nat /\ Len(channel) <= Len(channel')
        /\ \A i \in 1 .. Len(channel) : channel'[i] = channel[i] /\ channel[i] \in Tasks
        /\ \A i \in 1 .. Len(channel') : i \in 1 .. Len(channel) \/ channel'[i] = t
    BY DEF PhoneInv, PhoneTyped
  <1>2. \A i \in 1 .. Len(channel) : (InRefresh(i))' = InRefresh(i) /\ (Effect(channel[i]))' = Effect(channel[i])
    BY <1>1 DEF InRefresh, Effect
  <1>3. \A i \in 1 .. Len(channel') : (InRefresh(i))' => i \in 1 .. Len(channel) /\ InRefresh(i)
    BY <1>1, <1>2 DEF InRefresh
  <1>4. \A u \in Tasks : task'[u].kind = "restore" <=> task[u].kind = "restore"
    OBVIOUS
  <1>5. ASSUME NEW i \in 1 .. Len(channel'), (InRefresh(i))',
               \A j \in 1 .. Len(channel') : (InRefresh(j))' => j <= i
        PROVE  stored'.access = (Effect(channel[i]))'
    <2>1. i \in 1 .. Len(channel) /\ InRefresh(i)
      BY <1>3, <1>5
    <2>2. \A j \in 1 .. Len(channel) : InRefresh(j) => j <= i
      BY <1>1, <1>2, <1>5
    <2> QED BY <1>1, <1>2, <2>1, <2>2 DEF StorageFits
  <1>6. ASSUME \A i \in 1 .. Len(channel') : ~(InRefresh(i))', \A u \in Tasks : task'[u].kind # "restore"
        PROVE  stored'.access = token'
    <2>1. \A i \in 1 .. Len(channel) : ~InRefresh(i)
      BY <1>1, <1>2, <1>6
    <2> QED BY <1>4, <1>6, <2>1 DEF StorageFits
  <1> QED BY <1>4, <1>5, <1>6 DEF StorageFits

\* The head's last answer: the tasks behind it keep their places.
LEMMA DoneKeepsStorage ==
  ASSUME PhoneInv, StorageFits, NEW t \in Tasks, NEW kind, NEW step, Answered(t, kind, step),
         channel' = Tail(channel), Done(t), UNCHANGED restarts,
         restarts = 0 => stored'.refresh = token',
         \/ InRefresh(1) /\ stored'.access = stored.access /\ token' = Effect(t)
         \/ (\A i \in 1 .. Len(channel) : ~InRefresh(i)) /\ stored'.access = token'
  PROVE  StorageFits'
  <1>1. /\ task' = [task EXCEPT ![t] = NoTask] /\ Len(channel') = Len(channel) - 1
        /\ Len(channel) \in Nat /\ Len(channel) >= 1 /\ channel[1] = t
        /\ \A i \in 1 .. Len(channel') : channel'[i] = channel[i + 1] /\ channel'[i] \in Tasks
                                         /\ i + 1 \in 1 .. Len(channel)
    BY HeadOfChannel DEF PhoneInv, PhoneTyped, Done
  <1>2. \A i \in 1 .. Len(channel') : channel'[i] # t
    BY <1>1 DEF PhoneInv, ChannelFits
  <1>3. \A i \in 1 .. Len(channel') : task'[channel'[i]] = task[channel[i + 1]]
    BY <1>1, <1>2 DEF PhoneInv, PhoneTyped
  <1>4. \A i \in 1 .. Len(channel') : /\ (InRefresh(i))' = InRefresh(i + 1)
                                      /\ (Effect(channel[i]))' = Effect(channel[i + 1])
    BY <1>1, <1>3 DEF InRefresh, Effect
  <1>5. \A u \in Tasks : task'[u].kind # "restore"
    BY <1>1, NoRestoreBehind DEF PhoneInv, PhoneTyped, NoTask
  <1>6. \A i \in 1 .. Len(channel) : i = 1 \/ (i - 1 \in 1 .. Len(channel') /\ (i - 1) + 1 = i)
    BY <1>1
  <1>7. ASSUME NEW i \in 1 .. Len(channel'), (InRefresh(i))',
               \A j \in 1 .. Len(channel') : (InRefresh(j))' => j <= i
        PROVE  stored'.access = (Effect(channel[i]))'
    <2>1. i + 1 \in 1 .. Len(channel) /\ InRefresh(i + 1)
      BY <1>1, <1>4, <1>7
    <2>2. ASSUME NEW j \in 1 .. Len(channel), InRefresh(j) PROVE j <= i + 1
      <3>1. j = 1 \/ (j - 1 \in 1 .. Len(channel') /\ (InRefresh(j - 1))')
        BY <1>4, <1>6, <2>2
      <3>2. j = 1 \/ j - 1 <= i
        BY <1>7, <3>1
      <3> QED BY <1>1, <3>2
    <2>3. stored'.access = stored.access
      BY <2>1
    <2>4. stored.access = Effect(channel[i + 1])
      BY <2>1, <2>2 DEF StorageFits
    <2> QED BY <1>4, <2>3, <2>4
  <1>8. ASSUME \A i \in 1 .. Len(channel') : ~(InRefresh(i))' PROVE stored'.access = token'
    <2>1. \A i \in 1 .. Len(channel) : InRefresh(i) => i = 1
      BY <1>1, <1>4, <1>6, <1>8
    <2>2. InRefresh(1) => stored.access = Effect(channel[1])
      BY <1>1, <2>1 DEF StorageFits
    <2>3. 1 \in 1 .. Len(channel)
      BY <1>1
    <2> QED BY <1>1, <2>2, <2>3
  <1> QED BY <1>5, <1>7, <1>8 DEF StorageFits

\* The head's first of two answers: it is now the last that has written.
LEMMA NextCallKeepsStorage ==
  ASSUME PhoneInv, StorageFits, NEW t \in Tasks, NEW kind \in {"login", "logout"},
         Answered(t, kind, "access"), channel' = Append(Tail(channel), t), GoOn(t, "refresh"),
         UNCHANGED <<token, restarts>>, stored' = [stored EXCEPT !.access = Effect(t)]
  PROVE  StorageFits'
  <1>0. /\ Tail(channel) \in Seq(Tasks) /\ Len(Tail(channel)) = Len(channel) - 1
        /\ Len(channel) \in Nat /\ Len(channel) >= 1 /\ channel[1] = t /\ task[t].kind = kind
    BY HeadOfChannel DEF PhoneInv
  <1>1. /\ task' = [task EXCEPT ![t].step = "refresh"] /\ task \in [Tasks -> TaskType]
        /\ Len(channel') = Len(channel) /\ channel'[Len(channel)] = t
    BY <1>0 DEF PhoneInv, PhoneTyped, GoOn
  <1>2. \A u \in Tasks : task'[u].kind = task[u].kind /\ task'[u].user = task[u].user
    BY <1>1 DEF TaskType
  <1>3. (InRefresh(Len(channel)))' /\ (Effect(channel[Len(channel)]))' = Effect(t)
    <2>1. task'[t].step = "refresh"
      BY <1>1 DEF TaskType
    <2> QED BY <1>1, <1>2, <2>1 DEF InRefresh, Effect
  <1>4. \A u \in Tasks : task'[u].kind # "restore"
    BY <1>0, <1>2, NoRestoreBehind
  <1>5. stored'.access = Effect(t) /\ stored'.refresh = stored.refresh
    BY DEF PhoneInv, PhoneTyped
  <1>6. Len(channel) \in 1 .. Len(channel')
    BY <1>0, <1>1
  <1>7. ASSUME NEW i \in 1 .. Len(channel'),
               \A j \in 1 .. Len(channel') : (InRefresh(j))' => j <= i
        PROVE  stored'.access = (Effect(channel[i]))'
    <2>1. i = Len(channel)
      BY <1>0, <1>1, <1>3, <1>6, <1>7
    <2> QED BY <1>1, <1>3, <1>5, <2>1
  <1> QED BY <1>1, <1>3, <1>4, <1>5, <1>6, <1>7 DEF StorageFits

LEMMA StorageKeepsStorage ==
  ASSUME PhoneInv, StorageFits, NEW t \in Tasks, Storage(t) PROVE StorageFits'
  <1>1. CASE RestoreSession(t)
    <2>1. /\ Answered(t, "restore", "access") /\ channel' = Tail(channel) /\ Done(t)
          /\ token' = stored.access /\ UNCHANGED <<stored, restarts>> /\ task[t].kind = "restore"
      BY <1>1 DEF RestoreSession, Answered, Waiting
    <2>2. \A i \in 1 .. Len(channel) : ~InRefresh(i)
      BY <2>1 DEF PhoneInv, ChannelFits, InRefresh
    <2>3. restarts = 0 => stored.refresh = stored.access
      BY <2>1 DEF PhoneInv, SessionFits, ScreenFollowsToken, StorageFits
    <2> QED BY <2>1, <2>2, <2>3, DoneKeepsStorage
  <1>2. CASE WriteAccess(t)
    BY <1>2, NextCallKeepsStorage DEF WriteAccess, Effect, Answered, Waiting
  <1>3. CASE DeleteAccess(t)
    BY <1>3, NextCallKeepsStorage DEF DeleteAccess, Effect, Answered, Waiting
  <1>4. CASE WriteRefresh(t)
    <2>1. /\ Answered(t, "login", "refresh") /\ channel' = Tail(channel) /\ Done(t) /\ UNCHANGED restarts
          /\ token' = task[t].user /\ stored' = [stored EXCEPT !.refresh = task[t].user]
      BY <1>4 DEF WriteRefresh, Answered
    <2>2. InRefresh(1) /\ token' = Effect(t)
      BY <2>1, HeadOfChannel DEF PhoneInv, InRefresh, Effect
    <2>3. stored'.access = stored.access /\ stored'.refresh = token'
      BY <2>1 DEF PhoneInv, PhoneTyped
    <2> QED BY <2>1, <2>2, <2>3, DoneKeepsStorage
  <1>5. CASE DeleteRefresh(t)
    <2>1. /\ Answered(t, "logout", "refresh") /\ channel' = Tail(channel) /\ Done(t) /\ UNCHANGED restarts
          /\ token' = None /\ stored' = [stored EXCEPT !.refresh = None]
      BY <1>5 DEF DeleteRefresh, Answered
    <2>2. InRefresh(1) /\ token' = Effect(t)
      BY <2>1, HeadOfChannel DEF PhoneInv, InRefresh, Effect
    <2>3. stored'.access = stored.access /\ stored'.refresh = token'
      BY <2>1 DEF PhoneInv, PhoneTyped
    <2> QED BY <2>1, <2>2, <2>3, DoneKeepsStorage
  <1> QED BY <1>1, <1>2, <1>3, <1>4, <1>5 DEF Storage

LEMMA StepKeepsStorage ==
  ASSUME PhoneInv, StorageFits, [Next]_vars PROVE StorageFits'
  <1>1. ASSUME UNCHANGED <<session, task, restarts>> PROVE StorageFits'
    BY <1>1 DEF session, StorageFits, InRefresh, Effect
  <1>2. ASSUME NEW q \in Requests,
               Server(q) \/ CrashRequest(q) \/ \E u \in Users : IssueElsewhere(q, u)
        PROVE  UNCHANGED <<session, task, restarts>>
    BY <1>2 DEF Server, CreateUser, CheckBioID, IssueBioID, DropAnswer, CrashRequest, IssueElsewhere, Serve
  <1>3. CASE BioIDProvider \/ Refresh
    <2>1. UNCHANGED <<session, task, restarts>>
      BY <1>3 DEF BioIDProvider, FetchBioID, BioIDFound, IssueInstead, BioIDIssued, IssueFails, Refresh
    <2> QED BY <1>1, <2>1
  <1>4. ASSUME NEW t \in Tasks, NEW u \in Users, Login(t, u) PROVE StorageFits'
    <2>1. /\ task' = [task EXCEPT ![t] = [kind |-> "login", step |-> "login", user |-> u]]
          /\ task[t] = NoTask /\ UNCHANGED <<stored, token, channel, restarts>>
      BY <1>4 DEF Login
    <2>2. \A i \in 1 .. Len(channel) : channel[i] # t
      BY <2>1 DEF PhoneInv, ChannelFits, NoTask
    <2> QED BY <2>1, <2>2, OutsideKeepsStorage DEF PhoneInv, PhoneTyped, NoTask
  <1>5. ASSUME NEW t \in Tasks, Logout(t) PROVE StorageFits'
    <2>1. /\ task' = [task EXCEPT ![t] = Calling("logout")] /\ channel' = Append(channel, t)
          /\ task[t] = NoTask /\ UNCHANGED <<stored, token, restarts>>
      BY <1>5 DEF Logout
    <2>2. \A i \in 1 .. Len(channel) : channel[i] # t
      BY <2>1 DEF PhoneInv, ChannelFits, NoTask
    <2> QED BY <2>1, <2>2, OutsideKeepsStorage DEF PhoneInv, PhoneTyped, NoTask, Calling
  <1>6. ASSUME NEW t \in Tasks, Call(t) PROVE StorageFits'
    <2>1. /\ task[t].kind = "login" /\ task[t].step \in {"login", "register"}
          /\ UNCHANGED <<stored, token, restarts>>
          /\ channel' = channel \/ channel' = Append(channel, t)
          /\ \/ \E s \in {"access", "register"} : task' = [task EXCEPT ![t].step = s]
             \/ task' = [task EXCEPT ![t] = NoTask]
      BY <1>6 DEF Call, LoginAnswered, LoginFails, RegisterAnswered, RegisterFails, Authenticated, GoOn, Done,
         Waiting, session
    <2>2. \A i \in 1 .. Len(channel) : channel[i] # t
      BY <2>1 DEF PhoneInv, ChannelFits
    <2>3. \A u \in Tasks \ {t} : task'[u] = task[u]
      BY <2>1 DEF PhoneInv, PhoneTyped
    <2>4. task'[t].kind # "restore" /\ task'[t].step # "refresh"
      BY <2>1 DEF PhoneInv, PhoneTyped, TaskType, NoTask
    <2> QED BY <2>1, <2>2, <2>3, <2>4, OutsideKeepsStorage
  <1>7. ASSUME NEW t \in Tasks, Restart(t) PROVE StorageFits'
    <2>1. /\ task' = [u \in Tasks |-> IF u = t THEN Calling("restore")
                                     ELSE NoTask]
          /\ channel' = <<t>> /\ restarts' = restarts + 1 /\ UNCHANGED stored
      BY <1>7 DEF Restart
    <2>2. \A i \in 1 .. Len(channel') : ~(InRefresh(i))'
      BY <2>1 DEF InRefresh, Calling
    <2>3. task'[t].kind = "restore" /\ restarts' \in Nat /\ restarts' # 0
      BY <2>1 DEF StorageFits, Calling
    <2> QED BY <2>2, <2>3 DEF StorageFits
  <1>8. CASE UNCHANGED vars
    BY <1>1, <1>8 DEF vars
  <1> QED BY <1>1, <1>2, <1>3, <1>4, <1>5, <1>6, <1>7, <1>8, StorageKeepsStorage DEF Next

(* ------------------------ the requests' invariant ---------------------- *)

LEMMA RequestInit == Init => RequestInv
  <1> SUFFICES ASSUME Init PROVE RequestInv
    OBVIOUS
  <1>1. RequestsFit
    BY DEF Init, RequestsFit, RequestType, NoRequest, Steps
  <1>2. WaitersFit
    BY NoneIsNew DEF Init, WaitersFit, NoRequest, NoBio
  <1>3. UsersFit
    BY DEF Init, UsersFit, FetchRepairs, NoTask, Calling, NoBio
  <1> QED BY <1>1, <1>2, <1>3 DEF RequestInv

\* What is abandoned goes on at the server; only its waiter is gone.
LEMMA AbandonFits ==
  ASSUME RequestsFit, NEW by, request' = Abandon(by), UNCHANGED <<account, bioID>>,
         trouble' \in BOOLEAN, trouble => trouble'
  PROVE  /\ RequestsFit'
         /\ \A q \in Requests :
               /\ request'[q].kind = request[q].kind /\ request'[q].step = request[q].step
               /\ request'[q].user = request[q].user
               /\ request'[q].by = IF request[q].by \in by THEN None ELSE request[q].by
  <1>1. \A q \in Requests : /\ request'[q] \in RequestType
                            /\ request'[q].kind = request[q].kind /\ request'[q].step = request[q].step
                            /\ request'[q].user = request[q].user
                            /\ request'[q].by = IF request[q].by \in by THEN None ELSE request[q].by
    BY DEF RequestsFit, RequestType, Abandon
  <1>2. request' \in [Requests -> RequestType]
    BY <1>1 DEF Abandon
  <1> QED BY <1>1, <1>2 DEF RequestsFit

\* A new request, for a user who may be asked about.
LEMMA SendFits ==
  ASSUME RequestsFit, NEW q \in Requests, NEW kind \in {"register", "issue"},
         NEW step \in {"create", "check"}, NEW u \in Users, NEW by \in Tasks \cup {"bio", None},
         Send(q, kind, step, u, by), UNCHANGED <<account, bioID, trouble>>,
         step = "check" => u \in account, kind = "issue" => step = "check"
  PROVE  /\ RequestsFit' /\ request[q] = NoRequest
         /\ request'[q] = [kind |-> kind, step |-> step, user |-> u, by |-> by]
         /\ \A r \in Requests \ {q} : request'[r] = request[r]
  <1> DEFINE j == [kind |-> kind, step |-> step, user |-> u, by |-> by]
  <1>1. j \in RequestType
    BY DEF RequestType, Steps
  <1>2. /\ j.step \in {"create", "check"} /\ j.user = u
        /\ (j.step = "check" => u \in account) /\ (j.kind = "issue" => j.step = "check")
    OBVIOUS
  <1> HIDE DEF j
  <1>3. request[q] = NoRequest /\ request' = [request EXCEPT ![q] = j]
    BY DEF Send, j
  <1>4. request' \in [Requests -> RequestType] /\ request'[q] = j
        /\ \A r \in Requests \ {q} : request'[r] = request[r]
    BY <1>1, <1>3 DEF RequestsFit
  <1>5. RequestsFit'
    BY <1>2, <1>4 DEF RequestsFit
  <1> QED BY <1>3, <1>4, <1>5 DEF j

\* A request that is answered, or dropped, leaves its slot.
LEMMA ClearFits ==
  ASSUME RequestsFit, NEW q \in Requests, request' = [request EXCEPT ![q] = NoRequest],
         UNCHANGED <<account, bioID, trouble>>
  PROVE  RequestsFit' /\ request'[q] = NoRequest /\ \A r \in Requests \ {q} : request'[r] = request[r]
  <1>1. NoRequest \in RequestType
    BY DEF NoRequest, RequestType, Steps
  <1>2. /\ request' \in [Requests -> RequestType] /\ request'[q] = NoRequest
        /\ \A r \in Requests \ {q} : request'[r] = request[r]
    BY <1>1 DEF RequestsFit
  <1>3. RequestsFit'
    BY <1>2 DEF RequestsFit, NoRequest
  <1> QED BY <1>2, <1>3

\* What the server does to a request, between two of its commits.
LEMMA ServeFits ==
  ASSUME RequestInv, NEW q \in Requests, Server(q) \/ CrashRequest(q), ~DropAnswer(q)
  PROVE  /\ RequestsFit' /\ account \subseteq account' /\ bioID \subseteq bioID'
         /\ trouble => trouble'
         /\ UNCHANGED <<session, task, bio, restarts>>
         /\ \A r \in Requests : /\ request'[r].by = request[r].by /\ request'[r].user = request[r].user
                                /\ request'[r].kind = request[r].kind
  <1>1. PICK step \in Steps : /\ request' = [request EXCEPT ![q].step = step]
                              /\ UNCHANGED <<session, task, bio, restarts>>
                              /\ request[q].step \in {"create", "check", "insert"}
                              /\ step # "none"
    BY DEF Server, CreateUser, CheckBioID, IssueBioID, CrashRequest, Serve, Steps, Ended
  <1>2. /\ request' \in [Requests -> RequestType] /\ request'[q].step = step
        /\ \A r \in Requests : /\ request'[r].by = request[r].by /\ request'[r].user = request[r].user
                               /\ request'[r].kind = request[r].kind
                               /\ r # q => request'[r] = request[r]
    BY <1>1 DEF RequestInv, RequestsFit, RequestType
  <1>3. request[q].user \in Users
    BY <1>1 DEF RequestInv, RequestsFit
  <1>4. CASE CreateUser(q)
    <2>1. /\ account' = account \cup {request[q].user} /\ UNCHANGED <<bioID, trouble>>
          /\ request[q].step = "create" /\ step \in {"refused", "insert"}
      BY <1>1, <1>2, <1>4 DEF CreateUser, Serve, RequestInv, RequestsFit, RequestType
    <2>2. step = "insert" => request[q].user \in account'
      BY <2>1
    <2>3. RequestsFit'
      BY <1>2, <1>3, <2>1 DEF RequestInv, RequestsFit
    <2> QED BY <1>1, <1>2, <2>1, <2>3
  <1>5. CASE CheckBioID(q)
    <2>1. /\ UNCHANGED <<account, bioID, trouble>> /\ request[q].step = "check"
          /\ step = IF request[q].user \in bioID THEN "ok" ELSE "insert"
      BY <1>1, <1>2, <1>5 DEF CheckBioID, Serve, RequestInv, RequestsFit, RequestType
    <2>2. RequestsFit'
      BY <1>2, <1>3, <2>1 DEF RequestInv, RequestsFit
    <2> QED BY <1>1, <1>2, <2>1, <2>2
  <1>6. CASE IssueBioID(q)
    <2>1. /\ bioID' = bioID \cup {request[q].user} /\ UNCHANGED <<account, trouble>>
          /\ request[q].step = "insert" /\ step \in {"conflict", "ok"}
      BY <1>1, <1>2, <1>6 DEF IssueBioID, Serve, RequestInv, RequestsFit, RequestType
    <2>2. RequestsFit'
      BY <1>2, <1>3, <2>1 DEF RequestInv, RequestsFit
    <2> QED BY <1>1, <1>2, <2>1, <2>2
  <1>7. CASE CrashRequest(q)
    <2>1. /\ UNCHANGED <<account, bioID>> /\ trouble' = TRUE /\ step = "failed"
      BY <1>1, <1>2, <1>7 DEF CrashRequest, Serve, RequestInv, RequestsFit, RequestType
    <2>2. RequestsFit'
      BY <1>2, <1>3, <2>1 DEF RequestInv, RequestsFit
    <2> QED BY <1>1, <1>2, <2>1, <2>2
  <1> QED BY <1>4, <1>5, <1>6, <1>7 DEF Server

LEMMA ServerKeepsRequests ==
  ASSUME PhoneInv, RequestInv, NEW q \in Requests,
         Server(q) \/ CrashRequest(q) \/ \E u \in Users : IssueElsewhere(q, u)
  PROVE  RequestInv'
  <1>1. CASE DropAnswer(q)
    <2>1. /\ request[q].by = None /\ request' = [request EXCEPT ![q] = NoRequest]
          /\ UNCHANGED <<account, bioID, trouble, session, task, bio>>
      BY <1>1 DEF DropAnswer
    <2>2. RequestsFit' /\ request'[q] = NoRequest /\ \A r \in Requests \ {q} : request'[r] = request[r]
      BY <2>1, ClearFits DEF RequestInv
    <2>3. WaitersFit'
      BY <2>1, <2>2, NoneIsNew DEF RequestInv, WaitersFit, NoRequest
    <2>4. UsersFit'
      BY <2>1 DEF RequestInv, UsersFit, FetchRepairs, session
    <2> QED BY <2>2, <2>3, <2>4 DEF RequestInv
  <1>2. ASSUME NEW u \in Users, IssueElsewhere(q, u) PROVE RequestInv'
    <2>1. /\ u \in account /\ Send(q, "issue", "check", u, None)
          /\ UNCHANGED <<account, bioID, trouble, session, task, bio>>
      BY <1>2 DEF IssueElsewhere
    <2>2. /\ RequestsFit' /\ request[q] = NoRequest
          /\ request'[q] = [kind |-> "issue", step |-> "check", user |-> u, by |-> None]
          /\ \A r \in Requests \ {q} : request'[r] = request[r]
      BY <2>1, SendFits DEF RequestInv
    <2>3. WaitersFit'
      BY <2>1, <2>2, NoneIsNew DEF RequestInv, WaitersFit, NoRequest
    <2>4. UsersFit'
      BY <2>1 DEF RequestInv, UsersFit, FetchRepairs, session
    <2> QED BY <2>2, <2>3, <2>4 DEF RequestInv
  <1>3. CASE (Server(q) \/ CrashRequest(q)) /\ ~DropAnswer(q)
    <2>1. /\ RequestsFit' /\ account \subseteq account' /\ bioID \subseteq bioID'
          /\ trouble => trouble'
          /\ UNCHANGED <<session, task, bio, restarts>>
          /\ \A r \in Requests : /\ request'[r].by = request[r].by /\ request'[r].user = request[r].user
                                 /\ request'[r].kind = request[r].kind
      BY <1>3, ServeFits
    <2>2. WaitersFit'
      BY <2>1 DEF RequestInv, WaitersFit
    <2>3. UsersFit'
      BY <2>1 DEF RequestInv, RequestsFit, UsersFit, FetchRepairs, session
    <2> QED BY <2>1, <2>2, <2>3 DEF RequestInv
  <1> QED BY <1>1, <1>2, <1>3

LEMMA ProviderKeepsRequests ==
  ASSUME PhoneInv, RequestInv, BioIDProvider \/ Refresh PROVE RequestInv'
  <1>1. UNCHANGED <<account, bioID, session, task>>
    BY DEF BioIDProvider, FetchBioID, BioIDFound, IssueInstead, BioIDIssued, IssueFails, Refresh, server
  <1>2. screen.auth => token \in Users /\ token \in account
    BY DEF PhoneInv, PhoneTyped, SessionFits, ScreenFollowsToken, RequestInv, UsersFit
  <1>3. bio # NoBio => screen.auth /\ bio \in [step : {"get", "post", "data", "error"}, user : Users]
    BY DEF PhoneInv, PhoneTyped, SessionFits
  <1>4. CASE FetchBioID \/ BioIDFound
    <2>1. /\ UNCHANGED <<request, trouble>> /\ bio.step # "post" /\ bio'.step \in {"get", "data"}
          /\ bio'.step = "data" => bio'.user \in bioID
      BY <1>4 DEF FetchBioID, BioIDFound, server, NoBio, Loaded
    <2>2. RequestsFit' /\ WaitersFit'
      BY <1>1, <2>1 DEF RequestInv, RequestsFit, WaitersFit
    <2>3. UsersFit'
      BY <1>1, <2>1 DEF RequestInv, UsersFit, FetchRepairs, session
    <2> QED BY <2>2, <2>3 DEF RequestInv
  <1>5. CASE IssueInstead
    <2>1. /\ bio.step = "get" /\ bio' = [step |-> "post", user |-> token] /\ trouble' = trouble
      BY <1>5 DEF IssueInstead
    <2>2. PICK q \in Requests : Send(q, "issue", "check", token, "bio")
      BY <1>5 DEF IssueInstead
    <2>3. token \in Users /\ token \in account
      BY <1>2, <1>3, <2>1 DEF NoBio
    <2>4. /\ RequestsFit' /\ request[q] = NoRequest
          /\ request'[q] = [kind |-> "issue", step |-> "check", user |-> token, by |-> "bio"]
          /\ \A r \in Requests \ {q} : request'[r] = request[r]
      BY <1>1, <2>1, <2>2, <2>3, SendFits DEF RequestInv
    <2>5. \A r \in Requests \ {q} : request[r].by # "bio"
      BY <2>1 DEF RequestInv, WaitersFit
    <2>6. WaitersFit'
      BY <1>1, <2>1, <2>4, <2>5, BioIsNoTask DEF RequestInv, WaitersFit
    <2>7. UsersFit'
      BY <1>1, <2>1 DEF RequestInv, UsersFit, FetchRepairs, session
    <2> QED BY <2>4, <2>6, <2>7 DEF RequestInv
  <1>6. CASE BioIDIssued
    <2>1. PICK q \in Requests : /\ request[q].by = "bio" /\ request[q].step = "ok"
                                /\ request' = [request EXCEPT ![q] = NoRequest]
      BY <1>6 DEF BioIDIssued
    <2>2. bio' = Loaded(bio.user) /\ trouble' = trouble /\ bio.user \in bioID
      BY <1>6, <2>1 DEF BioIDIssued, RequestInv, WaitersFit, RequestsFit
    <2>3. RequestsFit' /\ request'[q] = NoRequest /\ \A r \in Requests \ {q} : request'[r] = request[r]
      BY <1>1, <2>1, <2>2, ClearFits DEF RequestInv
    <2>4. \A r \in Requests \ {q} : request[r].by # "bio"
      BY <2>1, NoneIsNew DEF RequestInv, WaitersFit
    <2>5. WaitersFit'
      BY <1>1, <2>2, <2>3, <2>4, NoneIsNew DEF RequestInv, WaitersFit, NoRequest, Loaded
    <2>6. UsersFit'
      BY <1>1, <2>2 DEF RequestInv, UsersFit, FetchRepairs, session, Loaded
    <2> QED BY <2>3, <2>5, <2>6 DEF RequestInv
  <1>7. CASE IssueFails \/ Refresh
    <2>1. /\ request' = Abandon({"bio"}) /\ (trouble => trouble') /\ trouble' \in BOOLEAN
          /\ bio # NoBio /\ (bio' = NoBio \/ bio' = [bio EXCEPT !.step = "error"])
      <3>1. trouble \in BOOLEAN
        BY DEF RequestInv, RequestsFit
      <3>2. CASE Refresh
        BY <3>1, <3>2 DEF Refresh
      <3>3. CASE IssueFails
        <4>1. trouble' \in BOOLEAN /\ (trouble => trouble')
          BY <3>1, <3>3 DEF IssueFails
        <4>2. bio # NoBio
          BY <3>3 DEF IssueFails, NoBio
        <4>3. request' = Abandon({"bio"}) /\ bio' = [bio EXCEPT !.step = "error"]
          BY <3>3 DEF IssueFails
        <4> QED BY <4>1, <4>2, <4>3
      <3> QED BY <1>7, <3>2, <3>3
    <2>2. /\ RequestsFit'
          /\ \A q \in Requests :
                /\ request'[q].kind = request[q].kind /\ request'[q].step = request[q].step
                /\ request'[q].user = request[q].user
                /\ request'[q].by = IF request[q].by \in {"bio"} THEN None ELSE request[q].by
      BY <1>1, <2>1, AbandonFits DEF RequestInv
    <2>3. bio'.step \notin {"post", "data"}
      BY <1>3, <2>1 DEF NoBio
    <2>4. WaitersFit'
      BY <1>1, <2>2, <2>3, NoneIsNew DEF RequestInv, WaitersFit
    <2>5. bio'.step = "error" /\ ~trouble' => bio'.user \in bioID
      <3>1. SUFFICES ASSUME IssueFails, ~trouble' PROVE bio'.user \in bioID
        BY <1>7, <2>1 DEF Refresh, NoBio
      <3>2. bio.step = "post" /\ bio'.user = bio.user
        BY <1>3, <2>1, <3>1 DEF IssueFails, NoBio
      <3>3. PICK q \in Requests : request[q].by = "bio"
        BY <3>2 DEF RequestInv, WaitersFit
      <3>4. request[q].step \in Ended /\ ~trouble
        BY <2>1, <3>1, <3>3 DEF IssueFails
      <3>5. request[q].kind = "issue" /\ request[q].user = bio.user
        BY <3>3 DEF RequestInv, WaitersFit
      <3>6. request[q].step \in {"ok", "conflict"}
        BY <3>4, <3>5 DEF RequestInv, RequestsFit, Ended
      <3> QED BY <3>2, <3>5, <3>6 DEF RequestInv, RequestsFit
    <2>6. UsersFit'
      BY <1>1, <2>3, <2>5 DEF RequestInv, UsersFit, FetchRepairs, session
    <2> QED BY <2>2, <2>4, <2>6 DEF RequestInv
  <1> QED BY <1>4, <1>5, <1>6, <1>7 DEF BioIDProvider

\* The login's own requests: one of a task at its register step.
LEMMA CallKeepsRequests ==
  ASSUME PhoneInv, RequestInv, NEW t \in Tasks, Call(t) PROVE RequestInv'
  <1> DEFINE LoginsFit == \A u \in Tasks : task[u].kind = "login" /\ task[u].step \in {"access", "refresh"}
                             => task[u].user \in account
  <1>1. /\ UNCHANGED <<account, bioID, trouble, bio, token, stored>>
        /\ task[t].kind = "login" /\ task[t].user \in Users /\ t # "bio" /\ t # None
    BY NoneIsNew, BioIsNoTask DEF Call, LoginAnswered, LoginFails, RegisterAnswered, RegisterFails, server,
       session, Waiting, PhoneInv, TasksFit
  <1>2. ASSUME LoginsFit' PROVE UsersFit'
    BY <1>1, <1>2 DEF RequestInv, UsersFit, FetchRepairs
  <1>3. LoginsFit
    BY DEF RequestInv, UsersFit
  <1>4. ASSUME NEW s \in {"access", "register"}, GoOn(t, s), s = "access" => task[t].user \in account
        PROVE  /\ UsersFit' /\ task'[t].step = s /\ task'[t].user = task[t].user
               /\ \A u \in Tasks \ {t} : task'[u] = task[u]
    <2>1. /\ task'[t].step = s /\ task'[t].user = task[t].user
          /\ \A u \in Tasks \ {t} : task'[u] = task[u]
      BY <1>4 DEF GoOn, PhoneInv, PhoneTyped, TaskType
    <2>2. LoginsFit'
      BY <1>1, <1>3, <1>4, <2>1
    <2> QED BY <1>2, <2>1, <2>2
  <1>5. CASE LoginAnswered(t)
    <2>1. /\ request' = request /\ task[t].step = "login" /\ GoOn(t, "access") /\ task[t].user \in account
      BY <1>5 DEF LoginAnswered, Authenticated, Waiting, server
    <2>2. RequestsFit'
      BY <1>1, <2>1 DEF RequestInv, RequestsFit
    <2>3. WaitersFit'
      BY <1>1, <1>4, <2>1 DEF RequestInv, WaitersFit
    <2> QED BY <1>4, <2>1, <2>2, <2>3 DEF RequestInv
  <1>6. CASE LoginFails(t)
    <2>1. task[t].step = "login" /\ GoOn(t, "register")
      BY <1>6 DEF LoginFails, Waiting
    <2>2. PICK q \in Requests : Send(q, "register", "create", task[t].user, t)
      BY <1>6 DEF LoginFails
    <2>3. /\ RequestsFit' /\ request[q] = NoRequest
          /\ request'[q] = [kind |-> "register", step |-> "create", user |-> task[t].user, by |-> t]
          /\ \A r \in Requests \ {q} : request'[r] = request[r]
      BY <1>1, <2>2, SendFits DEF RequestInv
    <2>4. \A r \in Requests : request[r].by # t
      BY <2>1 DEF RequestInv, WaitersFit
    <2>5. WaitersFit'
      <3>1. task'[t].step = "register" /\ task'[t].user = task[t].user /\ \A u \in Tasks \ {t} : task'[u] = task[u]
        BY <1>4, <2>1
      <3>2. bio'.step = "post" => \E r \in Requests \ {q} : request'[r].by = "bio"
        BY <1>1, <2>3, NoneIsNew DEF RequestInv, WaitersFit, NoRequest
      <3>3. \A r \in Requests \ {q} : request'[r].by # t
        BY <2>3, <2>4
      <3>4. \A r \in Requests \ {q} :
              /\ request'[r].by = "bio" =>
                    request'[r].kind = "issue" /\ bio'.step = "post" /\ request'[r].user = bio'.user
              /\ request'[r].by \in Tasks =>
                    task'[request'[r].by].step = "register" /\ request'[r].user = task'[request'[r].by].user
        BY <1>1, <2>3, <3>1, <3>3 DEF RequestInv, WaitersFit
      <3>5. \A r, s \in Requests \ {q} : request'[r].by = request'[s].by /\ request'[r].by # None => r = s
        BY <2>3 DEF RequestInv, WaitersFit
      <3> QED BY <1>1, <2>3, <3>1, <3>2, <3>3, <3>4, <3>5 DEF WaitersFit
    <2> QED BY <1>4, <2>1, <2>3, <2>5 DEF RequestInv
  <1>7. CASE RegisterAnswered(t)
    <2>1. GoOn(t, "access")
      BY <1>7 DEF RegisterAnswered, Authenticated
    <2>2. PICK q \in Requests : /\ request[q].by = t /\ request[q].step = "ok"
                                /\ request' = [request EXCEPT ![q] = NoRequest]
      BY <1>7 DEF RegisterAnswered
    <2>3. task[t].user \in account
      BY <2>2 DEF RequestInv, RequestsFit, WaitersFit
    <2>4. RequestsFit' /\ request'[q] = NoRequest /\ \A r \in Requests \ {q} : request'[r] = request[r]
      BY <1>1, <2>2, ClearFits DEF RequestInv
    <2>5. \A r \in Requests \ {q} : request[r].by # t
      BY <1>1, <2>2 DEF RequestInv, WaitersFit
    <2>6. WaitersFit'
      <3>1. \A u \in Tasks \ {t} : task'[u] = task[u]
        BY <1>4, <2>1, <2>3
      <3>2. \A r \in Requests : r # q => request'[r] = request[r] /\ request'[r].by # t
        BY <2>4, <2>5
      <3>3. request'[q].by = None /\ None \notin Tasks \cup {"bio"}
        BY <2>4, NoneIsNew DEF NoRequest
      <3>4. bio'.step = "post" => \E r \in Requests : request'[r].by = "bio"
        BY <1>1, <2>2, <3>2 DEF RequestInv, WaitersFit
      <3> QED BY <1>1, <3>1, <3>2, <3>3, <3>4 DEF RequestInv, WaitersFit
    <2> QED BY <1>4, <2>1, <2>3, <2>4, <2>6 DEF RequestInv
  <1>8. CASE RegisterFails(t)
    <2>1. Done(t) /\ request' = Abandon({t})
      BY <1>8 DEF RegisterFails
    <2>2. /\ RequestsFit'
          /\ \A q \in Requests :
                /\ request'[q].kind = request[q].kind /\ request'[q].step = request[q].step
                /\ request'[q].user = request[q].user
                /\ request'[q].by = IF request[q].by \in {t} THEN None ELSE request[q].by
      BY <1>1, <2>1, AbandonFits DEF RequestInv, RequestsFit
    <2>3. task'[t] = NoTask /\ \A u \in Tasks \ {t} : task'[u] = task[u]
      BY <2>1 DEF Done, PhoneInv, PhoneTyped
    <2>4. WaitersFit'
      BY <1>1, <2>2, <2>3, NoneIsNew DEF RequestInv, WaitersFit
    <2>5. LoginsFit'
      BY <1>1, <1>3, <2>3 DEF NoTask
    <2> QED BY <1>2, <2>2, <2>4, <2>5 DEF RequestInv
  <1> QED BY <1>5, <1>6, <1>7, <1>8 DEF Call

\* The steps that send nothing: at most the BioID's provider starts anew, and
\* nobody at its register step moves.
LEMMA QuietKeepsRequests ==
  ASSUME PhoneInv, RequestInv, UNCHANGED <<account, bioID, trouble>>,
         \/ UNCHANGED <<bio, request>>
         \/ bio' = NoBio /\ request' = Abandon({"bio"}),
         \A t \in Tasks : task[t].step = "register" => task'[t] = task[t],
         \A t \in Tasks : task'[t].kind = "login" /\ task'[t].step \in {"access", "refresh"}
             => task'[t].user \in account,
         token' # None => token' \in account,
         stored'.access # None => stored'.access \in account
  PROVE  RequestInv'
  <1>1. RequestsFit'
    <2>1. trouble' \in BOOLEAN /\ (trouble => trouble')
      BY DEF RequestInv, RequestsFit
    <2>2. CASE request' = request
      BY <2>2 DEF RequestInv, RequestsFit
    <2>3. CASE request' = Abandon({"bio"})
      BY <2>1, <2>3, AbandonFits DEF RequestInv
    <2> QED BY <2>2, <2>3
  <1>2. WaitersFit'
    <2>1. CASE UNCHANGED <<bio, request>>
      BY <2>1 DEF RequestInv, WaitersFit
    <2>2. CASE bio' = NoBio /\ request' = Abandon({"bio"})
      <3>1. \A q \in Requests :
                /\ request'[q].user = request[q].user
                /\ request'[q].by = IF request[q].by = "bio" THEN None ELSE request[q].by
        BY <2>2 DEF RequestInv, RequestsFit, RequestType, Abandon
      <3> QED BY <2>2, <3>1, NoneIsNew DEF RequestInv, WaitersFit, NoBio
    <2> QED BY <2>1, <2>2
  <1>3. UsersFit'
    BY DEF RequestInv, UsersFit, FetchRepairs, NoBio
  <1> QED BY <1>1, <1>2, <1>3 DEF RequestInv

LEMMA StorageKeepsRequests ==
  ASSUME PhoneInv, RequestInv, NEW t \in Tasks, Storage(t) PROVE RequestInv'
  <1>1. /\ UNCHANGED <<account, bioID, trouble>> /\ task[t].step \in {"access", "refresh"}
        /\ UNCHANGED <<bio, request>> \/ (bio' = NoBio /\ request' = Abandon({"bio"}))
    BY DEF Storage, RestoreSession, WriteAccess, WriteRefresh, DeleteAccess, DeleteRefresh, Answered, Waiting,
       SetScreen
  <1>2. (GoOn(t, "refresh") /\ task[t].step = "access") \/ Done(t)
    BY DEF Storage, RestoreSession, WriteAccess, WriteRefresh, DeleteAccess, DeleteRefresh, Answered, Waiting
  <1>3. /\ \A u \in Tasks \ {t} : task'[u] = task[u]
        /\ \/ task'[t] = NoTask
           \/ task'[t].kind = task[t].kind /\ task'[t].user = task[t].user /\ task[t].step = "access"
    BY <1>2 DEF GoOn, Done, PhoneInv, PhoneTyped, TaskType
  <1>4. \A u \in Tasks : task[u].step = "register" => task'[u] = task[u]
    BY <1>1, <1>3
  <1>5. \A u \in Tasks : task'[u].kind = "login" /\ task'[u].step \in {"access", "refresh"}
             => task'[u].user \in account
    BY <1>3 DEF RequestInv, UsersFit, NoTask
  <1>6. task[t].kind = "login" => task[t].user \in account
    BY <1>1 DEF RequestInv, UsersFit
  <1>7. /\ token' # None => token' \in account
        /\ stored'.access # None => stored'.access \in account
    <2>1. CASE RestoreSession(t)
      BY <2>1 DEF RestoreSession, RequestInv, UsersFit
    <2>2. CASE WriteAccess(t) \/ DeleteAccess(t)
      BY <1>6, <2>2 DEF WriteAccess, DeleteAccess, Answered, Waiting, RequestInv, UsersFit, PhoneInv, PhoneTyped
    <2>3. CASE WriteRefresh(t)
      BY <1>6, <2>3 DEF WriteRefresh, Answered, Waiting, RequestInv, UsersFit, PhoneInv, PhoneTyped
    <2>4. CASE DeleteRefresh(t)
      BY <2>4 DEF DeleteRefresh, RequestInv, UsersFit, PhoneInv, PhoneTyped
    <2> QED BY <2>1, <2>2, <2>3, <2>4 DEF Storage
  <1> QED BY <1>1, <1>4, <1>5, <1>7, QuietKeepsRequests

LEMMA TapKeepsRequests ==
  ASSUME PhoneInv, RequestInv, NEW t \in Tasks, Logout(t) \/ \E u \in Users : Login(t, u)
  PROVE  RequestInv'
  <1>1. UNCHANGED <<account, bioID, trouble, bio, request, token, stored>> /\ task[t] = NoTask
    BY DEF Logout, Login, server
  <1>2. PICK j : /\ task' = [task EXCEPT ![t] = j]
                 /\ j.kind = "logout" \/ (j.kind = "login" /\ j.step = "login")
    <2>1. CASE Logout(t)
      <3>1. Calling("logout").kind = "logout"
        BY DEF Calling
      <3>2. task' = [task EXCEPT ![t] = Calling("logout")]
        BY <2>1 DEF Logout
      <3> QED BY <3>1, <3>2
    <2>2. ASSUME NEW u \in Users, Login(t, u)
          PROVE  \E j : task' = [task EXCEPT ![t] = j] /\ j.kind = "login" /\ j.step = "login"
      <3> DEFINE k == [kind |-> "login", step |-> "login", user |-> u]
      <3>1. k.kind = "login" /\ k.step = "login"
        OBVIOUS
      <3>2. task' = [task EXCEPT ![t] = k]
        BY <2>2 DEF Login
      <3> HIDE DEF k
      <3> QED BY <3>1, <3>2
    <2> QED BY <2>1, <2>2
  <1>3. task'[t] = j /\ \A u \in Tasks \ {t} : task'[u] = task[u]
    BY <1>2 DEF PhoneInv, PhoneTyped
  <1>4. \A u \in Tasks : task[u].step = "register" => task'[u] = task[u]
    BY <1>1, <1>3 DEF NoTask
  <1>5. \A u \in Tasks : task'[u].kind = "login" /\ task'[u].step \in {"access", "refresh"}
             => task'[u].user \in account
    BY <1>2, <1>3 DEF RequestInv, UsersFit
  <1>6. (token # None => token \in account) /\ (stored.access # None => stored.access \in account)
    BY DEF RequestInv, UsersFit
  <1> QED BY <1>1, <1>4, <1>5, <1>6, QuietKeepsRequests

LEMMA RestartKeepsRequests ==
  ASSUME PhoneInv, RequestInv, NEW t \in Tasks, Restart(t) PROVE RequestInv'
  <1>1. /\ task' = [u \in Tasks |-> IF u = t THEN Calling("restore")
                                   ELSE NoTask]
        /\ token' = None /\ bio' = NoBio /\ request' = Abandon(Tasks \cup {"bio"})
        /\ UNCHANGED <<account, bioID, trouble, stored>>
    BY DEF Restart
  <1>2. /\ RequestsFit'
        /\ \A q \in Requests :
                request'[q].by = IF request[q].by \in Tasks \cup {"bio"} THEN None ELSE request[q].by
    BY <1>1, AbandonFits DEF RequestInv, RequestsFit
  <1>3. \A q \in Requests : request'[q].by = None
    BY <1>2 DEF RequestInv, RequestsFit, RequestType
  <1>4. WaitersFit'
    <2>1. bio'.step # "post" /\ None \notin Tasks /\ None # "bio"
      BY <1>1, NoneIsNew DEF NoBio
    <2> QED BY <1>3, <2>1 DEF WaitersFit
  <1>5. UsersFit'
    BY <1>1 DEF RequestInv, UsersFit, FetchRepairs, NoTask, Calling, NoBio
  <1> QED BY <1>2, <1>4, <1>5 DEF RequestInv

(* ------------------------------ the theorems --------------------------- *)

AccountsInv == PhoneInv /\ RequestInv /\ StorageFits /\ logins \in 0 .. MaxLogins /\ restarts \in 0 .. MaxRestarts

LEMMA StepKeepsAccounts ==
  ASSUME AccountsInv, [Next]_vars PROVE AccountsInv'
  <1> USE DEF AccountsInv
  <1>1. StorageFits'
    BY StepKeepsStorage
  <1>2. logins' \in 0 .. MaxLogins /\ restarts' \in 0 .. MaxRestarts
    <2>1. UNCHANGED <<logins, restarts>> \/ (logins < MaxLogins /\ logins' = logins + 1 /\ restarts' = restarts)
          \/ (restarts < MaxRestarts /\ restarts' = restarts + 1 /\ logins' = logins)
      <3>1. ASSUME NEW q \in Requests,
                   Server(q) \/ CrashRequest(q) \/ \E u \in Users : IssueElsewhere(q, u)
            PROVE  UNCHANGED <<logins, restarts>>
        BY <3>1 DEF Server, CreateUser, CheckBioID, IssueBioID, DropAnswer, CrashRequest, IssueElsewhere, Serve,
           session
      <3>2. ASSUME NEW t \in Tasks, Call(t) \/ Storage(t) \/ Logout(t) PROVE UNCHANGED <<logins, restarts>>
        BY <3>2 DEF Call, LoginAnswered, LoginFails, RegisterAnswered, RegisterFails, Logout, session, Storage,
           RestoreSession, WriteAccess, WriteRefresh, DeleteAccess, DeleteRefresh, Answered
      <3>3. CASE BioIDProvider \/ Refresh \/ UNCHANGED vars
        BY <3>3 DEF BioIDProvider, FetchBioID, BioIDFound, IssueInstead, BioIDIssued, IssueFails, Refresh, vars,
           session
      <3> QED BY <3>1, <3>2, <3>3 DEF Next, Login, Restart
    <2> QED BY <2>1, BoundsAreNaturals
  <1>3. ASSUME NEW q \in Requests,
               Server(q) \/ CrashRequest(q) \/ \E u \in Users : IssueElsewhere(q, u)
        PROVE  PhoneInv' /\ RequestInv'
    <2>1. UNCHANGED <<session, task, bio>>
      BY <1>3 DEF Server, CreateUser, CheckBioID, IssueBioID, DropAnswer, CrashRequest, IssueElsewhere, Serve
    <2> QED BY <1>3, <2>1, BioStepKeepsPhone, ServerKeepsRequests
  <1>4. ASSUME NEW t \in Tasks,
               Call(t) \/ Storage(t) \/ Logout(t) \/ Restart(t) \/ \E u \in Users : Login(t, u)
        PROVE  PhoneInv' /\ RequestInv'
    <2>1. PhoneInv'
      BY <1>4, CallKeepsPhone, StorageKeepsPhone, LogoutKeepsPhone, RestartKeepsPhone, LoginKeepsPhone
    <2>2. RequestInv'
      BY <1>4, CallKeepsRequests, StorageKeepsRequests, TapKeepsRequests, RestartKeepsRequests
    <2> QED BY <2>1, <2>2
  <1>5. ASSUME BioIDProvider \/ Refresh PROVE PhoneInv' /\ RequestInv'
    BY <1>5, ProviderKeepsPhone, ProviderKeepsRequests
  <1>6. ASSUME UNCHANGED vars PROVE PhoneInv' /\ RequestInv'
    <2>1. UNCHANGED <<server, session, task, bio>>
      BY <1>6 DEF vars
    <2>2. RequestInv'
      BY <2>1 DEF server, session, RequestInv, RequestsFit, WaitersFit, UsersFit, FetchRepairs
    <2> QED BY <2>1, <2>2, BioStepKeepsPhone
  <1>7. PhoneInv' /\ RequestInv'
    BY <1>3, <1>4, <1>5, <1>6 DEF Next
  <1> QED BY <1>1, <1>2, <1>7

THEOREM AccountsInvariant == Spec => []AccountsInv
  <1>1. Init => AccountsInv
    BY PhoneInit, RequestInit, StorageInit, BoundsAreNaturals DEF Init, AccountsInv
  <1>2. AccountsInv /\ [Next]_vars => AccountsInv'
    BY StepKeepsAccounts
  <1> QED BY <1>1, <1>2, PTL DEF Spec

\* The variables of Accounts keep their types.
THEOREM AccountsTypeCorrect == Spec => []TypeOK
  <1>1. AccountsInv => TypeOK
    BY DEF AccountsInv, PhoneInv, PhoneTyped, RequestInv, RequestsFit, RequestType, TaskType, TypeOK
  <1> QED BY <1>1, AccountsInvariant, PTL

\* However restore, logins, logouts and restarts of the app overlap, its inner
\* screens are shown exactly while the ApiClient has a token, and the email on
\* screen is that token's (auth_providers.dart).
THEOREM ScreenTrue == Spec => []ScreenFollowsToken
  <1>1. AccountsInv => ScreenFollowsToken
    BY DEF AccountsInv, PhoneInv, SessionFits
  <1> QED BY <1>1, AccountsInvariant, PTL

\* Whenever the storage has nothing to do it holds the session of the client, so
\* that a restart of the app brings back just that one.
THEOREM StorageTrue == Spec => []StorageFollowsToken
  <1>1. AccountsInv => StorageFollowsToken
    <2> SUFFICES ASSUME AccountsInv, channel = <<>>
                 PROVE  stored.access = token /\ (restarts = 0 => stored.refresh = token)
      BY DEF StorageFollowsToken
    <2>1. \A t \in Tasks : task[t].kind # "restore"
      BY DEF AccountsInv, PhoneInv, ChannelFits
    <2>2. \A i \in 1 .. Len(channel) : ~InRefresh(i)
      OBVIOUS
    <2> QED BY <2>1, <2>2 DEF AccountsInv, StorageFits
  <1> QED BY <1>1, AccountsInvariant, PTL

\* A BioID on screen is in the backend's table, and so is one whose issue failed
\* only because another request had issued it (bioid_service.py).
THEOREM RepairByFetch == Spec => []FetchRepairs
  <1>1. AccountsInv => FetchRepairs
    BY DEF AccountsInv, RequestInv, UsersFit
  <1> QED BY <1>1, AccountsInvariant, PTL

\* Unless a login is tapped during a restore or a logout, the BioID on screen is
\* the one of the user whose token the client sends (bioid_providers.dart).
THEOREM BioIDOfToken == Spec => []BioIDIsOwn
  <1>1. AccountsInv => BioIDIsOwn
    BY DEF AccountsInv, PhoneInv, SessionFits, BioIDIsOwn
  <1> QED BY <1>1, AccountsInvariant, PTL

\* The login button is disabled only while some login is under way.
THEOREM LoadingHasLogin == Spec => []LoadingMeansLogin
  <1>1. AccountsInv => LoadingMeansLogin
    BY DEF AccountsInv, PhoneInv, SessionFits
  <1> QED BY <1>1, AccountsInvariant, PTL

=============================================================================
