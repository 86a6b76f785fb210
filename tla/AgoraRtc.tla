------------------------------ MODULE AgoraRtc ------------------------------
(***************************************************************************)
(* rtc/mybot_agora_rtc.c: one conversation at a time on Agora's RTSA        *)
(* library.  Every command runs on the RTC worker, called synchronously by  *)
(* the control worker; the library's callbacks run on the library's thread, *)
(* which copies them into the RTC worker's queue.  A join waits on the      *)
(* worker itself for the RTM login and the channel subscription, so those   *)
(* two answers also reach it through flags the callback writes directly.    *)
(*                                                                          *)
(* The library is external: its calls succeed or fail freely, and it        *)
(* answers a login or a subscription at any later time.  Sending media,     *)
(* messages and tokens changes no state here and is left out.               *)
(***************************************************************************)
EXTENDS Naturals, Sequences

CONSTANTS
  Accounts, Channels,  \* RTM accounts, and channels named like them
  None,
  QueueCap,            \* events the RTC worker's queue holds
  MaxLogins, MaxSubs, MaxConns   \* bounds on the generations and connections used

ASSUME RtcAssumption ==
  /\ None \notin Accounts \cup Channels
  /\ QueueCap \in Nat \ {0}
  /\ MaxLogins \in Nat /\ MaxSubs \in Nat /\ MaxConns \in Nat

VARIABLES
  state, conn,         \* s_rtc.state, s_rtc.conn_id (0: none)
  rtm,                 \* the rtm_login_* fields of s_rtc
  chan,                \* its rtm_subscribe_* fields
  gen,                 \* the wrapper's login and subscription generations
  loginFlag, subFlag,  \* the s_rtm_login_* and s_rtm_sub_* atomics
  open, enabled,       \* s_rtc_mpq_id is valid, s_rtc_callbacks_enabled
  queue,               \* what the RTC worker has still to run
  caller,              \* the control worker: "free", or "waiting" for its call
  job,                 \* the call in progress on the RTC worker
  callback,            \* the callback running on the library's thread
  \* the library
  logoutIsFinal,       \* a logout succeeds and no callback of its session follows it
  service,             \* between agora_rtc_init() and agora_rtc_fini()
  live, joined, lastConn, \* connections: not destroyed, reported joined, last created
  asked,               \* logins and subscriptions not answered yet
  session,             \* the login that stands
  granted              \* history: those answered with success since the last final logout

callVars    == <<open, caller>>
connVars    == <<state, conn>>
flagVars    == <<gen, loginFlag, subFlag>>
library     == <<service, logoutIsFinal>>
libConnVars == <<live, joined, lastConn>>
libRtmVars  == <<asked, session, granted>>
vars == <<callVars, connVars, rtm, chan, flagVars, enabled, queue, job, callback, service,
          libConnVars, libRtmVars, logoutIsFinal>>

InCall == {"connecting", "connected", "reconnecting", "disconnected"}
States == InCall \cup {"idle", "initialized", "error"}
ConnEvents == {"joined", "reconnecting", "lost", "error"}
Commands == {"init", "join", "leave", "fini", "login", "logout"}

NoLogin == [requested |-> FALSE, completed |-> FALSE, ok |-> FALSE, owned |-> FALSE, uid |-> None]
NoSub == [requested |-> FALSE, completed |-> FALSE, ok |-> FALSE, name |-> None]
NoJob == [at |-> "idle", join |-> FALSE, user |-> None, channel |-> None,
          login |-> FALSE, sub |-> FALSE]
NoCallback == [at |-> "idle"]
NoSession == [type |-> "login", key |-> None, serial |-> 0]

-----------------------------------------------------------------------------
(* The control worker.  One synchronous call at a time: it is queued behind *)
(* the events the RTC worker has not run yet.                               *)

Post(item) == queue' = IF Len(queue) < QueueCap THEN Append(queue, item) ELSE queue

Call(command, user, channel) ==
  /\ caller = "free" /\ open
  /\ Post([type |-> command, user |-> user, channel |-> channel])
  /\ caller' = IF Len(queue) < QueueCap THEN "waiting" ELSE "free"
  /\ UNCHANGED <<open, connVars, rtm, chan, flagVars, enabled, job, callback, library,
                 libConnVars, libRtmVars>>

\* A command may raise each generation once and create one connection.
WithinBounds == gen.login < MaxLogins /\ gen.sub < MaxSubs /\ lastConn < MaxConns

CallJoin == WithinBounds /\ \E user \in Accounts, channel \in Channels : Call("join", user, channel)
CallLeave == Call("leave", None, None)
CallLogin == WithinBounds /\ \E user \in Accounts : Call("login", user, None)
CallLogout == Call("logout", None, None)
CallFini == Call("fini", None, None)

\* mybot_agora_rtc_init() also creates the queue and opens the callback gate.
CallInit ==
  /\ caller = "free"
  /\ open' = TRUE /\ enabled' = TRUE
  /\ Post([type |-> "init", user |-> None, channel |-> None])
  /\ caller' = IF Len(queue) < QueueCap THEN "waiting" ELSE "free"
  /\ UNCHANGED <<connVars, rtm, chan, flagVars, job, callback, library, libConnVars, libRtmVars>>

-----------------------------------------------------------------------------
(* The RTC worker                                                           *)

Takes(type) == job.at = "idle" /\ queue # <<>> /\ Head(queue).type = type
               /\ queue' = Tail(queue)
Return == caller' = "free" /\ job' = NoJob

\* clear_rtm_login(), clear_rtm_subscription()
ClearLogin == rtm' = NoLogin /\ chan' = NoSub
ClearSub == chan' = NoSub

\* rtc_logout_rtm_impl(): what the library refuses does not keep the wrapper logged in.
Logout ==
  IF ~rtm.requested
    THEN ClearSub /\ UNCHANGED <<rtm, libRtmVars>>
    ELSE /\ ClearLogin
         /\ logoutIsFinal => callback.at = "idle"
         /\ IF logoutIsFinal
              THEN asked' = {} /\ session' = NoSession /\ granted' = {}
              ELSE UNCHANGED <<asked, granted>> /\ session' \in {NoSession, session}

\* unsubscribe_rtm(): a refusal leaves the subscription as it is.
Unsubscribe ==
  /\ \/ ClearSub
     \/ chan.requested /\ (~chan.completed \/ chan.ok) /\ UNCHANGED chan
  /\ UNCHANGED <<rtm, libRtmVars>>

\* agora_rtc_destroy_connection(): a refused one stays live.
Destroy(c) ==
  \/ live' = live \ {c} /\ state' = "initialized"
  \/ UNCHANGED live /\ state' = "error"

\* rtc_init_impl(); an initialized wrapper only takes the new callbacks.
DoInit ==
  /\ Takes("init")
  /\ Return
  /\ IF state = "idle"
       THEN /\ conn' = 0 /\ ClearLogin
            /\ \/ state' = "initialized" /\ service' = TRUE
               \/ UNCHANGED <<state, service>>
       ELSE UNCHANGED <<connVars, rtm, chan, service>>
  /\ UNCHANGED <<logoutIsFinal, open, flagVars, enabled, callback, libConnVars, libRtmVars>>

\* rtc_leave_impl()
Leave ==
  IF conn = 0
    THEN /\ IF rtm.owned THEN Logout ELSE UNCHANGED <<rtm, chan, libRtmVars>>
         /\ UNCHANGED <<connVars, libConnVars>>
    ELSE /\ conn' = 0
         /\ Destroy(conn)
         /\ IF rtm.owned THEN Logout ELSE Unsubscribe
         /\ UNCHANGED <<joined, lastConn>>

DoLeave ==
  /\ Takes("leave")
  /\ Return
  /\ Leave
  /\ UNCHANGED <<open, flagVars, enabled, callback, library>>

DoLogout ==
  /\ Takes("logout")
  /\ Return
  /\ Logout
  /\ UNCHANGED <<open, connVars, flagVars, enabled, callback, library, libConnVars>>

\* mybot_agora_rtc_fini().  Whatever is still queued behind the call finds no
\* login and no connection, so it is dropped with the queue; the destruction of
\* the queue may itself be refused.  The library drains its own thread first.
FiniSucceeds ==
  /\ IF state = "idle"
       THEN UNCHANGED <<connVars, rtm, chan, service, libConnVars, libRtmVars>>
       ELSE /\ state' = "idle" /\ conn' = 0 /\ ClearLogin
            /\ service' = FALSE /\ live' = {} /\ asked' = {} /\ session' = NoSession
            /\ granted' = {}
            /\ UNCHANGED <<joined, lastConn>>
  /\ open' \in BOOLEAN

FiniFails ==
  /\ state # "idle"
  /\ state' = "error" /\ conn' = 0
  /\ live' \in {live, live \ {conn}}
  /\ Logout
  /\ open' \in BOOLEAN
  /\ UNCHANGED <<service, joined, lastConn>>

DoFini ==
  /\ job.at = "idle" /\ queue # <<>> /\ Head(queue).type = "fini"
  /\ callback.at = "idle"
  /\ queue' = <<>>
  /\ enabled' = FALSE
  /\ Return
  /\ FiniSucceeds \/ FiniFails
  /\ UNCHANGED <<flagVars, callback, logoutIsFinal>>

-----------------------------------------------------------------------------
(* Logging in and joining: rtc_login_rtm_impl(), rtc_join_impl().  The       *)
(* callbacks see each store below, so every step is an action of its own.   *)

\* login_rtm() up to the generation, which it changes under the gate
RequestLogin(user) ==
  /\ state = "initialized" /\ conn = 0 /\ ~rtm.requested
  /\ rtm' = [rtm EXCEPT !.requested = TRUE, !.uid = user, !.owned = FALSE]
  /\ gen' = [gen EXCEPT !.login = @ + 1]

DoLogin ==
  /\ Takes("login")
  /\ LET user == Head(queue).user IN
       \/ /\ RequestLogin(user)
          /\ job' = [NoJob EXCEPT !.at = "askLogin", !.user = user]
          /\ UNCHANGED caller
       \/ (state # "initialized" \/ conn # 0 \/ rtm.requested) /\ Return /\ UNCHANGED <<rtm, gen>>
  /\ UNCHANGED <<open, connVars, chan, loginFlag, subFlag, enabled, callback, library,
                 libConnVars, libRtmVars>>

DoJoin ==
  /\ Takes("join")
  /\ LET user == Head(queue).user
         start == [NoJob EXCEPT !.join = TRUE, !.user = user, !.channel = Head(queue).channel]
     IN \/ /\ rtm.requested /\ rtm.uid = user
           /\ job' = [start EXCEPT !.at = "waitLogin"]
           /\ UNCHANGED <<rtm, gen, caller>>
        \/ /\ RequestLogin(user)
           /\ job' = [start EXCEPT !.at = "askLogin", !.login = TRUE]
           /\ UNCHANGED caller
        \/ /\ IF rtm.requested THEN rtm.uid # user ELSE state # "initialized" \/ conn # 0
           /\ Return
           /\ UNCHANGED <<rtm, gen>>
  /\ UNCHANGED <<open, connVars, chan, loginFlag, subFlag, enabled, callback, library,
                 libConnVars, libRtmVars>>

KeptFlag(flag, n) == [flag EXCEPT !.gen = n]
Reset(flag, n) == [done |-> FALSE, ok |-> FALSE, gen |-> n]

AskLogin ==
  /\ job.at = "askLogin"
  /\ loginFlag' = Reset(loginFlag, gen.login)
  /\ \/ /\ asked' = asked \cup {[type |-> "login", key |-> rtm.uid, serial |-> gen.login]}
        /\ rtm' = [rtm EXCEPT !.completed = FALSE, !.ok = FALSE, !.owned = job.join]
        /\ IF job.join
             THEN job' = [job EXCEPT !.at = "waitLogin"] /\ UNCHANGED caller
             ELSE Return
        /\ UNCHANGED chan
     \/ ClearLogin /\ Return /\ UNCHANGED asked
  /\ UNCHANGED <<open, connVars, gen, subFlag, enabled, queue, callback, library,
                 libConnVars, session, granted>>

\* wait_for_rtm_login(); no one else can withdraw the request meanwhile
LoginConfirmed ==
  /\ job.at = "waitLogin" /\ loginFlag.done /\ loginFlag.ok
  /\ rtm' = [rtm EXCEPT !.completed = TRUE, !.ok = TRUE]
  /\ job' = [job EXCEPT !.at = "subscribe"]
  /\ UNCHANGED <<callVars, connVars, chan, flagVars, enabled, queue, callback, library,
                 libConnVars, libRtmVars>>

\* clear_rtm_login() comes first, so the logout that follows finds nothing to do.
LoginRefused ==
  /\ job.at = "waitLogin" /\ loginFlag.done /\ ~loginFlag.ok
  /\ ClearLogin
  /\ Return
  /\ UNCHANGED <<open, connVars, flagVars, enabled, queue, callback, library,
                 libConnVars, libRtmVars>>

OwnLoginLate == job.login /\ ~loginFlag.done
LoginLate == ~loginFlag.done

LoginTimesOut ==
  /\ job.at = "waitLogin" /\ LoginLate
  /\ IF job.login THEN Logout ELSE UNCHANGED <<rtm, chan, libRtmVars>>
  /\ Return
  /\ UNCHANGED <<open, connVars, flagVars, enabled, queue, callback, library,
                 libConnVars>>

AbandonWithLogout(started) == Logout /\ Return

\* The "out" label of rtc_join_impl() with a negative result
Abandon(started) ==
  /\ IF started THEN Logout ELSE UNCHANGED <<rtm, chan, libRtmVars>>
  /\ Return

CanJoin == state = "initialized" /\ conn = 0

\* subscribe_rtm() up to the generation, which it changes under the gate
Subscribe ==
  /\ job.at = "subscribe" /\ CanJoin
  /\ \/ /\ ~chan.requested
        /\ chan' = [chan EXCEPT !.requested = TRUE, !.name = job.channel]
        /\ gen' = [gen EXCEPT !.sub = @ + 1]
        /\ job' = [job EXCEPT !.at = "askSub", !.sub = TRUE]
     \/ /\ chan.requested /\ chan.name = job.channel
        /\ job' = [job EXCEPT !.at = "waitSub"]
        /\ UNCHANGED <<chan, gen>>
  /\ UNCHANGED <<callVars, connVars, rtm, loginFlag, subFlag, enabled, queue, callback, library,
                 libConnVars, libRtmVars>>

SubscribeRejected ==
  /\ job.at = "subscribe"
  /\ ~CanJoin \/ (chan.requested /\ chan.name # job.channel)
  /\ Abandon(job.login)
  /\ UNCHANGED <<open, connVars, flagVars, enabled, queue, callback, library,
                 libConnVars>>

AskSub ==
  /\ job.at = "askSub"
  /\ subFlag' = Reset(subFlag, gen.sub)
  /\ UNCHANGED <<gen, loginFlag>>
  /\ \/ /\ asked' = asked \cup {[type |-> "sub", key |-> chan.name, serial |-> gen.sub]}
        /\ chan' = [chan EXCEPT !.completed = FALSE, !.ok = FALSE]
        /\ job' = [job EXCEPT !.at = "waitSub"]
        /\ UNCHANGED <<caller, rtm, session, granted>>
     \/ Abandon(TRUE)
  /\ UNCHANGED <<open, connVars, enabled, queue, callback, library, libConnVars>>

\* wait_for_rtm_subscription()
SubConfirmed ==
  /\ job.at = "waitSub" /\ subFlag.done /\ subFlag.ok
  /\ chan' = [chan EXCEPT !.completed = TRUE, !.ok = TRUE]
  /\ job' = [job EXCEPT !.at = "connect"]
  /\ UNCHANGED <<callVars, connVars, rtm, flagVars, enabled, queue, callback, library,
                 libConnVars, libRtmVars>>

SubRefused ==
  /\ job.at = "waitSub" /\ ~(subFlag.done /\ subFlag.ok)
  /\ Logout
  /\ Return
  /\ UNCHANGED <<open, connVars, flagVars, enabled, queue, callback, library,
                 libConnVars>>

\* No connection, or one whose join is refused and which is destroyed again
ConnectFails ==
  /\ job.at = "connect"
  /\ \/ UNCHANGED <<connVars, libConnVars>>
     \/ /\ lastConn' = lastConn + 1
        /\ \/ UNCHANGED <<connVars, live>>
           \/ live' = live \cup {lastConn'} /\ state' = "error" /\ UNCHANGED conn
        /\ UNCHANGED joined
  /\ Abandon(job.login \/ job.sub)
  /\ UNCHANGED <<open, flagVars, enabled, queue, callback, library>>

Connect ==
  /\ job.at = "connect"
  /\ lastConn' = lastConn + 1
  /\ live' = live \cup {lastConn'}
  /\ conn' = lastConn' /\ state' = "connecting"
  /\ Return
  /\ UNCHANGED <<open, rtm, chan, flagVars, enabled, queue, callback, library, joined,
                 libRtmVars>>

-----------------------------------------------------------------------------
(* Queued callbacks, run when no command is in progress                     *)

\* process_rtm_event() for a login
DoLoginEvent ==
  /\ Takes("login_answer")
  /\ LET e == Head(queue) IN
       IF rtm.requested /\ e.key = rtm.uid /\ e.gen = gen.login
         THEN IF e.ok THEN rtm' = [rtm EXCEPT !.completed = TRUE, !.ok = TRUE] /\ UNCHANGED chan
                      ELSE ClearLogin
         ELSE UNCHANGED <<rtm, chan>>
  /\ UNCHANGED <<callVars, connVars, flagVars, enabled, job, callback, library, libConnVars,
                 libRtmVars>>

\* process_rtm_event() for a kickoff or an exit: the generation is not compared.
DoLoginEnded ==
  /\ Takes("login_ended")
  /\ IF rtm.requested /\ Head(queue).key = rtm.uid THEN ClearLogin ELSE UNCHANGED <<rtm, chan>>
  /\ UNCHANGED <<callVars, connVars, flagVars, enabled, job, callback, library, libConnVars,
                 libRtmVars>>

\* process_rtm_subscribe_result()
DoSubEvent ==
  /\ Takes("sub_answer")
  /\ LET e == Head(queue) IN
       chan' = IF chan.requested /\ e.key = chan.name /\ e.gen = gen.sub
                 THEN [chan EXCEPT !.completed = TRUE, !.ok = e.ok] ELSE chan
  /\ UNCHANGED <<callVars, connVars, rtm, flagVars, enabled, job, callback, library,
                 libConnVars, libRtmVars>>

StateAfter == [joined |-> "connected", reconnecting |-> "reconnecting",
               lost |-> "disconnected", error |-> "error"]

ConnEventOfAny(type) == state' = StateAfter[type]

ConnEvent(type) ==
  state' = IF conn # 0 /\ Head(queue).conn = conn THEN StateAfter[type] ELSE state

DoConnEvent ==
  /\ \E type \in ConnEvents : Takes(type) /\ ConnEvent(type)
  /\ UNCHANGED <<callVars, conn, rtm, chan, flagVars, enabled, job, callback, library,
                 libConnVars, libRtmVars>>

-----------------------------------------------------------------------------
(* The library's thread, one callback at a time                             *)

\* on_rtm_event(), on_rtm_subscribe_result(): the checks made under the gate
Accepts(a) ==
  enabled /\ IF a.type = "login" THEN rtm.requested /\ rtm.uid = a.key
                                 ELSE chan.requested /\ chan.name = a.key

Answer ==
  /\ service /\ callback.at = "idle"
  /\ \E a \in asked, ok \in BOOLEAN :
       /\ asked' = asked \ {a}
       /\ granted' = IF ok THEN granted \cup {a} ELSE granted
       /\ session' = IF ok /\ a.type = "login" THEN a ELSE session
       /\ callback' = IF Accepts(a) THEN [at |-> "flag", of |-> a, ok |-> ok] ELSE NoCallback
  /\ UNCHANGED <<callVars, connVars, rtm, chan, flagVars, enabled, queue, job, library,
                 libConnVars>>

RaiseFlag ==
  /\ callback.at = "flag"
  /\ IF callback.of.type = "login"
       THEN loginFlag' = [loginFlag EXCEPT !.done = TRUE, !.ok = callback.ok] /\ UNCHANGED subFlag
       ELSE subFlag' = [subFlag EXCEPT !.done = TRUE, !.ok = callback.ok] /\ UNCHANGED loginFlag
  /\ callback' = [callback EXCEPT !.at = "post"]
  /\ UNCHANGED <<callVars, connVars, rtm, chan, gen, enabled, queue, job, library, libConnVars,
                 libRtmVars>>

\* rtc_event_queue()
PostEvent(e) == IF open /\ enabled THEN Post(e) ELSE UNCHANGED queue

EventOf(a, ok) ==
  [type |-> IF a.type = "login" THEN "login_answer"
            ELSE IF a.type = "sub" THEN "sub_answer" ELSE "login_ended",
   key |-> a.key, ok |-> ok, serial |-> a.serial,
   gen |-> IF a.type = "sub" THEN subFlag.gen ELSE loginFlag.gen]

PostAnswer ==
  /\ callback.at = "post"
  /\ PostEvent(EventOf(callback.of, callback.ok)) \/ UNCHANGED queue   \* or no memory
  /\ callback' = NoCallback
  /\ UNCHANGED <<callVars, connVars, rtm, chan, flagVars, enabled, job, library, libConnVars,
                 libRtmVars>>

\* A kickoff or an exit of the standing login
EndLogin ==
  /\ service /\ callback.at = "idle" /\ session # NoSession
  /\ session' = NoSession
  /\ callback' = IF enabled
                   THEN [at |-> "post", of |-> [session EXCEPT !.type = "ended"], ok |-> FALSE]
                   ELSE NoCallback
  /\ UNCHANGED <<callVars, connVars, rtm, chan, flagVars, enabled, queue, job, library,
                 libConnVars, asked, granted>>

\* on_join_channel_success(), on_rejoin_channel_success(), on_reconnecting(),
\* on_connection_lost(), on_error(), on_license_failed(): any connection ever created
ReportConn ==
  /\ service /\ callback.at = "idle"
  /\ \E c \in 1..lastConn, type \in ConnEvents :
       /\ joined' = IF type = "joined" THEN joined \cup {c} ELSE joined
       /\ PostEvent([type |-> type, conn |-> c])
  /\ UNCHANGED <<callVars, connVars, rtm, chan, flagVars, enabled, job, callback, library, live,
                 lastConn, libRtmVars>>

-----------------------------------------------------------------------------
Init ==
  /\ state = "idle" /\ conn = 0
  /\ rtm = NoLogin /\ chan = NoSub /\ gen = [login |-> 0, sub |-> 0]
  /\ loginFlag = [done |-> FALSE, ok |-> FALSE, gen |-> 0] /\ subFlag = loginFlag
  /\ open = FALSE /\ enabled = FALSE /\ queue = <<>>
  /\ caller = "free" /\ job = NoJob
  /\ callback = NoCallback
  /\ service = FALSE /\ live = {} /\ joined = {} /\ lastConn = 0
  /\ asked = {} /\ session = NoSession /\ granted = {}
  /\ logoutIsFinal \in BOOLEAN

Caller == CallInit \/ CallJoin \/ CallLeave \/ CallLogin \/ CallLogout \/ CallFini

Commanded == DoInit \/ DoJoin \/ DoLeave \/ DoLogin \/ DoLogout \/ DoFini

Joining == AskLogin \/ LoginConfirmed \/ LoginRefused \/ LoginTimesOut
           \/ Subscribe \/ SubscribeRejected \/ AskSub \/ SubConfirmed \/ SubRefused
           \/ Connect \/ ConnectFails

Notified == DoLoginEvent \/ DoLoginEnded \/ DoSubEvent \/ DoConnEvent

Worker == Commanded \/ Joining \/ Notified
Forward == RaiseFlag \/ PostAnswer
Library == Answer \/ EndLogin \/ ReportConn

Next == Caller \/ Worker \/ Forward \/ Library

Spec == Init /\ [][Next]_vars

\* Both threads keep running; the library need not answer anything.
FairSpec == Spec /\ WF_vars(Worker) /\ WF_vars(Forward)

-----------------------------------------------------------------------------
Asked == [type : {"login", "sub", "ended"}, key : Accounts \cup Channels, serial : Nat]
Flag == [done : BOOLEAN, ok : BOOLEAN, gen : Nat]
Item == [type : Commands, user : Accounts \cup {None}, channel : Channels \cup {None}]
        \cup [type : ConnEvents, conn : Nat]
        \cup [type : {"login_answer", "sub_answer", "login_ended"}, key : Accounts \cup Channels,
              ok : BOOLEAN, serial : Nat, gen : Nat]

\* Every variable keeps the type s_rtc and the queue give it.
TypeOK ==
  /\ state \in States /\ conn \in Nat
  /\ rtm \in [requested : BOOLEAN, completed : BOOLEAN, ok : BOOLEAN, owned : BOOLEAN,
              uid : Accounts \cup {None}]
  /\ chan \in [requested : BOOLEAN, completed : BOOLEAN, ok : BOOLEAN,
               name : Channels \cup {None}]
  /\ gen \in [login : Nat, sub : Nat] /\ loginFlag \in Flag /\ subFlag \in Flag
  /\ open \in BOOLEAN /\ enabled \in BOOLEAN /\ queue \in Seq(Item) /\ Len(queue) <= QueueCap
  /\ caller \in {"free", "waiting"}
  /\ job \in [at : {"idle", "askLogin", "waitLogin", "subscribe", "askSub", "waitSub", "connect"},
              join : BOOLEAN, user : Accounts \cup {None}, channel : Channels \cup {None},
              login : BOOLEAN, sub : BOOLEAN]
  /\ callback \in {NoCallback} \cup [at : {"flag", "post"}, of : Asked, ok : BOOLEAN]
  /\ service \in BOOLEAN /\ logoutIsFinal \in BOOLEAN /\ live \subseteq Nat /\ joined \subseteq Nat /\ lastConn \in Nat
  /\ asked \subseteq Asked /\ session \in Asked \cup {NoSession}
  /\ granted \subseteq Asked

\* RTSA supports one conversation: a new connection is never opened while the
\* library still holds another, the ones it refused to destroy included.
OneConnection ==
  /\ \A c, d \in live : c = d
  /\ live \subseteq {conn} \/ (state = "error" /\ conn = 0)

\* The call state and the connection agree: no event that is late, of whichever
\* connection, puts the wrapper in a call it does not have or out of one it has.
StateFitsConnection ==
  IF conn = 0 THEN state \in {"idle", "initialized", "error"}
              ELSE state \in InCall \cup {"error"} /\ conn \in live /\ service

\* The application hears "connected", and media flows, only once the library
\* has reported the present connection joined, not an earlier one.
ConnectedMeansJoined == state = "connected" => conn \in joined

\* The wrapper and the library agree on the one connection there is.
ConnectionAgrees == OneConnection /\ StateFitsConnection /\ ConnectedMeansJoined

\* The RTC join starts after a login and its own subscription have succeeded, never on
\* the flags an earlier session left behind, if the library keeps its answers to a
\* session inside that session.  The login need not be the one asked for last: a
\* stale event may have cleared an earlier one, which the library goes on with.
JoinFollowsLogin ==
  [][logoutIsFinal /\ conn' # conn /\ conn' # 0
       => /\ \E a \in granted : a.type = "login"
          /\ \E a \in granted : a.type = "sub" /\ a.serial = gen.sub]_vars

\* A join that arrives during a call is rejected without touching the call, and it
\* takes the login and the subscription of the call away only if the library has
\* said meanwhile that a login failed.
SecondJoinIsHarmless ==
  [][job.at # "idle" /\ conn # 0
       => /\ conn' = conn
          /\ \/ rtm'.requested = rtm.requested /\ chan' = chan
             \/ loginFlag.done /\ ~loginFlag.ok]_vars

\* A failed login, a kickoff or an exit takes down only the login it belongs to:
\* the generation stamped on events is there to ignore the stale ones.
EndedByItsOwnEvent ==
  [][job.at = "idle" /\ rtm.requested /\ ~rtm'.requested
        /\ Head(queue).type \in {"login_answer", "login_ended"}
       => Head(queue).serial = gen.login]_vars

\* Every synchronous call returns: a join never waits forever for an answer that
\* only the worker it occupies could process.
CallReturns == caller = "waiting" ~> caller = "free"
=============================================================================
