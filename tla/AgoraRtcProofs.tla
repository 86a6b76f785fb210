--------------------------- MODULE AgoraRtcProofs ---------------------------
(***************************************************************************)
(* The wrapper and the library agree on the one connection there is, a      *)
(* connection is opened on answers of its own session, and a second join    *)
(* leaves the call alone, for any accounts, channels and room in the queue. *)
(***************************************************************************)
EXTENDS AgoraRtc, SequenceTheorems, TLAPS

USE DEF callVars, connVars, flagVars, library, libConnVars, libRtmVars

-----------------------------------------------------------------------------
(* The inductive invariant                                                   *)

\* Whom and what the queued commands, the login, the subscription and the job name.
NamesFit ==
  /\ \A i \in 1..Len(queue) :
       /\ queue[i].type \in {"join", "login"} => queue[i].user \in Accounts
       /\ queue[i].type = "join" => queue[i].channel \in Channels
  /\ rtm.requested => rtm.uid \in Accounts
  /\ chan.requested => chan.name \in Channels
  /\ job.at \in {"waitLogin", "subscribe"} => job.join
  /\ job.join => job.channel \in Channels
  /\ \A a \in asked : a.type \in {"login", "sub"}
  /\ callback.at = "flag" => callback.of.type \in {"login", "sub"}

\* What a join in progress rests on; the worker runs nothing else meanwhile.
JobFits ==
  /\ job.at # "idle" => rtm.requested
  /\ job.at \in {"askSub", "waitSub", "connect"} => state = "initialized" /\ conn = 0 /\ chan.requested
  /\ job.at = "askLogin" \/ job.login => conn = 0

\* The library is up unless the wrapper is idle, connections are counted, and a queued
\* "joined" is of a connection that the library has reported joined.
LibraryFits ==
  /\ state # "idle" => service
  /\ live \subseteq 1..lastConn
  /\ \A i \in 1..Len(queue) : queue[i].type = "joined" => queue[i].conn \in joined

LoginGranted == \E a \in granted : a.type = "login"
SubGranted == \E a \in granted : a.type = "sub" /\ a.serial = gen.sub

\* No subscription is outstanding, in the library or in a callback.
NoSubAsked ==
  /\ \A a \in asked : a.type # "sub"
  /\ ~(callback.at = "flag" /\ callback.of.type = "sub")

\* A callback about to say yes has been granted; a flag that says yes, or a job that is
\* beyond it, stands for an answer of this session.
CallbackGranted == callback.at = "flag" /\ callback.ok => callback.of \in granted

LoginAnswered ==
  /\ rtm.requested /\ job.at # "askLogin" /\ loginFlag.done /\ loginFlag.ok => LoginGranted
  /\ job.at \in {"subscribe", "askSub", "waitSub", "connect"} => LoginGranted

SubAnswered ==
  /\ chan.requested /\ job.at # "askSub" /\ subFlag.done /\ subFlag.ok => SubGranted
  /\ job.at = "connect" => SubGranted

\* A subscription is outstanding only while the worker waits for it, and it is the
\* one that was asked for last.
OneSubAsked ==
  /\ job.at # "waitSub" \/ subFlag.done => NoSubAsked
  /\ \A a \in asked : a.type = "sub" =>
       a.key = chan.name /\ a.serial = gen.sub /\ ~(callback.at = "flag" /\ callback.of.type = "sub")
  /\ callback.at = "flag" /\ callback.of.type = "sub" => callback.of.serial = gen.sub

\* All of this if the library keeps its answers to a session inside that session.
AnswersFit == logoutIsFinal => CallbackGranted /\ LoginAnswered /\ SubAnswered /\ OneSubAsked

RtcInv == TypeOK /\ NamesFit /\ JobFits /\ LibraryFits /\ ConnectionAgrees /\ AnswersFit

-----------------------------------------------------------------------------
(* The queue                                                                 *)

\* What an item of the queue has, by its type.
LEMMA ItemShapes ==
  ASSUME NEW e \in Item
  PROVE  /\ e.type \in Commands => e.user \in Accounts \cup {None} /\ e.channel \in Channels \cup {None}
         /\ e.type \in ConnEvents => e.conn \in Nat
         /\ e.type \in {"login_answer", "sub_answer", "login_ended"} =>
              e.key \in Accounts \cup Channels /\ e.ok \in BOOLEAN /\ e.serial \in Nat /\ e.gen \in Nat
BY DEF Item, Commands, ConnEvents

\* An item that is added to a queue with room for it is its last one.
LEMMA Added ==
  ASSUME queue \in Seq(Item), NEW e \in Item, Len(queue) < QueueCap
  PROVE  /\ Append(queue, e) \in Seq(Item)
         /\ Len(Append(queue, e)) <= QueueCap
         /\ \A i \in 1..Len(Append(queue, e)) :
              \/ i \in 1..Len(queue) /\ Append(queue, e)[i] = queue[i]
              \/ Append(queue, e)[i] = e
BY RtcAssumption, AppendProperties, LenProperties

\* The item that is taken is the first one, and the others stay in their order.
LEMMA Taken ==
  ASSUME queue \in Seq(Item), Len(queue) <= QueueCap, queue # <<>>
  PROVE  /\ Head(queue) \in Item /\ 1 \in 1..Len(queue) /\ Head(queue) = queue[1]
         /\ Tail(queue) \in Seq(Item)
         /\ Len(Tail(queue)) <= QueueCap
         /\ \A i \in 1..Len(Tail(queue)) : i + 1 \in 1..Len(queue) /\ Tail(queue)[i] = queue[i + 1]
<1>1. QueueCap \in Nat
  BY RtcAssumption
<1> QED
  BY <1>1, HeadTailProperties, LenProperties, EmptySeq

LEMMA NoItems == <<>> \in Seq(Item) /\ Len(<<>>) = 0 /\ Len(<<>>) <= QueueCap
BY RtcAssumption, EmptySeq

\* What a step may add to the queue: a command of the control worker, or an event of the library.
Addable ==
  {e \in Item : /\ e.type \in {"join", "login"} => e.user \in Accounts
                /\ e.type = "join" => e.channel \in Channels
                /\ e.type = "joined" => e.conn \in joined'}

LEMMA QueueChanges ==
  ASSUME TypeOK, [Next]_vars
  PROVE  \/ UNCHANGED queue
         \/ \E e \in Addable : Len(queue) < QueueCap /\ queue' = Append(queue, e)
         \/ queue # <<>> /\ queue' = Tail(queue)
         \/ queue' = <<>>
<1>1. CASE Caller
  <2>1. \E e \in Addable : Post(e)
    <3>1. \A command \in {"init", "leave", "fini", "logout"} :
            [type |-> command, user |-> None, channel |-> None] \in Addable
      BY DEF Addable, Item, Commands
    <3>2. \A user \in Accounts, channel \in Channels :
            [type |-> "join", user |-> user, channel |-> channel] \in Addable
      BY DEF Addable, Item, Commands
    <3>3. \A user \in Accounts : [type |-> "login", user |-> user, channel |-> None] \in Addable
      BY DEF Addable, Item, Commands
    <3> QED
      BY <1>1, <3>1, <3>2, <3>3
      DEF Caller, CallInit, CallJoin, CallLeave, CallLogin, CallLogout, CallFini, Call
  <2> QED
    BY <2>1 DEF Post
<1>2. CASE PostAnswer
  <2>1. callback.of \in Asked /\ callback.ok \in BOOLEAN
    BY <1>2 DEF PostAnswer, TypeOK, NoCallback
  <2>2. loginFlag.gen \in Nat /\ subFlag.gen \in Nat
    BY DEF TypeOK, Flag
  <2>3. EventOf(callback.of, callback.ok) \in Addable
    BY <2>1, <2>2 DEF EventOf, Addable, Item, Asked
  <2> QED
    BY <1>2, <2>3 DEF PostAnswer, PostEvent, Post
<1>3. CASE ReportConn
  <2>1. PICK c \in 1..lastConn, type \in ConnEvents :
          /\ joined' = IF type = "joined" THEN joined \cup {c} ELSE joined
          /\ PostEvent([type |-> type, conn |-> c])
    BY <1>3 DEF ReportConn
  <2>2. c \in Nat
    BY DEF TypeOK
  <2>3. [type |-> type, conn |-> c] \in Addable
    BY <2>1, <2>2 DEF Addable, Item, ConnEvents
  <2> QED
    BY <2>1, <2>3 DEF PostEvent, Post
<1>4. CASE Worker
  BY <1>4 DEF Worker, Commanded, Joining, Notified, DoInit, DoJoin, DoLeave, DoLogin, DoLogout,
     DoFini, AskLogin, LoginConfirmed, LoginRefused, LoginTimesOut, Subscribe, SubscribeRejected,
     AskSub, SubConfirmed, SubRefused, Connect, ConnectFails, DoLoginEvent, DoLoginEnded,
     DoSubEvent, DoConnEvent, Takes
<1>5. CASE RaiseFlag \/ Answer \/ EndLogin \/ UNCHANGED vars
  BY <1>5 DEF RaiseFlag, Answer, EndLogin, vars
<1> QED
  BY <1>1, <1>2, <1>3, <1>4, <1>5 DEF Next, Forward, Library

LEMMA QueueType == ASSUME TypeOK, [Next]_vars PROVE queue' \in Seq(Item) /\ Len(queue') <= QueueCap
<1>1. queue \in Seq(Item) /\ Len(queue) <= QueueCap
  BY DEF TypeOK
<1>2. CASE UNCHANGED queue
  BY <1>1, <1>2
<1>3. CASE \E e \in Addable : Len(queue) < QueueCap /\ queue' = Append(queue, e)
  <2>1. PICK e \in Addable : Len(queue) < QueueCap /\ queue' = Append(queue, e)
    BY <1>3
  <2>2. e \in Item
    BY <2>1 DEF Addable
  <2> QED
    BY <1>1, <2>1, <2>2, Added
<1>4. CASE queue # <<>> /\ queue' = Tail(queue)
  BY <1>1, <1>4, Taken
<1>5. CASE queue' = <<>>
  BY <1>5, NoItems
<1> QED
  BY <1>2, <1>3, <1>4, <1>5, QueueChanges

\* Every item of the queue was there before the step or has been added by it.
LEMMA QueueItems ==
  ASSUME TypeOK, [Next]_vars, NEW i \in 1..Len(queue')
  PROVE  queue'[i] \in Addable \/ \E k \in 1..Len(queue) : queue'[i] = queue[k]
<1>1. queue \in Seq(Item) /\ Len(queue) <= QueueCap
  BY DEF TypeOK
<1>2. CASE UNCHANGED queue
  BY <1>2
<1>3. CASE \E e \in Addable : Len(queue) < QueueCap /\ queue' = Append(queue, e)
  <2>1. PICK e \in Addable : Len(queue) < QueueCap /\ queue' = Append(queue, e)
    BY <1>3
  <2>2. e \in Item
    BY <2>1 DEF Addable
  <2> QED
    BY <1>1, <2>1, <2>2, Added
<1>4. CASE queue # <<>> /\ queue' = Tail(queue)
  BY <1>1, <1>4, Taken
<1>5. CASE queue' = <<>>
  BY <1>5, NoItems
<1> QED
  BY <1>2, <1>3, <1>4, <1>5, QueueChanges

\* The first item, for the actions that take it.
LEMMA HeadOfQueue ==
  ASSUME TypeOK, queue # <<>>
  PROVE  Head(queue) \in Item /\ 1 \in 1..Len(queue) /\ Head(queue) = queue[1]
BY Taken DEF TypeOK

-----------------------------------------------------------------------------
(* What the operations leave behind                                          *)

\* A logout leaves no login and no subscription; one that is final, of a login that was
\* requested, leaves nothing to answer either.
LEMMA LogoutLeaves ==
  ASSUME Logout
  PROVE  /\ chan' = NoSub /\ rtm' \in {rtm, NoLogin} /\ ~rtm'.requested
         /\ asked' \in {asked, {}} /\ session' \in {session, NoSession}
         /\ granted' \in {granted, {}}
         /\ ~rtm.requested => UNCHANGED libRtmVars
         /\ rtm.requested /\ logoutIsFinal =>
              callback.at = "idle" /\ asked' = {} /\ granted' = {}
BY DEF Logout, ClearSub, ClearLogin, NoLogin, NoSub

-----------------------------------------------------------------------------
(* Types                                                                     *)

Login == [requested : BOOLEAN, completed : BOOLEAN, ok : BOOLEAN, owned : BOOLEAN,
          uid : Accounts \cup {None}]
Sub == [requested : BOOLEAN, completed : BOOLEAN, ok : BOOLEAN, name : Channels \cup {None}]
Job == [at : {"idle", "askLogin", "waitLogin", "subscribe", "askSub", "waitSub", "connect"},
        join : BOOLEAN, user : Accounts \cup {None}, channel : Channels \cup {None},
        login : BOOLEAN, sub : BOOLEAN]

LEMMA Initially == NoLogin \in Login /\ NoSub \in Sub /\ NoJob \in Job
BY DEF NoLogin, NoSub, NoJob, Login, Sub, Job

\* What the worker finds in a command.
LEMMA CommandNames ==
  ASSUME TypeOK, NEW type \in Commands, Takes(type)
  PROVE  /\ Head(queue).type = type
         /\ Head(queue).user \in Accounts \cup {None} /\ Head(queue).channel \in Channels \cup {None}
<1>1. queue # <<>> /\ Head(queue).type = type
  BY DEF Takes
<1> QED
  BY <1>1, HeadOfQueue, ItemShapes

LEMMA LoginType == ASSUME TypeOK, [Next]_vars PROVE rtm' \in Login
<1>1. rtm \in Login /\ job.join \in BOOLEAN
  BY DEF TypeOK, Login
<1>2. CASE DoLogin
  <2>1. Head(queue).user \in Accounts \cup {None}
    BY <1>2, CommandNames DEF DoLogin, Commands
  <2> QED
    BY <1>1, <1>2, <2>1 DEF DoLogin, RequestLogin, Login
<1>3. CASE DoJoin
  <2>1. Head(queue).user \in Accounts \cup {None}
    BY <1>3, CommandNames DEF DoJoin, Commands
  <2> QED
    BY <1>1, <1>3, <2>1 DEF DoJoin, RequestLogin, Login
<1>4. CASE AskLogin
  BY <1>1, <1>4, Initially DEF AskLogin, ClearLogin, Login
<1>5. CASE LoginConfirmed \/ DoLoginEvent
  BY <1>1, <1>5, Initially DEF LoginConfirmed, DoLoginEvent, ClearLogin, Login
<1>6. CASE DoInit \/ DoLeave \/ DoLogout \/ DoFini \/ LoginRefused \/ LoginTimesOut
           \/ SubscribeRejected \/ AskSub \/ SubRefused \/ ConnectFails \/ DoLoginEnded
  <2>1. rtm' \in {rtm, NoLogin}
    BY <1>6, LogoutLeaves DEF DoInit, DoLeave, DoLogout, DoFini, LoginRefused, LoginTimesOut,
       SubscribeRejected, AskSub, SubRefused, ConnectFails, DoLoginEnded, ClearLogin, Leave,
       FiniSucceeds, FiniFails, Unsubscribe, Abandon
  <2> QED
    BY <1>1, <2>1, Initially
<1>7. CASE Caller \/ Forward \/ Library \/ UNCHANGED vars
  BY <1>1, <1>7 DEF Caller, CallInit, CallJoin, CallLeave, CallLogin, CallLogout, CallFini, Call,
     Forward, RaiseFlag, PostAnswer, Library, Answer, EndLogin, ReportConn, vars
<1>8. CASE Subscribe \/ SubConfirmed \/ Connect \/ DoSubEvent \/ DoConnEvent
  BY <1>1, <1>8 DEF Subscribe, SubConfirmed, Connect, DoSubEvent, DoConnEvent
<1> QED
  BY <1>2, <1>3, <1>4, <1>5, <1>6, <1>7, <1>8 DEF Next, Worker, Commanded, Joining, Notified

LEMMA SubType == ASSUME TypeOK, [Next]_vars PROVE chan' \in Sub
<1>1. chan \in Sub /\ job.channel \in Channels \cup {None}
  BY DEF TypeOK, Sub
<1>2. CASE Subscribe \/ SubConfirmed
  BY <1>1, <1>2 DEF Subscribe, SubConfirmed, Sub
<1>3. CASE AskSub
  BY <1>1, <1>3, LogoutLeaves, Initially DEF AskSub, Abandon, Sub
<1>4. CASE DoSubEvent
  <2>1. Head(queue).ok \in BOOLEAN
    BY <1>4, HeadOfQueue, ItemShapes DEF DoSubEvent, Takes
  <2> QED
    BY <1>1, <1>4, <2>1 DEF DoSubEvent, Sub
<1>5. CASE DoInit \/ DoLeave \/ DoLogout \/ DoFini \/ LoginRefused \/ LoginTimesOut \/ AskLogin
           \/ SubscribeRejected \/ SubRefused \/ ConnectFails \/ DoLoginEnded \/ DoLoginEvent
  <2>1. chan' \in {chan, NoSub}
    BY <1>5, LogoutLeaves DEF DoInit, DoLeave, DoLogout, DoFini, LoginRefused, LoginTimesOut,
       AskLogin, SubscribeRejected, SubRefused, ConnectFails, DoLoginEnded, DoLoginEvent,
       ClearLogin, ClearSub, Leave, FiniSucceeds, FiniFails, Unsubscribe, Abandon
  <2> QED
    BY <1>1, <2>1, Initially
<1>6. CASE Caller \/ Forward \/ Library \/ UNCHANGED vars
  BY <1>1, <1>6 DEF Caller, CallInit, CallJoin, CallLeave, CallLogin, CallLogout, CallFini, Call,
     Forward, RaiseFlag, PostAnswer, Library, Answer, EndLogin, ReportConn, vars
<1>7. CASE DoJoin \/ DoLogin \/ LoginConfirmed \/ Connect \/ DoConnEvent
  BY <1>1, <1>7 DEF DoJoin, DoLogin, LoginConfirmed, Connect, DoConnEvent
<1> QED
  BY <1>2, <1>3, <1>4, <1>5, <1>6, <1>7 DEF Next, Worker, Commanded, Joining, Notified

LEMMA JobType == ASSUME TypeOK, [Next]_vars PROVE job' \in Job /\ caller' \in {"free", "waiting"}
<1>1. job \in Job /\ caller \in {"free", "waiting"}
  BY DEF TypeOK, Job
<1>2. CASE DoJoin
  <2>1. Head(queue).user \in Accounts \cup {None} /\ Head(queue).channel \in Channels \cup {None}
    BY <1>2, CommandNames DEF DoJoin, Commands
  <2> QED
    BY <1>1, <1>2, <2>1, Initially DEF DoJoin, Return, NoJob, Job
<1>3. CASE DoLogin
  <2>1. Head(queue).user \in Accounts \cup {None}
    BY <1>3, CommandNames DEF DoLogin, Commands
  <2> QED
    BY <1>1, <1>3, <2>1, Initially DEF DoLogin, Return, NoJob, Job
<1>4. CASE Joining
  <2>1. \/ Return
        \/ job' = [job EXCEPT !.at = "askSub", !.sub = TRUE] /\ caller' = caller
        \/ /\ caller' = caller
           /\ \E at \in {"waitLogin", "subscribe", "waitSub", "connect"} : job' = [job EXCEPT !.at = at]
    BY <1>4 DEF Joining, AskLogin, LoginConfirmed, LoginRefused, LoginTimesOut, Subscribe,
       SubscribeRejected, AskSub, SubConfirmed, SubRefused, Connect, ConnectFails, Abandon
  <2> QED
    BY <1>1, <2>1, Initially DEF Return, Job
<1>5. CASE DoInit \/ DoLeave \/ DoLogout \/ DoFini
  BY <1>1, <1>5, Initially DEF DoInit, DoLeave, DoLogout, DoFini, Return
<1>6. CASE Caller \/ Notified \/ Forward \/ Library \/ UNCHANGED vars
  BY <1>1, <1>6 DEF Caller, CallInit, CallJoin, CallLeave, CallLogin, CallLogout, CallFini, Call,
     Notified, DoLoginEvent, DoLoginEnded, DoSubEvent, DoConnEvent,
     Forward, RaiseFlag, PostAnswer, Library, Answer, EndLogin, ReportConn, vars
<1> QED
  BY <1>2, <1>3, <1>4, <1>5, <1>6 DEF Next, Worker, Commanded

LEMMA FlagType ==
  ASSUME TypeOK, [Next]_vars
  PROVE  gen' \in [login : Nat, sub : Nat] /\ loginFlag' \in Flag /\ subFlag' \in Flag
<1>1. /\ gen \in [login : Nat, sub : Nat] /\ loginFlag \in Flag /\ subFlag \in Flag
      /\ callback.at = "flag" => callback.ok \in BOOLEAN
  BY DEF TypeOK, NoCallback
<1>2. CASE DoJoin \/ DoLogin \/ Subscribe
  BY <1>1, <1>2 DEF DoJoin, DoLogin, RequestLogin, Subscribe
<1>3. CASE AskLogin
  <2>1. Reset(loginFlag, gen.login) \in Flag
    BY <1>1 DEF Reset, Flag
  <2> QED
    BY <1>1, <1>3, <2>1 DEF AskLogin
<1>7. CASE AskSub
  <2>1. Reset(subFlag, gen.sub) \in Flag
    BY <1>1 DEF Reset, Flag
  <2> QED
    BY <1>1, <1>7, <2>1 DEF AskSub
<1>6. CASE RaiseFlag
  BY <1>1, <1>6 DEF RaiseFlag, Flag
<1>4. CASE LoginConfirmed \/ LoginRefused \/ LoginTimesOut \/ SubscribeRejected \/ SubConfirmed
           \/ SubRefused \/ Connect \/ ConnectFails \/ Notified
           \/ DoInit \/ DoLeave \/ DoLogout \/ DoFini
  BY <1>1, <1>4 DEF LoginConfirmed, LoginRefused, LoginTimesOut, SubscribeRejected, SubConfirmed,
     SubRefused, Connect, ConnectFails, DoInit, DoLeave, DoLogout, DoFini,
     Notified, DoLoginEvent, DoLoginEnded, DoSubEvent, DoConnEvent
<1>5. CASE Caller \/ PostAnswer \/ Library \/ UNCHANGED vars
  BY <1>1, <1>5 DEF Caller, CallInit, CallJoin, CallLeave, CallLogin, CallLogout, CallFini, Call,
     PostAnswer, Library, Answer, EndLogin, ReportConn, vars
<1> QED
  BY <1>2, <1>3, <1>4, <1>5, <1>6, <1>7 DEF Next, Worker, Commanded, Joining, Forward

\* The wrapper's call and the connections of the library.
CallOK == /\ state \in States /\ conn \in Nat /\ live \subseteq Nat /\ joined \subseteq Nat
          /\ lastConn \in Nat
GateOK == open \in BOOLEAN /\ enabled \in BOOLEAN /\ service \in BOOLEAN /\ logoutIsFinal \in BOOLEAN

LEMMA CallType == ASSUME TypeOK, [Next]_vars PROVE CallOK'
<1>1. CallOK
  BY DEF TypeOK, CallOK
<1> "idle" \in States /\ "initialized" \in States /\ "connecting" \in States /\ "error" \in States
  BY DEF States, InCall
<1>2. CASE DoInit
  BY <1>1, <1>2 DEF DoInit, CallOK
<1>9. CASE DoLeave
  <2>1. CASE conn = 0
    BY <1>1, <1>9, <2>1 DEF DoLeave, Leave, CallOK
  <2>2. CASE conn # 0
    <3>1. /\ conn' = 0 /\ Destroy(conn)
          /\ UNCHANGED <<joined, lastConn>>
      BY <1>9, <2>2 DEF DoLeave, Leave
    <3> QED
      BY <1>1, <3>1 DEF Destroy, CallOK
  <2> QED
    BY <2>1, <2>2
<1>10. CASE DoFini
  <2>1. CASE FiniSucceeds
    <3>1. /\ state' \in {state, "idle"} /\ conn' \in {conn, 0} /\ live' \in {live, {}}
          /\ joined' = joined /\ lastConn' = lastConn
      BY <2>1 DEF FiniSucceeds
    <3> QED
      BY <1>1, <3>1 DEF CallOK
  <2>2. CASE FiniFails
    BY <1>1, <1>10, <2>2 DEF FiniFails, CallOK
  <2> QED
    BY <1>10, <2>1, <2>2 DEF DoFini
<1>3. CASE Connect \/ ConnectFails
  <2>1. lastConn + 1 \in Nat
    BY <1>1 DEF CallOK
  <2> QED
    BY <1>1, <1>3, <2>1 DEF Connect, ConnectFails, CallOK
<1>4. CASE DoConnEvent
  BY <1>1, <1>4 DEF DoConnEvent, ConnEvent, ConnEvents, StateAfter, CallOK, States, InCall
<1>5. CASE ReportConn
  BY <1>1, <1>5 DEF ReportConn, CallOK
<1>6. CASE DoJoin \/ DoLogin \/ DoLogout
  BY <1>1, <1>6 DEF DoJoin, DoLogin, DoLogout, CallOK
<1>7. CASE AskLogin \/ LoginConfirmed \/ LoginRefused \/ LoginTimesOut \/ Subscribe
           \/ SubscribeRejected \/ AskSub \/ SubConfirmed \/ SubRefused
  BY <1>1, <1>7 DEF AskLogin, LoginConfirmed, LoginRefused, LoginTimesOut, Subscribe,
     SubscribeRejected, AskSub, SubConfirmed, SubRefused, CallOK
<1>8. CASE Caller \/ Forward \/ Answer \/ EndLogin \/ UNCHANGED vars \/ DoLoginEvent
           \/ DoLoginEnded \/ DoSubEvent
  BY <1>1, <1>8 DEF Caller, CallInit, CallJoin, CallLeave, CallLogin, CallLogout, CallFini, Call,
     Forward, RaiseFlag, PostAnswer, Answer, EndLogin, DoLoginEvent, DoLoginEnded, DoSubEvent,
     vars, CallOK
<1> QED
  BY <1>2, <1>3, <1>4, <1>5, <1>6, <1>7, <1>8, <1>9, <1>10
  DEF Next, Worker, Commanded, Joining, Notified, Library

LEMMA GateType == ASSUME TypeOK, [Next]_vars PROVE GateOK'
<1>1. GateOK
  BY DEF TypeOK, GateOK
<1>2. CASE DoInit \/ DoFini
  BY <1>1, <1>2 DEF DoInit, DoFini, FiniSucceeds, FiniFails, GateOK
<1>3. CASE Joining
  BY <1>1, <1>3 DEF Joining, AskLogin, LoginConfirmed, LoginRefused, LoginTimesOut,
     Subscribe, SubscribeRejected, AskSub, SubConfirmed, SubRefused, Connect, ConnectFails, GateOK
<1>4. CASE DoJoin \/ DoLogin \/ DoLogout \/ DoLeave \/ Notified
  BY <1>1, <1>4 DEF DoJoin, DoLogin, DoLogout, DoLeave, Notified, DoLoginEvent, DoLoginEnded,
     DoSubEvent, DoConnEvent, GateOK
<1>5. CASE Caller
  BY <1>1, <1>5 DEF Caller, CallInit, CallJoin, CallLeave, CallLogin, CallLogout, CallFini, Call,
     GateOK
<1>6. CASE Forward \/ Library \/ UNCHANGED vars
  BY <1>1, <1>6 DEF Forward, RaiseFlag, PostAnswer, Library, Answer, EndLogin, ReportConn, vars,
     GateOK
<1> QED
  BY <1>2, <1>3, <1>4, <1>5, <1>6 DEF Next, Worker, Commanded

\* What the library has still to say, and what it has said.
LibraryOK == asked \subseteq Asked /\ session \in Asked \cup {NoSession} /\ granted \subseteq Asked
CallbackOK == callback \in {NoCallback} \cup [at : {"flag", "post"}, of : Asked, ok : BOOLEAN]

LEMMA LibraryType == ASSUME TypeOK, NamesFit, JobFits, [Next]_vars PROVE LibraryOK' /\ CallbackOK'
<1>1. LibraryOK /\ CallbackOK
  BY DEF TypeOK, LibraryOK, CallbackOK
<1>2. CASE AskLogin \/ AskSub
  <2>1. gen.login \in Nat /\ gen.sub \in Nat
    BY DEF TypeOK
  <2>2. CASE AskLogin
    <3>1. rtm.uid \in Accounts
      BY <2>2 DEF AskLogin, NamesFit, JobFits
    <3>2. [type |-> "login", key |-> rtm.uid, serial |-> gen.login] \in Asked
      BY <2>1, <3>1 DEF Asked
    <3> QED
      BY <1>1, <2>2, <3>2 DEF AskLogin, LibraryOK, CallbackOK
  <2>3. CASE AskSub
    <3>1. chan.name \in Channels
      BY <2>3 DEF AskSub, NamesFit, JobFits
    <3>2. [type |-> "sub", key |-> chan.name, serial |-> gen.sub] \in Asked
      BY <2>1, <3>1 DEF Asked
    <3> QED
      BY <1>1, <2>3, <3>2, LogoutLeaves DEF AskSub, Abandon, LibraryOK, CallbackOK
  <2> QED
    BY <1>2, <2>2, <2>3
<1>3. CASE Answer
  <2>1. PICK a \in asked, ok \in BOOLEAN :
          /\ asked' = asked \ {a}
          /\ granted' = IF ok THEN granted \cup {a} ELSE granted
          /\ session' = IF ok /\ a.type = "login" THEN a ELSE session
          /\ callback' = IF Accepts(a) THEN [at |-> "flag", of |-> a, ok |-> ok] ELSE NoCallback
    BY <1>3 DEF Answer
  <2>2. a \in Asked
    BY <1>1, <2>1 DEF LibraryOK
  <2>3. LibraryOK'
    BY <1>1, <2>1, <2>2 DEF LibraryOK
  <2>4. CallbackOK'
    BY <2>1, <2>2 DEF CallbackOK
  <2> QED
    BY <2>3, <2>4
<1>4. CASE EndLogin
  <2>1. LibraryOK'
    BY <1>1, <1>4 DEF EndLogin, LibraryOK
  <2>2. session \in Asked
    BY <1>1, <1>4 DEF EndLogin, LibraryOK
  <2>3. [session EXCEPT !.type = "ended"] \in Asked
    BY <2>2 DEF Asked
  <2>4. CallbackOK'
    BY <1>4, <2>3 DEF EndLogin, CallbackOK
  <2> QED
    BY <2>1, <2>4
<1>5. CASE RaiseFlag \/ PostAnswer
  <2>1. LibraryOK'
    BY <1>1, <1>5 DEF RaiseFlag, PostAnswer, LibraryOK
  <2>2. CASE RaiseFlag
    <3>1. callback \in [at : {"flag", "post"}, of : Asked, ok : BOOLEAN]
      BY <1>1, <2>2 DEF RaiseFlag, CallbackOK, NoCallback
    <3> QED
      BY <2>1, <2>2, <3>1 DEF RaiseFlag, CallbackOK
  <2>3. CASE PostAnswer
    BY <2>1, <2>3 DEF PostAnswer, CallbackOK
  <2> QED
    BY <1>5, <2>2, <2>3
<1>6. CASE DoLeave \/ DoLogout \/ DoFini
  <2>1. /\ asked' \in {asked, {}} /\ granted' \in {granted, {}} /\ session' \in {session, NoSession}
        /\ UNCHANGED callback
    BY <1>6, LogoutLeaves DEF DoLeave, DoLogout, DoFini, Leave, FiniSucceeds, FiniFails, Unsubscribe
  <2> QED
    BY <1>1, <2>1 DEF LibraryOK, CallbackOK
<1>7. CASE LoginTimesOut \/ SubscribeRejected \/ SubRefused \/ ConnectFails
  <2>1. /\ asked' \in {asked, {}} /\ granted' \in {granted, {}} /\ session' \in {session, NoSession}
        /\ UNCHANGED callback
    BY <1>7, LogoutLeaves DEF LoginTimesOut, SubscribeRejected, SubRefused, ConnectFails, Abandon
  <2> QED
    BY <1>1, <2>1 DEF LibraryOK, CallbackOK
<1>8. CASE DoInit \/ DoJoin \/ DoLogin \/ LoginConfirmed \/ LoginRefused \/ Subscribe
           \/ SubConfirmed \/ Connect
  BY <1>1, <1>8 DEF DoInit, DoJoin, DoLogin, LoginConfirmed, LoginRefused, Subscribe,
     SubConfirmed, Connect, LibraryOK, CallbackOK
<1>9. CASE Caller \/ Notified \/ ReportConn \/ UNCHANGED vars
  BY <1>1, <1>9 DEF Caller, CallInit, CallJoin, CallLeave, CallLogin, CallLogout, CallFini, Call,
     Notified, DoLoginEvent, DoLoginEnded, DoSubEvent, DoConnEvent, ReportConn, vars,
     LibraryOK, CallbackOK
<1> QED
  BY <1>2, <1>3, <1>4, <1>5, <1>6, <1>7, <1>8, <1>9
  DEF Next, Worker, Commanded, Joining, Forward, Library

LEMMA TypeStep == ASSUME TypeOK, NamesFit, JobFits, [Next]_vars PROVE TypeOK'
BY QueueType, LoginType, SubType, JobType, FlagType, CallType, GateType, LibraryType
DEF TypeOK, Login, Sub, Job, CallOK, GateOK, LibraryOK, CallbackOK

-----------------------------------------------------------------------------
(* Names                                                                     *)

LEMMA NewCommandsAreNamed ==
  ASSUME TypeOK, NamesFit, [Next]_vars, NEW i \in 1..Len(queue')
  PROVE  /\ queue'[i].type \in {"join", "login"} => queue'[i].user \in Accounts
         /\ queue'[i].type = "join" => queue'[i].channel \in Channels
<1>1. CASE queue'[i] \in Addable
  BY <1>1 DEF Addable
<1>2. CASE \E k \in 1..Len(queue) : queue'[i] = queue[k]
  BY <1>2 DEF NamesFit
<1> QED
  BY <1>1, <1>2, QueueItems

\* What nobody has requested, and no job.
LEMMA Nothing ==
  /\ ~NoLogin.requested /\ ~NoLogin.owned /\ ~NoSub.requested
  /\ NoJob.at = "idle" /\ ~NoJob.join /\ ~NoJob.login /\ ~NoJob.sub
BY DEF NoLogin, NoSub, NoJob

\* Who requests, completes and withdraws a login.
LEMMA LoginSteps ==
  ASSUME TypeOK, [Next]_vars
  PROVE  \/ rtm' = rtm
         \/ rtm' = NoLogin
         \/ /\ DoLogin \/ DoJoin
            /\ ~rtm.requested
            /\ rtm' = [rtm EXCEPT !.requested = TRUE, !.uid = Head(queue).user, !.owned = FALSE]
         \/ AskLogin /\ rtm' = [rtm EXCEPT !.completed = FALSE, !.ok = FALSE, !.owned = job.join]
         \/ rtm' = [rtm EXCEPT !.completed = TRUE, !.ok = TRUE]
<1>1. CASE DoLogin \/ DoJoin
  BY <1>1 DEF DoLogin, DoJoin, RequestLogin
<1>2. CASE AskLogin \/ LoginConfirmed \/ DoLoginEvent
  BY <1>2 DEF AskLogin, LoginConfirmed, DoLoginEvent, ClearLogin
<1>3. CASE DoInit \/ DoLeave \/ DoLogout \/ DoFini \/ LoginRefused \/ LoginTimesOut
           \/ SubscribeRejected \/ AskSub \/ SubRefused \/ ConnectFails \/ DoLoginEnded
  BY <1>3, LogoutLeaves DEF DoInit, DoLeave, DoLogout, DoFini, LoginRefused, LoginTimesOut,
     SubscribeRejected, AskSub, SubRefused, ConnectFails, DoLoginEnded, ClearLogin, Leave,
     FiniSucceeds, FiniFails, Unsubscribe, Abandon
<1>4. CASE Caller \/ Forward \/ Library \/ UNCHANGED vars
  BY <1>4 DEF Caller, CallInit, CallJoin, CallLeave, CallLogin, CallLogout, CallFini, Call,
     Forward, RaiseFlag, PostAnswer, Library, Answer, EndLogin, ReportConn, vars
<1>5. CASE Subscribe \/ SubConfirmed \/ Connect \/ DoSubEvent \/ DoConnEvent
  BY <1>5 DEF Subscribe, SubConfirmed, Connect, DoSubEvent, DoConnEvent
<1> QED
  BY <1>1, <1>2, <1>3, <1>4, <1>5 DEF Next, Worker, Commanded, Joining, Notified

LEMMA NewLoginIsNamed ==
  ASSUME TypeOK, NamesFit, [Next]_vars
  PROVE  rtm'.requested => rtm'.uid \in Accounts
<1>1. rtm \in Login /\ (rtm.requested => rtm.uid \in Accounts)
  BY DEF TypeOK, Login, NamesFit
<1>2. CASE /\ DoLogin \/ DoJoin
           /\ rtm' = [rtm EXCEPT !.requested = TRUE, !.uid = Head(queue).user, !.owned = FALSE]
  <2>1. Head(queue).user \in Accounts
    BY <1>2, HeadOfQueue DEF DoLogin, DoJoin, Takes, NamesFit
  <2> QED
    BY <1>1, <1>2, <2>1 DEF Login
<1>3. CASE rtm' = [rtm EXCEPT !.completed = FALSE, !.ok = FALSE, !.owned = job.join]
  BY <1>1, <1>3 DEF Login
<1>4. CASE rtm' = [rtm EXCEPT !.completed = TRUE, !.ok = TRUE]
  BY <1>1, <1>4 DEF Login
<1>5. CASE rtm' = rtm
  BY <1>1, <1>5
<1>6. CASE rtm' = NoLogin
  BY <1>6, Nothing
<1> QED
  BY <1>2, <1>3, <1>4, <1>5, <1>6, LoginSteps

\* Who requests, completes and withdraws a subscription.
LEMMA SubSteps ==
  ASSUME TypeOK, [Next]_vars
  PROVE  \/ chan' = chan
         \/ chan' = NoSub
         \/ Subscribe /\ chan' = [chan EXCEPT !.requested = TRUE, !.name = job.channel]
         \/ AskSub /\ chan' = [chan EXCEPT !.completed = FALSE, !.ok = FALSE]
         \/ SubConfirmed
         \/ DoSubEvent /\ chan' = [chan EXCEPT !.completed = TRUE, !.ok = Head(queue).ok]
<1>1. CASE Subscribe \/ AskSub \/ SubConfirmed
  BY <1>1, LogoutLeaves DEF Subscribe, AskSub, Abandon
<1>2. CASE DoSubEvent
  BY <1>2 DEF DoSubEvent
<1>3. CASE DoInit \/ DoLeave \/ DoLogout \/ DoFini \/ LoginRefused \/ LoginTimesOut \/ AskLogin
           \/ SubscribeRejected \/ SubRefused \/ ConnectFails \/ DoLoginEnded \/ DoLoginEvent
  BY <1>3, LogoutLeaves DEF DoInit, DoLeave, DoLogout, DoFini, LoginRefused, LoginTimesOut,
     AskLogin, SubscribeRejected, SubRefused, ConnectFails, DoLoginEnded, DoLoginEvent,
     ClearLogin, ClearSub, Leave, FiniSucceeds, FiniFails, Unsubscribe, Abandon
<1>4. CASE Caller \/ Forward \/ Library \/ UNCHANGED vars
  BY <1>4 DEF Caller, CallInit, CallJoin, CallLeave, CallLogin, CallLogout, CallFini, Call,
     Forward, RaiseFlag, PostAnswer, Library, Answer, EndLogin, ReportConn, vars
<1>5. CASE DoJoin \/ DoLogin \/ LoginConfirmed \/ Connect \/ DoConnEvent
  BY <1>5 DEF DoJoin, DoLogin, LoginConfirmed, Connect, DoConnEvent
<1> QED
  BY <1>1, <1>2, <1>3, <1>4, <1>5 DEF Next, Worker, Commanded, Joining, Notified

LEMMA NewSubIsNamed ==
  ASSUME TypeOK, NamesFit, [Next]_vars
  PROVE  chan'.requested => chan'.name \in Channels
<1>1. chan \in Sub /\ (chan.requested => chan.name \in Channels)
  BY DEF TypeOK, Sub, NamesFit
<1>2. CASE Subscribe
  <2>1. job.channel \in Channels
    BY <1>2 DEF Subscribe, NamesFit
  <2> QED
    BY <1>1, <1>2, <2>1 DEF Subscribe, Sub
<1>3. CASE chan' = NoSub
  BY <1>3 DEF NoSub
<1>4. CASE chan' = chan
  BY <1>1, <1>4
<1>5. CASE chan' = [chan EXCEPT !.completed = FALSE, !.ok = FALSE] \/ SubConfirmed
           \/ chan' = [chan EXCEPT !.completed = TRUE, !.ok = Head(queue).ok]
  BY <1>1, <1>5 DEF SubConfirmed, Sub
<1> QED
  BY <1>2, <1>3, <1>4, <1>5, SubSteps

\* Who starts a job on the RTC worker, moves it on and ends it.
LEMMA JobSteps ==
  ASSUME TypeOK, [Next]_vars
  PROVE  \/ job' = job /\ (Caller \/ Notified \/ Forward \/ Library \/ UNCHANGED vars)
         \/ job' = NoJob
         \/ DoLogin /\ job' = [NoJob EXCEPT !.at = "askLogin", !.user = Head(queue).user]
         \/ DoJoin /\ job' \in Job /\ job'.join /\ job'.channel = Head(queue).channel
                   /\ \/ job'.at = "waitLogin" /\ ~job'.login
                      \/ job'.at = "askLogin" /\ job'.login
         \/ AskLogin /\ job.join /\ job' = [job EXCEPT !.at = "waitLogin"]
         \/ LoginConfirmed /\ job' = [job EXCEPT !.at = "subscribe"]
         \/ Subscribe /\ job' = [job EXCEPT !.at = "askSub", !.sub = TRUE]
         \/ Subscribe /\ job' = [job EXCEPT !.at = "waitSub"]
         \/ AskSub /\ job' = [job EXCEPT !.at = "waitSub"]
         \/ SubConfirmed /\ job' = [job EXCEPT !.at = "connect"]
<1>1. CASE Joining
  BY <1>1 DEF Joining, AskLogin, LoginConfirmed, LoginRefused, LoginTimesOut, Subscribe,
     SubscribeRejected, AskSub, SubConfirmed, SubRefused, Connect, ConnectFails, Abandon, Return
<1>2. CASE DoJoin
  <2> QED
    BY <1>2, JobType DEF DoJoin, Return, NoJob, Job
<1>3. CASE DoLogin
  BY <1>3 DEF DoLogin, Return
<1>4. CASE DoInit \/ DoLeave \/ DoLogout \/ DoFini
  BY <1>4 DEF DoInit, DoLeave, DoLogout, DoFini, Return
<1>5. CASE Caller \/ Notified \/ Forward \/ Library \/ UNCHANGED vars
  BY <1>5 DEF Caller, CallInit, CallJoin, CallLeave, CallLogin, CallLogout, CallFini, Call,
     Notified, DoLoginEvent, DoLoginEnded, DoSubEvent, DoConnEvent,
     Forward, RaiseFlag, PostAnswer, Library, Answer, EndLogin, ReportConn, vars
<1> QED
  BY <1>1, <1>2, <1>3, <1>4, <1>5 DEF Next, Worker, Commanded

LEMMA NewJobIsNamed ==
  ASSUME TypeOK, NamesFit, [Next]_vars
  PROVE  /\ job'.at \in {"waitLogin", "subscribe"} => job'.join
         /\ job'.join => job'.channel \in Channels
<1>1. job \in Job /\ (job.at \in {"waitLogin", "subscribe"} => job.join)
      /\ (job.join => job.channel \in Channels)
  BY DEF TypeOK, Job, NamesFit
<1>2. CASE job' = job
  BY <1>1, <1>2
<1>3. CASE job' = NoJob
  BY <1>3, Nothing
<1>4. CASE DoLogin /\ job' = [NoJob EXCEPT !.at = "askLogin", !.user = Head(queue).user]
  BY <1>4 DEF NoJob
<1>5. CASE DoJoin /\ job' \in Job /\ job'.join /\ job'.channel = Head(queue).channel
  <2>1. Head(queue).channel \in Channels
    BY <1>5, HeadOfQueue DEF DoJoin, Takes, NamesFit
  <2> QED
    BY <1>5, <2>1
<1>6. CASE AskLogin /\ job.join /\ job' = [job EXCEPT !.at = "waitLogin"]
  BY <1>1, <1>6 DEF Job
<1>7. CASE LoginConfirmed /\ job' = [job EXCEPT !.at = "subscribe"]
  BY <1>1, <1>7 DEF Job, LoginConfirmed
<1>8. CASE \/ job' = [job EXCEPT !.at = "askSub", !.sub = TRUE]
           \/ job' = [job EXCEPT !.at = "waitSub"]
           \/ job' = [job EXCEPT !.at = "connect"]
  BY <1>1, <1>8 DEF Job
<1> QED
  BY <1>2, <1>3, <1>4, <1>5, <1>6, <1>7, <1>8, JobSteps

\* Who asks the library, and what takes its answers away.
LEMMA AskedSteps ==
  ASSUME TypeOK, [Next]_vars
  PROVE  \/ asked' \subseteq asked
         \/ AskLogin /\ asked' = asked \cup {[type |-> "login", key |-> rtm.uid, serial |-> gen.login]}
         \/ /\ AskSub /\ granted' = granted /\ job' = [job EXCEPT !.at = "waitSub"]
            /\ chan' = [chan EXCEPT !.completed = FALSE, !.ok = FALSE]
            /\ asked' = asked \cup {[type |-> "sub", key |-> chan.name, serial |-> gen.sub]}
<1>1. CASE AskLogin \/ AskSub
  BY <1>1, LogoutLeaves DEF AskLogin, AskSub, Abandon
<1>2. CASE DoLeave \/ DoLogout \/ DoFini \/ LoginTimesOut \/ SubscribeRejected \/ SubRefused
           \/ ConnectFails
  <2>1. asked' \in {asked, {}}
    BY <1>2, LogoutLeaves DEF DoLeave, DoLogout, DoFini, Leave, FiniSucceeds, FiniFails,
       Unsubscribe, LoginTimesOut, SubscribeRejected, SubRefused, ConnectFails, Abandon
  <2> QED
    BY <2>1
<1>3. CASE Answer
  BY <1>3 DEF Answer
<1>4. CASE DoInit \/ DoJoin \/ DoLogin \/ LoginConfirmed \/ LoginRefused \/ Subscribe
           \/ SubConfirmed \/ Connect
  BY <1>4 DEF DoInit, DoJoin, DoLogin, LoginConfirmed, LoginRefused, Subscribe,
     SubConfirmed, Connect
<1>5. CASE Caller \/ Notified \/ Forward \/ ReportConn \/ EndLogin \/ UNCHANGED vars
  BY <1>5 DEF Caller, CallInit, CallJoin, CallLeave, CallLogin, CallLogout, CallFini, Call,
     Notified, DoLoginEvent, DoLoginEnded, DoSubEvent, DoConnEvent, ReportConn, EndLogin,
     Forward, RaiseFlag, PostAnswer, vars
<1> QED
  BY <1>1, <1>2, <1>3, <1>4, <1>5 DEF Next, Worker, Commanded, Joining, Library

\* Who starts and ends a callback.
LEMMA CallbackSteps ==
  ASSUME TypeOK, [Next]_vars
  PROVE  \/ callback' = callback
         \/ callback' = NoCallback
         \/ /\ Answer
            /\ \E a \in asked, ok \in BOOLEAN :
                 /\ Accepts(a) /\ callback' = [at |-> "flag", of |-> a, ok |-> ok]
                 /\ asked' = asked \ {a}
                 /\ granted' = IF ok THEN granted \cup {a} ELSE granted
         \/ callback.at # "flag" /\ callback'.at = "post"
         \/ RaiseFlag /\ callback'.at = "post"
<1>1. CASE Answer
  BY <1>1 DEF Answer
<1>2. CASE EndLogin
  BY <1>2 DEF EndLogin
<1>3. CASE RaiseFlag
  <2>1. callback \in [at : {"flag", "post"}, of : Asked, ok : BOOLEAN]
    BY <1>3 DEF RaiseFlag, TypeOK, NoCallback
  <2> QED
    BY <1>3, <2>1 DEF RaiseFlag
<1>4. CASE PostAnswer
  BY <1>4 DEF PostAnswer
<1>5. CASE Worker
  BY <1>5 DEF Worker, Commanded, Joining, DoInit, DoJoin, DoLeave, DoLogin, DoLogout,
     DoFini, AskLogin, LoginConfirmed, LoginRefused, LoginTimesOut, Subscribe, SubscribeRejected,
     AskSub, SubConfirmed, SubRefused, Connect, ConnectFails,
     Notified, DoLoginEvent, DoLoginEnded, DoSubEvent, DoConnEvent
<1>6. CASE Caller \/ ReportConn \/ UNCHANGED vars
  BY <1>6 DEF Caller, CallInit, CallJoin, CallLeave, CallLogin, CallLogout, CallFini, Call,
     ReportConn, vars
<1> QED
  BY <1>1, <1>2, <1>3, <1>4, <1>5, <1>6 DEF Next, Forward, Library

LEMMA NamesStep == ASSUME TypeOK, NamesFit, [Next]_vars PROVE NamesFit'
<1>1. \A a \in asked' : a.type \in {"login", "sub"}
  BY AskedSteps DEF NamesFit
<1>2. callback'.at = "flag" => callback'.of.type \in {"login", "sub"}
  <2>1. callback.at = "flag" => callback.of.type \in {"login", "sub"}
    BY DEF NamesFit
  <2>2. \A a \in asked : a.type \in {"login", "sub"}
    BY DEF NamesFit
  <2> QED
    BY <2>1, <2>2, CallbackSteps DEF NoCallback
<1> QED
  BY <1>1, <1>2, NewCommandsAreNamed, NewLoginIsNamed, NewSubIsNamed, NewJobIsNamed DEF NamesFit

-----------------------------------------------------------------------------
(* The job and the connections                                               *)

\* While a join or a login is in progress, only its own steps change the wrapper's state.
LEMMA OthersWait ==
  ASSUME Caller \/ Notified \/ Forward \/ Library \/ UNCHANGED vars
  PROVE  /\ job' = job /\ conn' = conn /\ live' = live /\ lastConn' = lastConn /\ service' = service
         /\ gen' = gen /\ logoutIsFinal' = logoutIsFinal
         /\ job.at # "idle" => state' = state /\ rtm' = rtm /\ chan' = chan
<1>1. CASE Caller
  BY <1>1 DEF Caller, CallInit, CallJoin, CallLeave, CallLogin, CallLogout, CallFini, Call
<1>2. CASE Notified
  BY <1>2 DEF Notified, DoLoginEvent, DoLoginEnded, DoSubEvent, DoConnEvent, Takes
<1>3. CASE Forward \/ Library \/ UNCHANGED vars
  BY <1>3 DEF Forward, RaiseFlag, PostAnswer, Library, Answer, EndLogin, ReportConn, vars
<1> QED
  BY <1>1, <1>2, <1>3

LEMMA JobStep == ASSUME RtcInv, [Next]_vars PROVE JobFits'
<1> USE DEF RtcInv
<1>1. JobFits /\ job \in Job /\ rtm \in Login /\ chan \in Sub
  BY DEF TypeOK, Job, Login, Sub
<1>2. CASE job' = job /\ (Caller \/ Notified \/ Forward \/ Library \/ UNCHANGED vars)
  BY <1>1, <1>2, OthersWait DEF JobFits
<1>3. CASE job' = NoJob
  BY <1>3, Nothing DEF JobFits
<1>4. CASE DoLogin /\ job' = [NoJob EXCEPT !.at = "askLogin", !.user = Head(queue).user]
  <2>1. /\ job'.at = "askLogin" /\ ~job'.login
    BY <1>4 DEF NoJob
  <2>2. RequestLogin(Head(queue).user) /\ conn' = conn
    BY <1>4, <2>1, Nothing DEF DoLogin, Return
  <2> QED
    BY <1>1, <2>1, <2>2 DEF RequestLogin, JobFits, Login
<1>5. CASE DoJoin /\ job'.join /\ job'.at = "waitLogin" /\ ~job'.login
  <2>1. rtm.requested /\ rtm' = rtm
    BY <1>5, Nothing DEF DoJoin, Return, NoJob
  <2> QED
    BY <1>1, <1>5, <2>1 DEF JobFits
<1>6. CASE DoJoin /\ job'.join /\ job'.at = "askLogin" /\ job'.login
  <2>1. RequestLogin(Head(queue).user) /\ conn' = conn
    BY <1>6, Nothing DEF DoJoin, Return, NoJob
  <2> QED
    BY <1>1, <1>6, <2>1 DEF RequestLogin, JobFits, Login
<1>7. CASE AskLogin /\ job.join /\ job' = [job EXCEPT !.at = "waitLogin"]
  <2>1. /\ job'.at = "waitLogin" /\ job'.login = job.login /\ conn' = conn
        /\ rtm' = [rtm EXCEPT !.completed = FALSE, !.ok = FALSE, !.owned = job.join]
    BY <1>1, <1>7, Nothing DEF AskLogin, Return, Job
  <2> QED
    BY <1>1, <1>7, <2>1 DEF AskLogin, JobFits, Login
<1>8. CASE LoginConfirmed /\ job' = [job EXCEPT !.at = "subscribe"]
  <2>1. job'.at = "subscribe" /\ job'.login = job.login
    BY <1>1, <1>8 DEF Job
  <2> QED
    BY <1>1, <1>8, <2>1 DEF LoginConfirmed, JobFits, Login
<1>9. CASE Subscribe /\ (\/ job' = [job EXCEPT !.at = "askSub", !.sub = TRUE]
                         \/ job' = [job EXCEPT !.at = "waitSub"])
  <2>1. /\ job'.at \in {"askSub", "waitSub"} /\ job'.login = job.login
        /\ state' = "initialized" /\ conn' = 0 /\ rtm' = rtm
    BY <1>1, <1>9 DEF Subscribe, CanJoin, Job
  <2>2. chan'.requested
    BY <1>1, <1>9 DEF Subscribe, Sub
  <2> QED
    BY <1>1, <1>9, <2>1, <2>2 DEF Subscribe, JobFits
<1>10. CASE AskSub /\ job' = [job EXCEPT !.at = "waitSub"]
  <2>1. /\ job'.at = "waitSub" /\ job'.login = job.login /\ UNCHANGED <<state, conn>>
        /\ rtm' = rtm /\ chan' = [chan EXCEPT !.completed = FALSE, !.ok = FALSE]
    BY <1>1, <1>10, Nothing DEF AskSub, Abandon, Return, Job
  <2> QED
    BY <1>1, <1>10, <2>1 DEF AskSub, JobFits, Sub
<1>11. CASE SubConfirmed /\ job' = [job EXCEPT !.at = "connect"]
  <2>1. job'.at = "connect" /\ job'.login = job.login
    BY <1>1, <1>11 DEF Job
  <2> QED
    BY <1>1, <1>11, <2>1 DEF SubConfirmed, JobFits, Sub
<1> QED
  BY <1>2, <1>3, <1>4, <1>5, <1>6, <1>7, <1>8, <1>9, <1>10, <1>11, JobSteps

\* Who opens and closes connections, and what becomes of the call.
LEMMA ConnSteps ==
  ASSUME RtcInv, [Next]_vars
  PROVE  \/ state' = state /\ conn' = conn /\ live' = live /\ lastConn' = lastConn /\ service' = service
         \/ /\ DoInit /\ state = "idle" /\ conn' = 0 /\ live' = live /\ lastConn' = lastConn
            /\ \/ state' = "initialized" /\ service' = TRUE
               \/ state' = state /\ service' = service
         \/ /\ DoLeave /\ conn # 0 /\ conn' = 0 /\ Destroy(conn) /\ lastConn' = lastConn
            /\ service' = service
         \/ /\ state' = "idle" /\ conn' = 0 /\ live' = {} /\ service' = FALSE /\ lastConn' = lastConn
         \/ /\ state' = "error" /\ conn' = 0 /\ live' \in {live, live \ {conn}} /\ state # "idle"
            /\ lastConn' = lastConn /\ service' = service
         \/ /\ job.at = "connect" /\ lastConn' = lastConn + 1 /\ service' = service
            /\ \/ state' = state /\ conn' = conn /\ live' = live
               \/ live' = live \cup {lastConn + 1} /\ state' = "error" /\ conn' = conn
               \/ live' = live \cup {lastConn + 1} /\ state' = "connecting" /\ conn' = lastConn + 1
         \/ /\ DoConnEvent /\ conn' = conn /\ live' = live /\ lastConn' = lastConn /\ service' = service
<1>1. CASE DoInit
  BY <1>1 DEF DoInit
<1>2. CASE DoLeave
  BY <1>2 DEF DoLeave, Leave
<1>3. CASE DoFini
  BY <1>3 DEF DoFini, FiniSucceeds, FiniFails
<1>4. CASE Connect \/ ConnectFails
  BY <1>4 DEF Connect, ConnectFails
<1>5. CASE DoConnEvent
  BY <1>5 DEF DoConnEvent
<1>6. CASE DoJoin \/ DoLogin \/ DoLogout \/ AskLogin \/ LoginConfirmed \/ LoginRefused
           \/ LoginTimesOut \/ Subscribe \/ SubscribeRejected \/ AskSub \/ SubConfirmed \/ SubRefused
  BY <1>6 DEF DoJoin, DoLogin, DoLogout, AskLogin, LoginConfirmed, LoginRefused, LoginTimesOut,
     Subscribe, SubscribeRejected, AskSub, SubConfirmed, SubRefused
<1>7. CASE DoLoginEvent \/ DoLoginEnded \/ DoSubEvent
  BY <1>7 DEF DoLoginEvent, DoLoginEnded, DoSubEvent
<1>8. CASE Caller \/ Forward \/ Library \/ UNCHANGED vars
  BY <1>8 DEF Caller, CallInit, CallJoin, CallLeave, CallLogin, CallLogout, CallFini, Call,
     Forward, RaiseFlag, PostAnswer, Library, Answer, EndLogin, ReportConn, vars
<1> QED
  BY <1>1, <1>2, <1>3, <1>4, <1>5, <1>6, <1>7, <1>8 DEF Next, Worker, Commanded, Joining, Notified

LEMMA JoinedGrows == ASSUME TypeOK, [Next]_vars PROVE joined \subseteq joined'
<1>1. CASE ReportConn
  BY <1>1 DEF ReportConn
<1>2. CASE DoInit \/ DoLeave \/ DoFini \/ Connect \/ ConnectFails
  BY <1>2 DEF DoInit, DoLeave, DoFini, Leave, FiniSucceeds, FiniFails, Connect, ConnectFails
<1>3. CASE DoJoin \/ DoLogin \/ DoLogout \/ AskLogin \/ LoginConfirmed \/ LoginRefused
           \/ LoginTimesOut \/ Subscribe \/ SubscribeRejected \/ AskSub \/ SubConfirmed \/ SubRefused
  BY <1>3 DEF DoJoin, DoLogin, DoLogout, AskLogin, LoginConfirmed, LoginRefused, LoginTimesOut,
     Subscribe, SubscribeRejected, AskSub, SubConfirmed, SubRefused
<1>4. CASE Caller \/ Notified \/ Forward \/ Answer \/ EndLogin \/ UNCHANGED vars
  BY <1>4 DEF Caller, CallInit, CallJoin, CallLeave, CallLogin, CallLogout, CallFini, Call,
     Notified, DoLoginEvent, DoLoginEnded, DoSubEvent, DoConnEvent,
     Forward, RaiseFlag, PostAnswer, Answer, EndLogin, vars
<1> QED
  BY <1>1, <1>2, <1>3, <1>4 DEF Next, Worker, Commanded, Joining, Library

\* A connection event reaches the call only if it is of the present connection, and one
\* that says "connected" is of a connection that has been joined.
LEMMA ConnEventFits ==
  ASSUME RtcInv, DoConnEvent
  PROVE  \/ state' = state
         \/ conn # 0 /\ state' \in InCall \cup {"error"} /\ (state' = "connected" => conn \in joined)
<1>1. PICK type \in ConnEvents : Takes(type) /\ ConnEvent(type)
  BY DEF DoConnEvent
<1>2. Head(queue) = queue[1] /\ 1 \in 1..Len(queue) /\ Head(queue).type = type
  BY <1>1, HeadOfQueue DEF Takes, RtcInv
<1>3. type = "joined" => Head(queue).conn \in joined
  BY <1>2 DEF RtcInv, LibraryFits
<1>4. StateAfter[type] \in InCall \cup {"error"} /\ (StateAfter[type] = "connected" => type = "joined")
  BY DEF StateAfter, ConnEvents, InCall
<1>5. state' = state \/ (conn # 0 /\ Head(queue).conn = conn /\ state' = StateAfter[type])
  BY <1>1 DEF ConnEvent
<1> QED
  BY <1>3, <1>4, <1>5

LEMMA ConnectionStep == ASSUME RtcInv, [Next]_vars PROVE LibraryFits' /\ ConnectionAgrees'
<1>1. /\ state \in States /\ conn \in Nat /\ lastConn \in Nat /\ LibraryFits /\ JobFits
      /\ OneConnection /\ StateFitsConnection /\ ConnectedMeansJoined
  BY DEF RtcInv, TypeOK, ConnectionAgrees
<1>2. joined \subseteq joined'
  BY JoinedGrows DEF RtcInv
<1>3. \A i \in 1..Len(queue') : queue'[i].type = "joined" => queue'[i].conn \in joined'
  <2>1. SUFFICES ASSUME NEW i \in 1..Len(queue'), queue'[i].type = "joined"
                 PROVE  queue'[i].conn \in joined'
    OBVIOUS
  <2>2. queue'[i] \in Addable \/ \E k \in 1..Len(queue) : queue'[i] = queue[k]
    BY QueueItems DEF RtcInv
  <2> QED
    BY <1>1, <1>2, <2>1, <2>2 DEF LibraryFits, Addable
<1>4. SUFFICES /\ (state' # "idle" => service') /\ live' \subseteq 1..lastConn'
               /\ OneConnection' /\ StateFitsConnection' /\ ConnectedMeansJoined'
  BY <1>3 DEF LibraryFits, ConnectionAgrees
<1>5. conn = 0 /\ state # "error" => live = {}
  BY <1>1 DEF OneConnection, LibraryFits
<1>6. CASE state' = state /\ conn' = conn /\ live' = live /\ lastConn' = lastConn /\ service' = service
  BY <1>1, <1>2, <1>6 DEF LibraryFits, OneConnection, StateFitsConnection, ConnectedMeansJoined
<1>7. CASE /\ state = "idle" /\ conn' = 0 /\ live' = live /\ lastConn' = lastConn
           /\ \/ state' = "initialized" /\ service' = TRUE
              \/ state' = state /\ service' = service
  <2>1. live = {}
    BY <1>1, <1>5, <1>7 DEF StateFitsConnection, InCall
  <2> QED
    BY <1>1, <1>7, <2>1 DEF LibraryFits, OneConnection, StateFitsConnection, ConnectedMeansJoined
<1>8. CASE conn # 0 /\ conn' = 0 /\ Destroy(conn) /\ lastConn' = lastConn /\ service' = service
  <2>1. live \subseteq {conn} /\ service
    BY <1>1, <1>8 DEF OneConnection, StateFitsConnection
  <2> QED
    BY <1>1, <1>8, <2>1
    DEF Destroy, LibraryFits, OneConnection, StateFitsConnection, ConnectedMeansJoined
<1>9. CASE state' = "idle" /\ conn' = 0 /\ live' = {} /\ service' = FALSE /\ lastConn' = lastConn
  BY <1>9 DEF OneConnection, StateFitsConnection, ConnectedMeansJoined
<1>10. CASE /\ state' = "error" /\ conn' = 0 /\ live' \in {live, live \ {conn}} /\ state # "idle"
            /\ lastConn' = lastConn /\ service' = service
  BY <1>1, <1>10 DEF LibraryFits, OneConnection, StateFitsConnection, ConnectedMeansJoined
<1>11. CASE /\ job.at = "connect" /\ lastConn' = lastConn + 1 /\ service' = service
            /\ \/ state' = state /\ conn' = conn /\ live' = live
               \/ live' = live \cup {lastConn + 1} /\ state' = "error" /\ conn' = conn
               \/ live' = live \cup {lastConn + 1} /\ state' = "connecting" /\ conn' = lastConn + 1
  <2>1. state = "initialized" /\ conn = 0 /\ service /\ live = {}
    BY <1>1, <1>5, <1>11 DEF JobFits, LibraryFits
  <2> QED
    BY <1>1, <1>11, <2>1
    DEF LibraryFits, OneConnection, StateFitsConnection, ConnectedMeansJoined, InCall
<1>12. CASE /\ DoConnEvent /\ conn' = conn /\ live' = live /\ lastConn' = lastConn
            /\ service' = service
  <2>1. \/ state' = state
        \/ conn # 0 /\ state' \in InCall \cup {"error"} /\ (state' = "connected" => conn \in joined)
    BY <1>12, ConnEventFits
  <2>2. CASE state' = state
    BY <1>1, <1>2, <1>12, <2>2
    DEF LibraryFits, OneConnection, StateFitsConnection, ConnectedMeansJoined
  <2>3. CASE conn # 0 /\ state' \in InCall \cup {"error"} /\ (state' = "connected" => conn \in joined)
    <3>1. live \subseteq {conn} /\ conn \in live /\ service
      BY <1>1, <2>3 DEF OneConnection, StateFitsConnection
    <3> QED
      BY <1>1, <1>2, <1>12, <2>3, <3>1
      DEF LibraryFits, OneConnection, StateFitsConnection, ConnectedMeansJoined
  <2> QED
    BY <2>1, <2>2, <2>3
<1> QED
  BY <1>6, <1>7, <1>8, <1>9, <1>10, <1>11, <1>12, ConnSteps

-----------------------------------------------------------------------------
(* The answers of the library                                                *)

\* A session goes on, keeping what it has granted, or it is over: then nothing is
\* requested or outstanding any more, and no job is in progress.
SessionOver ==
  asked' = {} /\ callback'.at = "idle" /\ job'.at = "idle" /\ ~rtm'.requested /\ ~chan'.requested

LEMMA LogoutEndsSession ==
  ASSUME logoutIsFinal, Logout
  PROVE  \/ granted' = granted
         \/ asked' = {} /\ callback.at = "idle" /\ ~rtm'.requested /\ ~chan'.requested
BY LogoutLeaves, Nothing

LEMMA SessionSteps ==
  ASSUME RtcInv, logoutIsFinal, [Next]_vars
  PROVE  granted \subseteq granted' \/ SessionOver
<1>1. CASE DoLogout
  BY <1>1, LogoutEndsSession, Nothing DEF DoLogout, Return, SessionOver
<1>2. CASE DoLeave
  <2>1. Logout \/ granted' = granted
    BY <1>2 DEF DoLeave, Leave, Unsubscribe
  <2>2. callback' = callback /\ job'.at = "idle"
    BY <1>2, Nothing DEF DoLeave, Return
  <2> QED
    BY <2>1, <2>2, LogoutEndsSession DEF SessionOver
<1>3. CASE DoFini
  <2>1. callback' = callback /\ callback.at = "idle" /\ job'.at = "idle"
    BY <1>3, Nothing DEF DoFini, Return
  <2>2. CASE FiniSucceeds
    BY <2>1, <2>2, Nothing DEF FiniSucceeds, ClearLogin, SessionOver
  <2>3. CASE FiniFails
    BY <2>1, <2>3, LogoutEndsSession DEF FiniFails, SessionOver
  <2> QED
    BY <1>3, <2>2, <2>3 DEF DoFini
<1>4. CASE LoginTimesOut \/ SubscribeRejected \/ AskSub \/ SubRefused \/ ConnectFails
  <2>1. granted' = granted \/ (Logout /\ job'.at = "idle")
    BY <1>4, Nothing DEF LoginTimesOut, SubscribeRejected, AskSub, SubRefused, ConnectFails,
       Abandon, Return
  <2>2. callback' = callback
    BY <1>4 DEF LoginTimesOut, SubscribeRejected, AskSub, SubRefused, ConnectFails
  <2> QED
    BY <2>1, <2>2, LogoutEndsSession DEF SessionOver
<1>5. CASE Answer
  BY <1>5 DEF Answer
<1>6. CASE DoInit \/ DoJoin \/ DoLogin \/ AskLogin \/ LoginConfirmed \/ LoginRefused \/ Subscribe
           \/ SubConfirmed \/ Connect
  BY <1>6 DEF DoInit, DoJoin, DoLogin, AskLogin, LoginConfirmed, LoginRefused, Subscribe,
     SubConfirmed, Connect
<1>7. CASE Caller \/ Notified \/ Forward \/ EndLogin \/ ReportConn \/ UNCHANGED vars
  BY <1>7 DEF Caller, CallInit, CallJoin, CallLeave, CallLogin, CallLogout, CallFini, Call,
     Notified, DoLoginEvent, DoLoginEnded, DoSubEvent, DoConnEvent,
     Forward, RaiseFlag, PostAnswer, EndLogin, ReportConn, vars
<1> QED
  BY <1>1, <1>2, <1>3, <1>4, <1>5, <1>6, <1>7 DEF Next, Worker, Commanded, Joining, Library

\* Who lowers and raises the flags a join waits on.
LEMMA FlagSteps ==
  ASSUME TypeOK, [Next]_vars
  PROVE  /\ \/ loginFlag' = loginFlag
            \/ AskLogin /\ ~loginFlag'.done
            \/ RaiseFlag /\ callback.of.type = "login" /\ loginFlag'.ok = callback.ok
         /\ \/ subFlag' = subFlag
            \/ AskSub /\ ~subFlag'.done
            \/ RaiseFlag /\ callback.of.type # "login" /\ subFlag'.ok = callback.ok
<1>1. CASE AskLogin
  BY <1>1 DEF AskLogin, Reset
<1>2. CASE AskSub
  BY <1>2 DEF AskSub, Reset
<1>3. CASE RaiseFlag
  <2>1. loginFlag \in Flag /\ subFlag \in Flag
    BY DEF TypeOK
  <2> QED
    BY <1>3, <2>1 DEF RaiseFlag, Flag
<1>4. CASE LoginConfirmed \/ LoginRefused \/ LoginTimesOut \/ Subscribe \/ SubscribeRejected
           \/ SubConfirmed \/ SubRefused \/ Connect \/ ConnectFails \/ Notified \/ Commanded
  BY <1>4 DEF LoginConfirmed, LoginRefused, LoginTimesOut, Subscribe, SubscribeRejected,
     SubConfirmed, SubRefused, Connect, ConnectFails, Commanded, DoInit, DoJoin, DoLeave, DoLogin,
     DoLogout, DoFini, Notified, DoLoginEvent, DoLoginEnded, DoSubEvent, DoConnEvent
<1>5. CASE Caller \/ PostAnswer \/ Library \/ UNCHANGED vars
  BY <1>5 DEF Caller, CallInit, CallJoin, CallLeave, CallLogin, CallLogout, CallFini, Call,
     PostAnswer, Library, Answer, EndLogin, ReportConn, vars
<1> QED
  BY <1>1, <1>2, <1>3, <1>4, <1>5 DEF Next, Worker, Joining, Forward

\* The subscription's generation is raised only to ask for a new one.
LEMMA SubGenSteps ==
  ASSUME TypeOK, [Next]_vars
  PROVE  \/ gen'.sub = gen.sub
         \/ Subscribe /\ job'.at = "askSub"
<1>1. gen \in [login : Nat, sub : Nat] /\ job \in Job
  BY DEF TypeOK, Job
<1>2. CASE DoLogin \/ DoJoin
  BY <1>1, <1>2 DEF DoLogin, DoJoin, RequestLogin
<1>3. CASE Subscribe
  BY <1>1, <1>3 DEF Subscribe, Job
<1>4. CASE Caller \/ Notified \/ Forward \/ Library \/ UNCHANGED vars
  BY <1>4, OthersWait
<1>5. CASE DoInit \/ DoLeave \/ DoLogout \/ DoFini \/ AskLogin \/ LoginConfirmed \/ LoginRefused
           \/ LoginTimesOut \/ SubscribeRejected \/ AskSub \/ SubConfirmed \/ SubRefused
           \/ Connect \/ ConnectFails
  BY <1>5 DEF DoInit, DoLeave, DoLogout, DoFini, AskLogin, LoginConfirmed, LoginRefused,
     LoginTimesOut, SubscribeRejected, AskSub, SubConfirmed, SubRefused, Connect, ConnectFails
<1> QED
  BY <1>2, <1>3, <1>4, <1>5 DEF Next, Worker, Commanded, Joining

LEMMA LogoutStaysFinal == ASSUME [Next]_vars PROVE logoutIsFinal' = logoutIsFinal
<1>1. CASE Commanded
  BY <1>1 DEF Commanded, DoInit, DoJoin, DoLeave, DoLogin, DoLogout, DoFini
<1>2. CASE Joining
  BY <1>2 DEF Joining, AskLogin, LoginConfirmed, LoginRefused, LoginTimesOut, Subscribe,
     SubscribeRejected, AskSub, SubConfirmed, SubRefused, Connect, ConnectFails
<1>3. CASE Caller \/ Notified \/ Forward \/ Library \/ UNCHANGED vars
  BY <1>3, OthersWait
<1> QED
  BY <1>1, <1>2, <1>3 DEF Next, Worker

\* While the worker waits for a subscription, it is the one that is asked for.
LEMMA WaitingForSub ==
  ASSUME RtcInv, logoutIsFinal, [Next]_vars, job.at = "waitSub", ~subFlag.done
  PROVE  SessionOver \/ (job' = job /\ chan' = chan /\ gen' = gen)
<1>1. CASE SubRefused
  <2>1. rtm.requested
    BY DEF RtcInv, JobFits
  <2> QED
    BY <1>1, <2>1, LogoutLeaves, Nothing DEF SubRefused, Return, SessionOver
<1>2. CASE Caller \/ Notified \/ Forward \/ Library \/ UNCHANGED vars
  BY <1>2, OthersWait
<1>3. ~Commanded /\ (Joining => SubRefused)
  BY DEF Commanded, DoInit, DoJoin, DoLeave, DoLogin, DoLogout, DoFini, Takes,
     Joining, AskLogin, LoginConfirmed, LoginRefused, LoginTimesOut, Subscribe, SubscribeRejected,
     AskSub, SubConfirmed, Connect, ConnectFails
<1> QED
  BY <1>1, <1>2, <1>3 DEF Next, Worker

\* A step of a session whose logout, if one comes, is final.
SessionStep ==
  /\ RtcInv /\ [Next]_vars
  /\ CallbackGranted /\ LoginAnswered /\ SubAnswered /\ OneSubAsked
  /\ granted \subseteq granted' /\ ~SessionOver

LEMMA CallbackGrantedStep == ASSUME SessionStep PROVE CallbackGranted'
<1>1. granted \subseteq granted' /\ CallbackGranted
  BY DEF SessionStep
<1>2. CASE \E a \in asked, ok \in BOOLEAN :
             /\ Accepts(a) /\ callback' = [at |-> "flag", of |-> a, ok |-> ok]
             /\ asked' = asked \ {a}
             /\ granted' = IF ok THEN granted \cup {a} ELSE granted
  BY <1>2 DEF CallbackGranted
<1>3. CASE callback' = callback
  BY <1>1, <1>3 DEF CallbackGranted
<1>4. CASE callback'.at # "flag"
  BY <1>4 DEF CallbackGranted
<1> QED
  BY <1>2, <1>3, <1>4, CallbackSteps DEF SessionStep, RtcInv, NoCallback

LEMMA LoginAnsweredStep == ASSUME SessionStep, logoutIsFinal PROVE LoginAnswered'
<1>1. /\ granted \subseteq granted' /\ LoginAnswered /\ CallbackGranted /\ TypeOK /\ RtcInv /\ [Next]_vars
      /\ job \in Job /\ rtm \in Login /\ (job.at # "idle" => rtm.requested)
  BY DEF SessionStep, RtcInv, TypeOK, Job, Login, JobFits
<1>2. LoginGranted => LoginGranted'
  BY <1>1 DEF LoginGranted
<1>3. ASSUME rtm'.requested, job'.at # "askLogin", loginFlag'.done, loginFlag'.ok
      PROVE  LoginGranted'
  <2>1. CASE RaiseFlag /\ callback.of.type = "login" /\ loginFlag'.ok = callback.ok
    <3>1. callback.of \in granted
      BY <1>1, <1>3, <2>1 DEF RaiseFlag, CallbackGranted
    <3> QED
      BY <1>2, <2>1, <3>1 DEF LoginGranted
  <2>2. CASE loginFlag' = loginFlag
    <3>1. job.at # "askLogin"
      <4>1. ~AskLogin
        <5>1. AskLogin => ~loginFlag'.done
          BY DEF AskLogin, Reset
        <5> QED
          BY <1>3, <5>1
      <4>2. SUFFICES ASSUME job.at = "askLogin" PROVE FALSE
        OBVIOUS
      <4>3. Caller \/ Notified \/ Forward \/ Library \/ UNCHANGED vars \/ AskLogin
        BY <1>1, <4>2 DEF Next, Worker, Commanded, DoInit, DoJoin, DoLeave, DoLogin, DoLogout,
           DoFini, Takes, Joining, LoginConfirmed, LoginRefused, LoginTimesOut, Subscribe,
           SubscribeRejected, AskSub, SubConfirmed, SubRefused, Connect, ConnectFails
      <4> QED
        BY <1>3, <4>1, <4>2, <4>3, OthersWait
    <3>2. rtm.requested
      <4>1. CASE /\ DoLogin \/ DoJoin
                 /\ ~rtm.requested
                 /\ rtm' = [rtm EXCEPT !.requested = TRUE, !.uid = Head(queue).user, !.owned = FALSE]
        BY <1>1, <1>3, <4>1, Nothing DEF DoLogin, DoJoin, RequestLogin, NoJob, Return, Login
      <4>2. CASE rtm' = [rtm EXCEPT !.completed = FALSE, !.ok = FALSE, !.owned = job.join]
                 \/ rtm' = [rtm EXCEPT !.completed = TRUE, !.ok = TRUE]
        BY <1>1, <1>3, <4>2 DEF Login
      <4> QED
        BY <1>1, <1>3, <4>1, <4>2, LoginSteps, Nothing
    <3> QED
      BY <1>1, <1>2, <1>3, <2>2, <3>1, <3>2 DEF LoginAnswered
  <2> QED
    BY <1>1, <1>3, <2>1, <2>2, FlagSteps
<1>4. ASSUME job'.at \in {"subscribe", "askSub", "waitSub", "connect"} PROVE LoginGranted
  <2>1. CASE LoginConfirmed
    BY <1>1, <2>1 DEF LoginConfirmed, LoginAnswered
  <2>2. CASE Subscribe \/ AskSub \/ SubConfirmed
    BY <1>1, <2>2 DEF Subscribe, AskSub, SubConfirmed, LoginAnswered
  <2>3. CASE job' = job
    BY <1>1, <1>4, <2>3 DEF LoginAnswered
  <2>4. CASE AskLogin /\ job' = [job EXCEPT !.at = "waitLogin"]
    BY <1>1, <1>4, <2>4 DEF Job
  <2>5. CASE job' = [NoJob EXCEPT !.at = "askLogin", !.user = Head(queue).user]
    BY <1>4, <2>5 DEF NoJob
  <2> QED
    BY <1>1, <1>4, <2>1, <2>2, <2>3, <2>4, <2>5, JobSteps, Nothing
<1> QED
  BY <1>2, <1>3, <1>4 DEF LoginAnswered

LEMMA SubAnsweredStep == ASSUME SessionStep, logoutIsFinal PROVE SubAnswered'
<1>1. /\ granted \subseteq granted' /\ SubAnswered /\ CallbackGranted /\ OneSubAsked
      /\ TypeOK /\ NamesFit /\ JobFits /\ RtcInv /\ [Next]_vars
      /\ job \in Job /\ chan \in Sub /\ gen \in [login : Nat, sub : Nat]
  BY DEF SessionStep, RtcInv, TypeOK, Job, Sub
<1>2. SubGranted /\ gen'.sub = gen.sub => SubGranted'
  BY <1>1 DEF SubGranted
<1>3. ASSUME chan'.requested, job'.at # "askSub", subFlag'.done, subFlag'.ok
      PROVE  SubGranted'
  <2>1. gen'.sub = gen.sub
    BY <1>1, <1>3, SubGenSteps
  <2>2. CASE RaiseFlag /\ callback.of.type # "login" /\ subFlag'.ok = callback.ok
    <3>1. callback.of \in granted /\ callback.of.type = "sub" /\ callback.of.serial = gen.sub
      BY <1>1, <1>3, <2>2 DEF RaiseFlag, CallbackGranted, NamesFit, OneSubAsked
    <3> QED
      BY <1>2, <2>1, <3>1 DEF SubGranted
  <2>3. CASE subFlag' = subFlag
    <3>1. job.at # "askSub"
      <4>1. ~AskSub
        <5>1. AskSub => ~subFlag'.done
          BY DEF AskSub, Reset
        <5> QED
          BY <1>3, <5>1
      <4>2. SUFFICES ASSUME job.at = "askSub" PROVE FALSE
        OBVIOUS
      <4>3. Caller \/ Notified \/ Forward \/ Library \/ UNCHANGED vars \/ AskSub
        BY <1>1, <4>2 DEF Next, Worker, Commanded, DoInit, DoJoin, DoLeave, DoLogin, DoLogout,
           DoFini, Takes, Joining, AskLogin, LoginConfirmed, LoginRefused, LoginTimesOut, Subscribe,
           SubscribeRejected, SubConfirmed, SubRefused, Connect, ConnectFails
      <4> QED
        BY <1>3, <4>1, <4>2, <4>3, OthersWait
    <3>2. chan.requested
      <4>1. CASE Subscribe
        <5>1. job'.at # "askSub" => chan.requested
          BY <1>1, <4>1 DEF Subscribe, Job
        <5> QED
          BY <1>3, <5>1
      <4>2. CASE \/ chan' = [chan EXCEPT !.completed = FALSE, !.ok = FALSE]
                 \/ chan' = [chan EXCEPT !.completed = TRUE, !.ok = Head(queue).ok]
                 \/ SubConfirmed
        BY <1>1, <1>3, <4>2 DEF SubConfirmed, Sub
      <4> QED
        BY <1>1, <1>3, <4>1, <4>2, SubSteps, Nothing
    <3> QED
      BY <1>1, <1>2, <1>3, <2>1, <2>3, <3>1, <3>2 DEF SubAnswered
  <2> QED
    BY <1>1, <1>3, <2>2, <2>3, FlagSteps
<1>4. ASSUME job'.at = "connect" PROVE SubGranted'
  <2>1. gen'.sub = gen.sub
    BY <1>1, <1>4, SubGenSteps
  <2>2. CASE SubConfirmed
    <3>1. chan.requested
      BY <1>1, <2>2 DEF SubConfirmed, JobFits
    <3> QED
      BY <1>1, <1>2, <2>1, <2>2, <3>1 DEF SubConfirmed, SubAnswered
  <2>3. CASE job' = job
    BY <1>1, <1>2, <1>4, <2>1, <2>3 DEF SubAnswered
  <2>4. CASE \/ job' = [job EXCEPT !.at = "waitLogin"] \/ job' = [job EXCEPT !.at = "subscribe"]
             \/ job' = [job EXCEPT !.at = "askSub", !.sub = TRUE]
             \/ job' = [job EXCEPT !.at = "waitSub"]
    BY <1>1, <1>4, <2>4 DEF Job
  <2>5. CASE job' = [NoJob EXCEPT !.at = "askLogin", !.user = Head(queue).user]
    BY <1>4, <2>5 DEF NoJob
  <2> QED
    BY <1>1, <1>4, <2>2, <2>3, <2>4, <2>5, JobSteps, Nothing
<1> QED
  BY <1>3, <1>4 DEF SubAnswered

LEMMA OneSubAskedStep == ASSUME SessionStep, logoutIsFinal PROVE OneSubAsked'
<1>1. /\ OneSubAsked /\ TypeOK /\ NamesFit /\ JobFits /\ RtcInv /\ [Next]_vars /\ ~SessionOver
      /\ job \in Job /\ chan \in Sub /\ asked \subseteq Asked
  BY DEF SessionStep, RtcInv, TypeOK, Job, Sub
\* The worker has asked for a subscription.
<1>2. CASE /\ AskSub /\ job' = [job EXCEPT !.at = "waitSub"]
           /\ chan' = [chan EXCEPT !.completed = FALSE, !.ok = FALSE]
           /\ asked' = asked \cup {[type |-> "sub", key |-> chan.name, serial |-> gen.sub]}
  <2>1. NoSubAsked
    BY <1>1, <1>2 DEF AskSub, OneSubAsked
  <2>2. /\ job'.at = "waitSub" /\ chan'.name = chan.name /\ gen' = gen /\ callback' = callback
        /\ ~subFlag'.done
    BY <1>1, <1>2 DEF AskSub, Reset, Job, Sub
  <2> QED
    BY <1>2, <2>1, <2>2 DEF OneSubAsked, NoSubAsked
<1>3. CASE ~AskSub
  <2>1. \A a \in asked' : a.type = "sub" => a \in asked
    BY <1>1, <1>3, AskedSteps
  <2>2. \/ callback' = callback
        \/ callback'.at # "flag"
        \/ \E b \in asked, ok \in BOOLEAN :
             callback' = [at |-> "flag", of |-> b, ok |-> ok] /\ asked' = asked \ {b}
    BY <1>1, CallbackSteps DEF NoCallback
  <2>3. CASE NoSubAsked
    <3>1. NoSubAsked'
      BY <2>1, <2>2, <2>3 DEF NoSubAsked
    <3> QED
      BY <3>1 DEF NoSubAsked, OneSubAsked
  \* One is outstanding: the worker still waits for it.
  <2>4. CASE job.at = "waitSub" /\ ~subFlag.done
    <3>1. job' = job /\ chan' = chan /\ gen' = gen
      BY <1>1, <2>4, WaitingForSub DEF SessionStep
    <3>2. subFlag'.done => NoSubAsked'
      <4>1. SUFFICES ASSUME subFlag'.done PROVE NoSubAsked'
        OBVIOUS
      <4>2. RaiseFlag /\ callback.of.type = "sub"
        BY <1>1, <1>3, <2>4, <4>1, FlagSteps DEF RaiseFlag, NamesFit
      <4>3. \A a \in asked : a.type # "sub"
        BY <1>1, <4>2 DEF OneSubAsked, RaiseFlag
      <4>4. callback'.at = "post"
        <5>1. callback \in [at : {"flag", "post"}, of : Asked, ok : BOOLEAN]
          BY <1>1, <4>2 DEF RaiseFlag, TypeOK, NoCallback
        <5> QED
          BY <4>2, <5>1 DEF RaiseFlag
      <4> QED
        BY <2>1, <4>3, <4>4 DEF NoSubAsked
    <3>3. ASSUME NEW a \in asked', a.type = "sub"
          PROVE  /\ a.key = chan'.name /\ a.serial = gen'.sub
                 /\ ~(callback'.at = "flag" /\ callback'.of.type = "sub")
      <4>1. /\ a \in asked /\ a.key = chan.name /\ a.serial = gen.sub
            /\ ~(callback.at = "flag" /\ callback.of.type = "sub")
        BY <1>1, <2>1, <3>3 DEF OneSubAsked
      <4>2. \A b \in asked : b.type = "sub" => b = a
        BY <1>1, <3>3, <4>1 DEF OneSubAsked, Asked
      <4> QED
        BY <2>2, <3>1, <4>1, <4>2
    <3>4. callback'.at = "flag" /\ callback'.of.type = "sub" => callback'.of.serial = gen'.sub
      BY <1>1, <2>2, <3>1 DEF OneSubAsked
    <3> QED
      BY <2>4, <3>1, <3>2, <3>3, <3>4 DEF OneSubAsked
  <2> QED
    BY <1>1, <2>3, <2>4 DEF OneSubAsked
<1>4. AskSub => /\ job' = [job EXCEPT !.at = "waitSub"]
                /\ chan' = [chan EXCEPT !.completed = FALSE, !.ok = FALSE]
                /\ asked' = asked \cup {[type |-> "sub", key |-> chan.name, serial |-> gen.sub]}
  <2>1. AskSub => rtm.requested
    BY <1>1 DEF AskSub, JobFits
  <2>2. ~(AskSub /\ Logout /\ Return)
    <3>1. ASSUME AskSub, Logout, Return PROVE SessionOver
      BY <2>1, <3>1, LogoutLeaves, Nothing DEF AskSub, Return, SessionOver
    <3> QED
      BY <1>1, <3>1
  <2> QED
    BY <2>2 DEF AskSub, Abandon
<1> QED
  BY <1>2, <1>3, <1>4

LEMMA AnswersStep == ASSUME RtcInv, [Next]_vars PROVE AnswersFit'
<1>1. SUFFICES ASSUME logoutIsFinal
               PROVE  CallbackGranted' /\ LoginAnswered' /\ SubAnswered' /\ OneSubAsked'
  BY LogoutStaysFinal DEF AnswersFit
<1>2. CASE SessionOver
  BY <1>2 DEF SessionOver, CallbackGranted, LoginAnswered, SubAnswered, OneSubAsked, NoSubAsked
<1>3. CASE granted \subseteq granted' /\ ~SessionOver
  <2>1. SessionStep
    BY <1>1, <1>3 DEF SessionStep, RtcInv, AnswersFit
  <2> QED
    BY <1>1, <2>1, CallbackGrantedStep, LoginAnsweredStep, SubAnsweredStep, OneSubAskedStep
<1> QED
  BY <1>1, <1>2, <1>3, SessionSteps

LEMMA RtcInit == Init => RtcInv
<1> SUFFICES ASSUME Init PROVE RtcInv
  OBVIOUS
<1> USE DEF Init
<1>1. NoLogin \in Login /\ NoSub \in Sub /\ NoJob \in Job
  BY Initially
<1>2. TypeOK
  <2>1. rtm \in Login /\ chan \in Sub /\ job \in Job /\ caller \in {"free", "waiting"}
    BY <1>1
  <2>2. gen \in [login : Nat, sub : Nat] /\ loginFlag \in Flag /\ subFlag \in Flag
    BY DEF Flag
  <2>3. queue \in Seq(Item) /\ Len(queue) <= QueueCap
    BY NoItems
  <2>4. CallOK /\ GateOK
    BY DEF CallOK, GateOK, States
  <2>5. LibraryOK /\ CallbackOK
    BY DEF LibraryOK, CallbackOK
  <2> QED
    BY <2>1, <2>2, <2>3, <2>4, <2>5
    DEF TypeOK, Login, Sub, Job, CallOK, GateOK, LibraryOK, CallbackOK
<1>3. NamesFit /\ JobFits
  BY Nothing, NoItems DEF NamesFit, JobFits, NoCallback
<1>4. LibraryFits /\ ConnectionAgrees
  BY NoItems DEF LibraryFits, ConnectionAgrees, OneConnection, StateFitsConnection, ConnectedMeansJoined
<1>5. AnswersFit
  BY Nothing DEF AnswersFit, CallbackGranted, LoginAnswered, SubAnswered, OneSubAsked, NoSubAsked,
     NoCallback
<1> QED
  BY <1>2, <1>3, <1>4, <1>5 DEF RtcInv

LEMMA RtcStep == RtcInv /\ [Next]_vars => RtcInv'
<1> SUFFICES ASSUME RtcInv, [Next]_vars PROVE RtcInv'
  OBVIOUS
<1>1. TypeOK' /\ NamesFit'
  BY TypeStep, NamesStep DEF RtcInv
<1> QED
  BY <1>1, JobStep, ConnectionStep, AnswersStep DEF RtcInv

\* The invariant holds throughout, for either library and for calls in any order.
LEMMA RtcInvHolds == Spec => []RtcInv
<1>1. Init => RtcInv
  BY RtcInit
<1>2. RtcInv /\ [Next]_vars => RtcInv'
  BY RtcStep
<1> QED
  BY <1>1, <1>2, PTL DEF Spec

\* Every variable of the adapter and of its library keeps its type.
THEOREM RtcTypeCorrect == Spec => []TypeOK
<1>1. RtcInv => TypeOK
  BY DEF RtcInv
<1> QED
  BY <1>1, RtcInvHolds, PTL

\* The wrapper has at most the one connection the library has, is in a call only on it,
\* and says "connected" only once the library has reported that very connection joined.
THEOREM ConnectionAlwaysAgrees == Spec => []ConnectionAgrees
<1>1. RtcInv => ConnectionAgrees
  BY DEF RtcInv
<1> QED
  BY <1>1, RtcInvHolds, PTL

\* A connection is opened on a login and on its own subscription, both granted in the
\* present session, if the library keeps its answers to a session inside that session.
THEOREM JoinsFollowLogins == Spec => JoinFollowsLogin
<1> DEFINE Opened == logoutIsFinal /\ conn' # conn /\ conn' # 0
             => /\ \E a \in granted : a.type = "login"
                /\ \E a \in granted : a.type = "sub" /\ a.serial = gen.sub
<1>1. RtcInv /\ [Next]_vars => [Opened]_vars
  <2>1. SUFFICES ASSUME RtcInv, Next, logoutIsFinal, conn' # conn, conn' # 0 PROVE Opened
    BY DEF vars
  <2>2. job.at = "connect"
    BY <2>1, ConnSteps
  <2>3. LoginGranted /\ SubGranted
    BY <2>1, <2>2 DEF RtcInv, AnswersFit, LoginAnswered, SubAnswered
  <2> QED
    BY <2>3 DEF LoginGranted, SubGranted
<1> QED
  BY <1>1, RtcInvHolds, PTL DEF Spec, JoinFollowsLogin

\* A join or a login that arrives during a call leaves the connection as it is, and the
\* login and the subscription too unless the library has said that a login failed.
THEOREM SecondJoinsAreHarmless == Spec => SecondJoinIsHarmless
<1> DEFINE Harmless == job.at # "idle" /\ conn # 0
             => /\ conn' = conn
                /\ \/ rtm'.requested = rtm.requested /\ chan' = chan
                   \/ loginFlag.done /\ ~loginFlag.ok
<1>1. RtcInv /\ [Next]_vars => [Harmless]_vars
  <2>1. SUFFICES ASSUME RtcInv, Next, job.at # "idle", conn # 0 PROVE Harmless
    BY DEF vars
  <2>2. job.at \in {"waitLogin", "subscribe"} /\ ~job.login /\ rtm \in Login
    BY <2>1 DEF RtcInv, JobFits, TypeOK, Login
  <2>3. \/ LoginConfirmed \/ LoginRefused \/ LoginTimesOut \/ SubscribeRejected
        \/ Caller \/ Notified \/ Forward \/ Library
    BY <2>1, <2>2 DEF Next, Worker, Commanded, DoInit, DoJoin, DoLeave, DoLogin, DoLogout,
       DoFini, Takes, Joining, AskLogin, Subscribe, CanJoin, AskSub, SubConfirmed, SubRefused,
       Connect, ConnectFails
  <2>4. CASE Caller \/ Notified \/ Forward \/ Library
    BY <2>1, <2>4, OthersWait
  <2>5. CASE LoginConfirmed
    BY <2>2, <2>5 DEF LoginConfirmed, Login
  <2>6. CASE LoginRefused
    BY <2>6 DEF LoginRefused
  <2>7. CASE LoginTimesOut \/ SubscribeRejected
    BY <2>2, <2>7 DEF LoginTimesOut, SubscribeRejected, Abandon
  <2> QED
    BY <2>3, <2>4, <2>5, <2>6, <2>7
<1> QED
  BY <1>1, RtcInvHolds, PTL DEF Spec, SecondJoinIsHarmless

=============================================================================
