---------------------------- MODULE ServiceProofs ----------------------------
(***************************************************************************)
(* The two services of the firmware in components/, each by itself.         *)
(*                                                                          *)
(* NetworkTransfer, for any set of calling threads of which one calls at a  *)
(* time.                                                                    *)
(*                                                                          *)
(* AppEvent, for a queue of any length: the timer, the faults, the places   *)
(* that keep standby, and what a device knows once it has handled           *)
(* everything.  The timer is only in step between two events, so its        *)
(* invariant is about the tickets of the last countdown; what the queue     *)
(* still holds is followed by its last word of the recognition.             *)
(***************************************************************************)
EXTENDS NetworkTransfer, AppEvent, SequenceTheorems, TLAPS

-----------------------------------------------------------------------------
(*                             NetworkTransfer                              *)

-----------------------------------------------------------------------------
(* How a call moves                                                         *)

Ops == {"none", "start", "stop", "deinit", "update"}
Positions == {"rest", "agent", "ask", "create", "wait start", "halt", "wait stop"}
CallType == call \in [Callers -> [op : Ops, at : Positions]]

Moved(c, op, at) ==
  /\ CallType'
  /\ call'[c].op = op /\ call'[c].at = at
  /\ \A d \in Callers : d # c => call'[d] = call[d]

LEMMA EnterMoves ==
  ASSUME CallType, NEW c \in Callers, NEW op \in Ops, NEW at \in Positions, Enters(c, op, at)
  PROVE  Moved(c, op, at) /\ call[c] = Rest
  BY DEF CallType, Enters, Moved

LEMMA GoMoves ==
  ASSUME CallType, NEW c \in Callers, NEW at \in Positions, Goes(c, at)
  PROVE  Moved(c, call[c].op, at)
  BY DEF CallType, Goes, Moved

LEMMA ReturnMoves ==
  ASSUME CallType, NEW c \in Callers, Returns(c)
  PROVE  Moved(c, "none", "rest")
  BY DEF CallType, Returns, Rest, Moved, Ops, Positions

LEMMA CallTypeStep == CallType /\ [Next]_vars => CallType'
<1> SUFFICES ASSUME CallType, [Next]_vars PROVE CallType'
  OBVIOUS
<1>a. \A c \in Callers, op \in Ops, at \in Positions : Enters(c, op, at) => CallType'
  BY EnterMoves DEF Moved
<1>b. \A c \in Callers, at \in Positions : Goes(c, at) => CallType'
  BY GoMoves DEF Moved
<1>c. \A c \in Callers : Returns(c) => CallType'
  BY ReturnMoves DEF Moved
<1>d. UNCHANGED call => CallType'
  BY DEF CallType
<1> USE <1>a, <1>b, <1>c, <1>d DEF Ops, Positions
<1>1. ASSUME NEW c \in Callers, NtwkInit(c) PROVE CallType'
  BY <1>1 DEF NtwkInit
<1>2. ASSUME NEW c \in Callers, NtwkStart(c) PROVE CallType'
  BY <1>2 DEF NtwkStart
<1>3. ASSUME NEW c \in Callers, NtwkStop(c) PROVE CallType'
  BY <1>3 DEF NtwkStop
<1>4. ASSUME NEW c \in Callers, NtwkUpdate(c) PROVE CallType'
  BY <1>4 DEF NtwkUpdate
<1>5. ASSUME NEW c \in Callers, StartAgent(c) PROVE CallType'
  BY <1>5 DEF StartAgent, Fails
<1>6. ASSUME NEW c \in Callers, UpdateAgent(c) PROVE CallType'
  BY <1>6 DEF UpdateAgent, Fails
<1>7. ASSUME NEW c \in Callers, CreateThread(c) PROVE CallType'
  BY <1>7 DEF CreateThread, Fails
<1>8. ASSUME NEW c \in Callers, StartReturns(c) PROVE CallType'
  BY <1>8 DEF StartReturns
<1>9. ASSUME NEW c \in Callers, RtcStop(c) PROVE CallType'
  BY <1>9 DEF RtcStop, Stopped
<1>10. ASSUME NEW c \in Callers, RtcStopped(c) PROVE CallType'
  BY <1>10 DEF RtcStopped, Stopped
<1>11. CASE RtcUnnamed
  BY <1>11 DEF RtcUnnamed, Moves
<1>12. CASE RtcCreates
  BY <1>12 DEF RtcCreates
<1>13. CASE RtcJoins
  BY <1>13 DEF RtcJoins
<1>14. CASE RtcWaits
  BY <1>14 DEF RtcWaits
<1>15. CASE RtcLoops
  BY <1>15 DEF RtcLoops, Moves
<1>16. CASE RtcLeaves
  BY <1>16 DEF RtcLeaves, Moves
<1>17. CASE RtcDestroys
  BY <1>17 DEF RtcDestroys, Moves
<1>18. CASE RtcExits
  BY <1>18 DEF RtcExits, Moves
<1>19. CASE Joined
  BY <1>19 DEF Joined
<1>20. CASE JoinedTells
  BY <1>20 DEF JoinedTells
<1>21. CASE JoinedReturns
  BY <1>21 DEF JoinedReturns
<1>22. CASE Lost
  BY <1>22 DEF Lost
<1>23. CASE Rejoined
  BY <1>23 DEF Rejoined
<1>24. CASE UNCHANGED vars
  BY <1>24 DEF vars
<1> QED
  BY <1>1, <1>2, <1>3, <1>4, <1>5, <1>6, <1>7, <1>8, <1>9, <1>10, <1>11, <1>12,
     <1>13, <1>14, <1>15, <1>16, <1>17, <1>18, <1>19, <1>20, <1>21, <1>22, <1>23, <1>24
  DEF Next, Calls, Caller, RtcThread, Callbacks

-----------------------------------------------------------------------------
(* Types                                                                    *)

ContextTypes ==
  /\ backend \in {"agora", "volc"}
  /\ initialized \in BOOLEAN /\ isStarted \in BOOLEAN
  /\ info \in BOOLEAN /\ running \in BOOLEAN /\ connected \in BOOLEAN
ThreadTypes ==
  /\ sem \in {NoSem, "empty", "full"}
  /\ rtc \in {"gone", "create", "join", "wait", "loop", "leave", "destroy", "clear"}
  /\ state \in {"null", "idle", "working"} /\ engine \in BOOLEAN
  /\ conn \in {"none", "made", "joining", "joined", "lost"} /\ notifying \in {"no", "begun", "told"}
  /\ failed \in BOOLEAN

LEMMA ContextTypesStep == ContextTypes /\ [Next]_vars => ContextTypes'
<1> SUFFICES ASSUME ContextTypes, [Next]_vars PROVE ContextTypes'
  OBVIOUS
<1> USE DEF ContextTypes, contextVars, apiVars, libraryVars
<1>1. ASSUME NEW c \in Callers, NtwkInit(c) PROVE ContextTypes'
  BY <1>1 DEF NtwkInit
<1>2. ASSUME NEW c \in Callers, NtwkStart(c) PROVE ContextTypes'
  BY <1>2 DEF NtwkStart
<1>3. ASSUME NEW c \in Callers, NtwkStop(c) PROVE ContextTypes'
  BY <1>3 DEF NtwkStop
<1>4. ASSUME NEW c \in Callers, NtwkUpdate(c) PROVE ContextTypes'
  BY <1>4 DEF NtwkUpdate
<1>5. ASSUME NEW c \in Callers, StartAgent(c) PROVE ContextTypes'
  BY <1>5 DEF StartAgent, Fails
<1>6. ASSUME NEW c \in Callers, UpdateAgent(c) PROVE ContextTypes'
  BY <1>6 DEF UpdateAgent, Fails
<1>7. ASSUME NEW c \in Callers, CreateThread(c) PROVE ContextTypes'
  BY <1>7 DEF CreateThread, Fails
<1>8. ASSUME NEW c \in Callers, StartReturns(c) PROVE ContextTypes'
  BY <1>8 DEF StartReturns
<1>9. ASSUME NEW c \in Callers, RtcStop(c) PROVE ContextTypes'
  BY <1>9 DEF RtcStop, Stopped
<1>10. ASSUME NEW c \in Callers, RtcStopped(c) PROVE ContextTypes'
  BY <1>10 DEF RtcStopped, Stopped
<1>11. CASE RtcUnnamed
  BY <1>11 DEF RtcUnnamed, Moves
<1>12. CASE RtcCreates
  BY <1>12 DEF RtcCreates
<1>13. CASE RtcJoins
  BY <1>13 DEF RtcJoins
<1>14. CASE RtcWaits
  BY <1>14 DEF RtcWaits
<1>15. CASE RtcLoops
  BY <1>15 DEF RtcLoops, Moves
<1>16. CASE RtcLeaves
  BY <1>16 DEF RtcLeaves, Moves
<1>17. CASE RtcDestroys
  BY <1>17 DEF RtcDestroys, Moves
<1>18. CASE RtcExits
  BY <1>18 DEF RtcExits, Moves
<1>19. CASE Joined
  BY <1>19 DEF Joined
<1>20. CASE JoinedTells
  BY <1>20 DEF JoinedTells
<1>21. CASE JoinedReturns
  BY <1>21 DEF JoinedReturns
<1>22. CASE Lost
  BY <1>22 DEF Lost
<1>23. CASE Rejoined
  BY <1>23 DEF Rejoined
<1>24. CASE UNCHANGED vars
  BY <1>24 DEF vars
<1> QED
  BY <1>1, <1>2, <1>3, <1>4, <1>5, <1>6, <1>7, <1>8, <1>9, <1>10, <1>11, <1>12,
     <1>13, <1>14, <1>15, <1>16, <1>17, <1>18, <1>19, <1>20, <1>21, <1>22, <1>23, <1>24
  DEF Next, Calls, Caller, RtcThread, Callbacks

LEMMA ThreadTypesStep == ThreadTypes /\ [Next]_vars => ThreadTypes'
<1> SUFFICES ASSUME ThreadTypes, [Next]_vars PROVE ThreadTypes'
  OBVIOUS
<1> USE DEF ThreadTypes, NoSem, contextVars, apiVars, libraryVars
<1>1. ASSUME NEW c \in Callers, NtwkInit(c) PROVE ThreadTypes'
  BY <1>1 DEF NtwkInit
<1>2. ASSUME NEW c \in Callers, NtwkStart(c) PROVE ThreadTypes'
  BY <1>2 DEF NtwkStart
<1>3. ASSUME NEW c \in Callers, NtwkStop(c) PROVE ThreadTypes'
  BY <1>3 DEF NtwkStop
<1>4. ASSUME NEW c \in Callers, NtwkUpdate(c) PROVE ThreadTypes'
  BY <1>4 DEF NtwkUpdate
<1>5. ASSUME NEW c \in Callers, StartAgent(c) PROVE ThreadTypes'
  BY ZenonT(60), <1>5 DEF StartAgent, Fails
<1>6. ASSUME NEW c \in Callers, UpdateAgent(c) PROVE ThreadTypes'
  BY ZenonT(60), <1>6 DEF UpdateAgent, Fails
<1>7. ASSUME NEW c \in Callers, CreateThread(c) PROVE ThreadTypes'
  BY <1>7 DEF CreateThread, Fails
<1>8. ASSUME NEW c \in Callers, StartReturns(c) PROVE ThreadTypes'
  BY <1>8 DEF StartReturns
<1>9. ASSUME NEW c \in Callers, RtcStop(c) PROVE ThreadTypes'
  BY ZenonT(60), <1>9 DEF RtcStop, Stopped, Forgiven
<1>10. ASSUME NEW c \in Callers, RtcStopped(c) PROVE ThreadTypes'
  BY <1>10 DEF RtcStopped, Stopped
<1>11. CASE RtcUnnamed
  BY <1>11 DEF RtcUnnamed, Moves
<1>12. CASE RtcCreates
  BY <1>12 DEF RtcCreates
<1>13. CASE RtcJoins
  BY <1>13 DEF RtcJoins
<1>14. CASE RtcWaits
  BY <1>14 DEF RtcWaits
<1>15. CASE RtcLoops
  BY <1>15 DEF RtcLoops, Moves
<1>16. CASE RtcLeaves
  BY <1>16 DEF RtcLeaves, Moves
<1>17. CASE RtcDestroys
  BY <1>17 DEF RtcDestroys, Moves
<1>18. CASE RtcExits
  BY <1>18 DEF RtcExits, Moves
<1>19. CASE Joined
  BY <1>19 DEF Joined
<1>20. CASE JoinedTells
  BY <1>20 DEF JoinedTells
<1>21. CASE JoinedReturns
  BY <1>21 DEF JoinedReturns
<1>22. CASE Lost
  BY <1>22 DEF Lost
<1>23. CASE Rejoined
  BY <1>23 DEF Rejoined
<1>24. CASE UNCHANGED vars
  BY <1>24 DEF vars
<1> QED
  BY <1>1, <1>2, <1>3, <1>4, <1>5, <1>6, <1>7, <1>8, <1>9, <1>10, <1>11, <1>12,
     <1>13, <1>14, <1>15, <1>16, <1>17, <1>18, <1>19, <1>20, <1>21, <1>22, <1>23, <1>24
  DEF Next, Calls, Caller, RtcThread, Callbacks

-----------------------------------------------------------------------------
(* Calls                                                                    *)

\* Each call goes through its own positions, and one thread calls.
Calling(c) == call[c].op # "none"
CallsFit ==
  \A c \in Callers :
    /\ call[c].op = "none" => call[c].at = "rest"
    /\ call[c].op = "start" => call[c].at \in {"agent", "create", "wait start"}
    /\ call[c].op \in {"stop", "deinit"} => call[c].at \in {"halt", "wait stop"}
    /\ call[c].op = "update" => call[c].at \in {"halt", "wait stop", "ask", "create", "wait start"}
Alone == \A c, d \in Callers : Calling(c) /\ Calling(d) => c = d

Only(c, op, at) ==
  /\ call'[c].op = op /\ call'[c].at = at
  /\ \A d \in Callers : d # c => call'[d].op = "none" /\ call'[d].at = "rest"
StopsAlone(c) ==
  /\ call'[c].op \in {"stop", "deinit"} /\ call'[c].at = "halt"
  /\ \A d \in Callers : d # c => call'[d].op = "none" /\ call'[d].at = "rest"
  /\ \A d \in Callers : call[d].op = "none" /\ call[d].at = "rest"
CallInv == CallType /\ CallsFit /\ Alone

LEMMA OnlyEnters ==
  ASSUME Overlap = FALSE, CallInv, NEW c \in Callers, NEW op \in Ops, NEW at \in Positions, Enters(c, op, at)
  PROVE  Only(c, op, at) /\ \A d \in Callers : call[d].op = "none" /\ call[d].at = "rest"
<1>1. \A d \in Callers : call[d].op = "none" /\ call[d].at = "rest"
  BY DEF Enters, Rest
<1>2. Moved(c, op, at)
  BY EnterMoves DEF CallInv
<1> QED
  BY <1>1, <1>2 DEF Moved, Only

LEMMA OnlyGoes ==
  ASSUME CallInv, NEW c \in Callers, call[c].at # "rest", NEW at \in Positions, Goes(c, at)
  PROVE  Only(c, call[c].op, at) /\ \A d \in Callers : d # c => call[d].op = "none" /\ call[d].at = "rest"
<1>1. \A d \in Callers : d # c => call[d].op = "none" /\ call[d].at = "rest"
  BY DEF CallInv, CallsFit, Alone, Calling
<1>2. Moved(c, call[c].op, at)
  BY GoMoves DEF CallInv
<1> QED
  BY <1>1, <1>2 DEF Moved, Only

LEMMA OnlyReturns ==
  ASSUME CallInv, NEW c \in Callers, call[c].at # "rest", Returns(c)
  PROVE  Only(c, "none", "rest") /\ \A d \in Callers : d # c => call[d].op = "none" /\ call[d].at = "rest"
<1>1. \A d \in Callers : d # c => call[d].op = "none" /\ call[d].at = "rest"
  BY DEF CallInv, CallsFit, Alone, Calling
<1>2. Moved(c, "none", "rest")
  BY ReturnMoves DEF CallInv
<1> QED
  BY <1>1, <1>2 DEF Moved, Only

LEMMA OnlyStops ==
  ASSUME Overlap = FALSE, CallInv, NEW c \in Callers, NtwkStop(c)
  PROVE  StopsAlone(c)
<1>1. PICK op \in {"stop", "deinit"} : Enters(c, op, "halt")
  BY DEF NtwkStop
<1>2. op \in Ops /\ "halt" \in Positions
  BY DEF Ops, Positions
<1>3. Only(c, op, "halt") /\ \A d \in Callers : call[d].op = "none" /\ call[d].at = "rest"
  BY <1>1, <1>2, OnlyEnters
<1> QED
  BY <1>3 DEF Only, StopsAlone

LEMMA CallInvStep == ASSUME Overlap = FALSE PROVE CallInv /\ [Next]_vars => CallInv'
<1> SUFFICES ASSUME CallInv, [Next]_vars PROVE CallInv'
  OBVIOUS
<1>t. CallType'
  BY CallTypeStep DEF CallInv
<1>s. \A c \in Callers : NtwkStop(c) => StopsAlone(c)
  BY OnlyStops
<1>g. CallsFit' /\ Alone'
  <2> USE OnlyEnters, OnlyGoes, OnlyReturns DEF Only, CallInv, CallsFit, Alone, Calling, Ops, Positions
  <2>1. ASSUME NEW c \in Callers, NtwkInit(c) PROVE CallsFit' /\ Alone'
    BY ZenonT(60), <2>1 DEF NtwkInit
  <2>2. ASSUME NEW c \in Callers, NtwkStart(c) PROVE CallsFit' /\ Alone'
    BY ZenonT(60), <2>2 DEF NtwkStart
  <2>3. ASSUME NEW c \in Callers, NtwkStop(c) PROVE CallsFit' /\ Alone'
    <3>1. StopsAlone(c)
      BY <2>3, <1>s
    <3> HIDE OnlyEnters, OnlyGoes, OnlyReturns
    <3> QED
      BY <3>1 DEF StopsAlone
  <2>4. ASSUME NEW c \in Callers, NtwkUpdate(c) PROVE CallsFit' /\ Alone'
    BY ZenonT(60), <2>4 DEF NtwkUpdate
  <2>5. ASSUME NEW c \in Callers, StartAgent(c) PROVE CallsFit' /\ Alone'
    BY ZenonT(60), <2>5 DEF StartAgent, Fails
  <2>6. ASSUME NEW c \in Callers, UpdateAgent(c) PROVE CallsFit' /\ Alone'
    BY ZenonT(60), <2>6 DEF UpdateAgent, Fails
  <2>7. ASSUME NEW c \in Callers, CreateThread(c) PROVE CallsFit' /\ Alone'
    BY ZenonT(60), <2>7 DEF CreateThread, Fails
  <2>8. ASSUME NEW c \in Callers, StartReturns(c) PROVE CallsFit' /\ Alone'
    BY ZenonT(60), <2>8 DEF StartReturns
  <2>9. ASSUME NEW c \in Callers, RtcStop(c) PROVE CallsFit' /\ Alone'
    BY ZenonT(60), <2>9 DEF RtcStop, Stopped
  <2>10. ASSUME NEW c \in Callers, RtcStopped(c) PROVE CallsFit' /\ Alone'
    BY ZenonT(60), <2>10 DEF RtcStopped, Stopped
  <2>11. CASE RtcUnnamed
    BY ZenonT(60), <2>11 DEF RtcUnnamed, Moves
  <2>12. CASE RtcCreates
    BY ZenonT(60), <2>12 DEF RtcCreates
  <2>13. CASE RtcJoins
    BY ZenonT(60), <2>13 DEF RtcJoins
  <2>14. CASE RtcWaits
    BY ZenonT(60), <2>14 DEF RtcWaits
  <2>15. CASE RtcLoops
    BY ZenonT(60), <2>15 DEF RtcLoops, Moves
  <2>16. CASE RtcLeaves
    BY ZenonT(60), <2>16 DEF RtcLeaves, Moves
  <2>17. CASE RtcDestroys
    BY ZenonT(60), <2>17 DEF RtcDestroys, Moves
  <2>18. CASE RtcExits
    BY ZenonT(60), <2>18 DEF RtcExits, Moves
  <2>19. CASE Joined
    BY ZenonT(60), <2>19 DEF Joined
  <2>20. CASE JoinedTells
    BY ZenonT(60), <2>20 DEF JoinedTells
  <2>21. CASE JoinedReturns
    BY ZenonT(60), <2>21 DEF JoinedReturns
  <2>22. CASE Lost
    BY ZenonT(60), <2>22 DEF Lost
  <2>23. CASE Rejoined
    BY ZenonT(60), <2>23 DEF Rejoined
  <2>24. CASE UNCHANGED vars
    BY ZenonT(60), <2>24 DEF vars
  <2> QED
    BY <2>1, <2>2, <2>3, <2>4, <2>5, <2>6, <2>7, <2>8, <2>9, <2>10, <2>11, <2>12,
       <2>13, <2>14, <2>15, <2>16, <2>17, <2>18, <2>19, <2>20, <2>21, <2>22, <2>23, <2>24
    DEF Next, Calls, Caller, RtcThread, Callbacks
<1> QED
  BY <1>t, <1>g DEF CallInv

-----------------------------------------------------------------------------
(* The RTC thread and its caller                                            *)

\* A thread that is not yet, or no longer, in its loop has a caller waiting for it over
\* an empty semaphore; one in its loop runs, unless it is being stopped.
ThreadInv ==
  /\ running = TRUE => rtc \in {"wait", "loop"}
  /\ rtc \in {"create", "join", "leave", "destroy", "clear"} =>
       sem = "empty" /\ \E c \in Callers : call[c].at \in {"wait start", "wait stop"}
  /\ rtc \in {"create", "join"} => \A c \in Callers : call[c].at # "wait stop"
  /\ rtc \in {"wait", "loop"} => running = TRUE \/ \E c \in Callers : call[c].at = "wait stop"
  /\ rtc \in {"wait", "loop"} => sem = "empty" \/ \E c \in Callers : call[c].at = "wait start"
  /\ \A c \in Callers : call[c].at = "wait stop" => running = FALSE
  /\ \A c \in Callers : call[c].at \in {"ask", "create"} => rtc = "gone"

LEMMA ThreadInvStep ==
  ASSUME Overlap = FALSE
  PROVE  CallInv /\ ContextTypes /\ ThreadTypes /\ ThreadInv /\ [Next]_vars => ThreadInv'
<1> SUFFICES ASSUME CallInv, ContextTypes, ThreadTypes, ThreadInv, [Next]_vars PROVE ThreadInv'
  OBVIOUS
<1>s. \A c \in Callers : NtwkStop(c) => StopsAlone(c)
  BY OnlyStops
<1>r. running \in BOOLEAN /\ rtc \in {"gone", "create", "join", "wait", "loop", "leave", "destroy", "clear"}
  BY DEF ContextTypes, ThreadTypes
<1>p. \A c \in Callers : call[c].op \in Ops
  BY DEF CallInv, CallType
<1>u. CallsFit
  BY DEF CallInv
<1> USE <1>r, <1>p, <1>u, OnlyEnters, OnlyGoes, OnlyReturns
    DEF ThreadInv, Only, CallsFit, NoSem, Ops, Positions, contextVars, apiVars, libraryVars
<1>1. ASSUME NEW c \in Callers, NtwkInit(c) PROVE ThreadInv'
  BY ZenonT(60), <1>1 DEF NtwkInit
<1>2. ASSUME NEW c \in Callers, NtwkStart(c) PROVE ThreadInv'
  BY ZenonT(60), <1>2 DEF NtwkStart
<1>3. ASSUME NEW c \in Callers, NtwkStop(c) PROVE ThreadInv'
  BY ZenonT(60), <1>3, <1>s DEF NtwkStop, StopsAlone
<1>4. ASSUME NEW c \in Callers, NtwkUpdate(c) PROVE ThreadInv'
  BY ZenonT(60), <1>4 DEF NtwkUpdate
<1>5. ASSUME NEW c \in Callers, StartAgent(c) PROVE ThreadInv'
  BY <1>5 DEF StartAgent, Fails
<1>6. ASSUME NEW c \in Callers, UpdateAgent(c) PROVE ThreadInv'
  BY ZenonT(60), <1>6 DEF UpdateAgent, Fails
<1>7. ASSUME NEW c \in Callers, CreateThread(c) PROVE ThreadInv'
  BY ZenonT(60), <1>7 DEF CreateThread, Fails
<1>8. ASSUME NEW c \in Callers, StartReturns(c) PROVE ThreadInv'
  BY <1>8 DEF StartReturns
<1>9. ASSUME NEW c \in Callers, RtcStop(c) PROVE ThreadInv'
  BY <1>9 DEF RtcStop, Stopped
<1>10. ASSUME NEW c \in Callers, RtcStopped(c) PROVE ThreadInv'
  BY <1>10 DEF RtcStopped, Stopped
<1>11. CASE RtcUnnamed
  BY <1>11 DEF RtcUnnamed, Moves
<1>12. CASE RtcCreates
  BY <1>12 DEF RtcCreates
<1>13. CASE RtcJoins
  BY ZenonT(60), <1>13 DEF RtcJoins
<1>14. CASE RtcWaits
  <2>1. running = FALSE => sem = "empty" /\ \E c \in Callers : call[c].at = "wait stop"
    BY <1>14 DEF RtcWaits, CallInv, Alone, Calling
  <2> QED
    BY ZenonT(60), <1>14, <2>1 DEF RtcWaits
<1>15. CASE RtcLoops
  <2>1. running = FALSE => sem = "empty" /\ \E c \in Callers : call[c].at = "wait stop"
    BY <1>15 DEF RtcLoops, Moves, CallInv, Alone, Calling
  <2> QED
    BY <1>15, <2>1 DEF RtcLoops, Moves
<1>16. CASE RtcLeaves
  BY <1>16 DEF RtcLeaves, Moves
<1>17. CASE RtcDestroys
  BY <1>17 DEF RtcDestroys, Moves
<1>18. CASE RtcExits
  BY <1>18 DEF RtcExits, Moves
<1>19. CASE Joined
  BY <1>19 DEF Joined
<1>20. CASE JoinedTells
  BY <1>20 DEF JoinedTells
<1>21. CASE JoinedReturns
  BY <1>21 DEF JoinedReturns
<1>22. CASE Lost
  BY <1>22 DEF Lost
<1>23. CASE Rejoined
  BY <1>23 DEF Rejoined
<1>24. CASE UNCHANGED vars
  BY <1>24 DEF vars
<1> QED
  BY <1>1, <1>2, <1>3, <1>4, <1>5, <1>6, <1>7, <1>8, <1>9, <1>10, <1>11, <1>12,
     <1>13, <1>14, <1>15, <1>16, <1>17, <1>18, <1>19, <1>20, <1>21, <1>22, <1>23, <1>24
  DEF Next, Calls, Caller, RtcThread, Callbacks

-----------------------------------------------------------------------------
(* The connection of the thread                                             *)

\* What the library holds, and what its callbacks have said, follows the thread.
ConnInv ==
  /\ rtc \in {"gone", "create", "clear"} => engine = FALSE /\ state # "working"
  /\ rtc \in {"gone", "create", "join", "clear"} => conn = "none" /\ notifying = "no"
  /\ rtc \in {"gone", "create", "join"} => connected = FALSE
  /\ rtc \in {"wait", "loop"} /\ notifying # "no" => conn = "joined"
  /\ rtc = "wait" /\ connected = TRUE => conn \in {"joined", "lost"}
  /\ rtc = "loop" => conn \in {"joined", "lost"}

LEMMA ConnInvStep ==
  ContextTypes /\ ThreadTypes /\ ThreadInv /\ ConnInv /\ [Next]_vars => ConnInv'
<1> SUFFICES ASSUME ContextTypes, ThreadTypes, ThreadInv, ConnInv, [Next]_vars PROVE ConnInv'
  OBVIOUS
<1>r. connected \in BOOLEAN /\ engine \in BOOLEAN
      /\ rtc \in {"gone", "create", "join", "wait", "loop", "leave", "destroy", "clear"}
  BY DEF ContextTypes, ThreadTypes
<1>q. \A c \in Callers : call[c].at = "create" => rtc = "gone"
  BY DEF ThreadInv
<1> USE <1>r, <1>q DEF ConnInv, contextVars, apiVars, libraryVars
<1>1. ASSUME NEW c \in Callers, NtwkInit(c) PROVE ConnInv'
  BY <1>1 DEF NtwkInit
<1>2. ASSUME NEW c \in Callers, NtwkStart(c) PROVE ConnInv'
  BY <1>2 DEF NtwkStart
<1>3. ASSUME NEW c \in Callers, NtwkStop(c) PROVE ConnInv'
  BY <1>3 DEF NtwkStop
<1>4. ASSUME NEW c \in Callers, NtwkUpdate(c) PROVE ConnInv'
  BY <1>4 DEF NtwkUpdate
<1>5. ASSUME NEW c \in Callers, StartAgent(c) PROVE ConnInv'
  BY <1>5 DEF StartAgent, Fails
<1>6. ASSUME NEW c \in Callers, UpdateAgent(c) PROVE ConnInv'
  BY <1>6 DEF UpdateAgent, Fails
<1>7. ASSUME NEW c \in Callers, CreateThread(c) PROVE ConnInv'
  BY <1>7 DEF CreateThread, Fails
<1>8. ASSUME NEW c \in Callers, StartReturns(c) PROVE ConnInv'
  BY <1>8 DEF StartReturns
<1>9. ASSUME NEW c \in Callers, RtcStop(c) PROVE ConnInv'
  BY <1>9 DEF RtcStop, Stopped
<1>10. ASSUME NEW c \in Callers, RtcStopped(c) PROVE ConnInv'
  BY <1>10 DEF RtcStopped, Stopped
<1>11. CASE RtcUnnamed
  BY <1>11 DEF RtcUnnamed, Moves
<1>12. CASE RtcCreates
  BY <1>12 DEF RtcCreates
<1>13. CASE RtcJoins
  BY <1>13 DEF RtcJoins
<1>14. CASE RtcWaits
  BY <1>14 DEF RtcWaits
<1>15. CASE RtcLoops
  BY <1>15 DEF RtcLoops, Moves
<1>16. CASE RtcLeaves
  BY <1>16 DEF RtcLeaves, Moves
<1>17. CASE RtcDestroys
  BY <1>17 DEF RtcDestroys, Moves
<1>18. CASE RtcExits
  BY <1>18 DEF RtcExits, Moves
<1>19. CASE Joined
  BY <1>19 DEF Joined
<1>20. CASE JoinedTells
  BY <1>20 DEF JoinedTells
<1>21. CASE JoinedReturns
  BY <1>21 DEF JoinedReturns
<1>22. CASE Lost
  BY <1>22 DEF Lost
<1>23. CASE Rejoined
  BY <1>23 DEF Rejoined
<1>24. CASE UNCHANGED vars
  BY <1>24 DEF vars
<1> QED
  BY <1>1, <1>2, <1>3, <1>4, <1>5, <1>6, <1>7, <1>8, <1>9, <1>10, <1>11, <1>12,
     <1>13, <1>14, <1>15, <1>16, <1>17, <1>18, <1>19, <1>20, <1>21, <1>22, <1>23, <1>24
  DEF Next, Calls, Caller, RtcThread, Callbacks

-----------------------------------------------------------------------------
(* What the transfer says of itself                                         *)

\* While nothing has failed, each call knows what is_started is and what the thread is.
FlagInv ==
  /\ \A c \in Callers : call[c].op \in {"start", "stop", "deinit"} => isStarted = FALSE
  /\ failed = FALSE =>
       /\ \A c \in Callers : call[c].op = "start" /\ call[c].at \in {"agent", "create"} => running = FALSE
       /\ \A c \in Callers : call[c].at = "wait start" => rtc \in {"create", "join", "wait", "loop"}
       /\ \A c \in Callers : call[c].op = "update" /\ call[c].at \in {"create", "wait start", "wait stop"} => isStarted = TRUE
       /\ (\A c \in Callers : call[c].op \in {"none", "update"}) /\ info = TRUE => isStarted = TRUE
       /\ (\A c \in Callers : call[c].op \in {"none", "update"}) /\ running = TRUE => isStarted = TRUE
       /\ (\A c \in Callers : call[c].at \in {"rest", "halt"}) /\ isStarted = TRUE => running = TRUE

LEMMA FlagInvStep ==
  ASSUME Overlap = FALSE
  PROVE  CallInv /\ ContextTypes /\ ThreadTypes /\ ThreadInv /\ FlagInv /\ [Next]_vars => FlagInv'
<1> SUFFICES ASSUME CallInv, ContextTypes, ThreadTypes, ThreadInv, FlagInv, [Next]_vars PROVE FlagInv'
  OBVIOUS
<1>s. \A c \in Callers : NtwkStop(c) => StopsAlone(c)
  BY OnlyStops
<1>r. /\ running \in BOOLEAN /\ isStarted \in BOOLEAN /\ info \in BOOLEAN /\ failed \in BOOLEAN
      /\ rtc \in {"gone", "create", "join", "wait", "loop", "leave", "destroy", "clear"}
  BY DEF ContextTypes, ThreadTypes
<1>p. \A c \in Callers : call[c].op \in Ops
  BY DEF CallInv, CallType
<1>u. CallsFit
  BY DEF CallInv
<1>v. \A c, d \in Callers : call[c].at # "rest" /\ call[d].at # "rest" => c = d
  BY DEF CallInv, CallsFit, Alone, Calling
<1>w. \A c, d \in Callers : call[c].at # "rest" /\ d # c => call[d].op = "none" /\ call[d].at = "rest"
  BY <1>u, <1>v DEF CallInv, CallsFit, Alone, Calling
<1>x. \A c \in Callers, at \in Positions : call[c].at # "rest" /\ Goes(c, at) => Only(c, call[c].op, at)
  BY OnlyGoes
<1>y. \A c \in Callers : call[c].at # "rest" /\ Returns(c) => Only(c, "none", "rest")
  BY OnlyReturns
<1>a. \A c \in Callers : call[c].at = "ask" => call[c].op = "update"
  BY <1>p, <1>u DEF CallsFit, Ops
<1>b. \A c \in Callers : call[c].at = "agent" => call[c].op = "start"
  BY <1>p, <1>u DEF CallsFit, Ops
<1>c. \A c \in Callers : StartAgent(c) =>
        \/ failed' = TRUE /\ Only(c, "none", "rest")
        \/ running = FALSE /\ Only(c, "start", "create") /\ UNCHANGED failed
  BY <1>b, <1>r, <1>x, <1>y DEF StartAgent, Fails, Positions
<1>d. \A c \in Callers : UpdateAgent(c) =>
        \/ failed' = TRUE /\ Only(c, "none", "rest")
        \/ info = TRUE /\ Only(c, "update", "create") /\ UNCHANGED failed
  BY <1>a, <1>r, <1>x, <1>y DEF UpdateAgent, Fails, Positions
<1>e. \A c \in Callers : CreateThread(c) =>
        \/ failed' = TRUE /\ Only(c, "none", "rest")
        \/ running = FALSE /\ rtc' = "create" /\ Only(c, call[c].op, "wait start") /\ UNCHANGED failed
  BY <1>r, <1>x, <1>y DEF CreateThread, Fails, Positions
<1>f. \A c \in Callers : call[c].at # "rest" /\ Stopped(c) =>
        \/ call[c].op = "update" /\ Only(c, "update", "ask") /\ UNCHANGED info
        \/ call[c].op \in {"stop", "deinit"} /\ Only(c, "none", "rest") /\ info' = FALSE
  BY <1>x, <1>y DEF Stopped, Positions
<1>g. \A c \in Callers : RtcStop(c) =>
        \/ /\ running = TRUE /\ running' = FALSE /\ Only(c, call[c].op, "wait stop") /\ UNCHANGED info
           /\ (call[c].op = "update" => UNCHANGED failed)
        \/ running = FALSE /\ Stopped(c) /\ UNCHANGED <<running, failed>>
  BY <1>r, <1>x DEF RtcStop, Forgiven, Positions
<1> USE <1>r, <1>p, <1>u
    DEF FlagInv, ThreadInv, Only, CallsFit, NoSem, Ops, Positions, contextVars, apiVars, libraryVars
<1>1. ASSUME NEW c \in Callers, NtwkInit(c) PROVE FlagInv'
  BY <1>1 DEF NtwkInit
<1>2. ASSUME NEW c \in Callers, NtwkStart(c) PROVE FlagInv'
  BY <1>2, OnlyEnters DEF NtwkStart
<1>3. ASSUME NEW c \in Callers, NtwkStop(c) PROVE FlagInv'
  BY <1>3, <1>s DEF NtwkStop, StopsAlone
<1>4. ASSUME NEW c \in Callers, NtwkUpdate(c) PROVE FlagInv'
  BY <1>4, OnlyEnters DEF NtwkUpdate
<1>5. ASSUME NEW c \in Callers, StartAgent(c) PROVE FlagInv'
  BY <1>5, <1>c, <1>w DEF StartAgent
<1>6. ASSUME NEW c \in Callers, UpdateAgent(c) PROVE FlagInv'
  BY ZenonT(60), <1>6, <1>a, <1>d, <1>w DEF UpdateAgent
<1>7. ASSUME NEW c \in Callers, CreateThread(c) PROVE FlagInv'
  BY ZenonT(60), <1>7, <1>e, <1>w DEF CreateThread
<1>8. ASSUME NEW c \in Callers, StartReturns(c) PROVE FlagInv'
  BY <1>8, <1>w, <1>y DEF StartReturns
<1>9. ASSUME NEW c \in Callers, RtcStop(c) PROVE FlagInv'
  <2>1. CASE running = TRUE
    BY ZenonT(60), <1>9, <2>1, <1>g, <1>w DEF RtcStop
  <2>2. CASE running = FALSE
    BY <1>9, <2>2, <1>f, <1>g, <1>w DEF RtcStop
  <2> QED
    BY <2>1, <2>2
<1>10. ASSUME NEW c \in Callers, RtcStopped(c) PROVE FlagInv'
  BY <1>10, <1>f, <1>w DEF RtcStopped
<1>11. CASE RtcUnnamed
  BY <1>11 DEF RtcUnnamed, Moves
<1>12. CASE RtcCreates
  BY <1>12 DEF RtcCreates
<1>13. CASE RtcJoins
  <2>1. PICK c \in Callers : call[c].at = "wait start"
    BY <1>13 DEF RtcJoins
  <2> QED
    BY <1>13, <2>1, <1>w DEF RtcJoins
<1>14. CASE RtcWaits
  <2>1. running = FALSE => \A c \in Callers : call[c].at # "wait start"
    BY <1>14, <1>v DEF RtcWaits
  <2> QED
    BY <1>14, <2>1 DEF RtcWaits
<1>15. CASE RtcLoops
  <2>1. \A c \in Callers : call[c].at # "wait start"
    BY <1>15, <1>v DEF RtcLoops, Moves
  <2> QED
    BY <1>15, <2>1 DEF RtcLoops, Moves
<1>16. CASE RtcLeaves
  BY <1>16 DEF RtcLeaves, Moves
<1>17. CASE RtcDestroys
  BY <1>17 DEF RtcDestroys, Moves
<1>18. CASE RtcExits
  BY <1>18 DEF RtcExits, Moves
<1>19. CASE Joined
  BY <1>19 DEF Joined
<1>20. CASE JoinedTells
  BY <1>20 DEF JoinedTells
<1>21. CASE JoinedReturns
  BY <1>21 DEF JoinedReturns
<1>22. CASE Lost
  BY <1>22 DEF Lost
<1>23. CASE Rejoined
  BY <1>23 DEF Rejoined
<1>24. CASE UNCHANGED vars
  BY <1>24 DEF vars
<1> QED
  BY <1>1, <1>2, <1>3, <1>4, <1>5, <1>6, <1>7, <1>8, <1>9, <1>10, <1>11, <1>12,
     <1>13, <1>14, <1>15, <1>16, <1>17, <1>18, <1>19, <1>20, <1>21, <1>22, <1>23, <1>24
  DEF Next, Calls, Caller, RtcThread, Callbacks

-----------------------------------------------------------------------------
(* Theorems                                                                 *)

\* Every variable keeps its type, with overlapping calls too.
THEOREM TransferTypeCorrect == Spec => []TypeOK
<1>1. Init => CallType /\ ContextTypes /\ ThreadTypes
  <2>1. Init => CallType
    BY DEF Init, CallType, Rest, Ops, Positions
  <2>2. Init => ContextTypes /\ ThreadTypes
    BY DEF Init, ContextTypes, ThreadTypes
  <2> QED
    BY <2>1, <2>2
<1>2. CallType /\ ContextTypes /\ ThreadTypes /\ [Next]_vars => (CallType /\ ContextTypes /\ ThreadTypes)'
  BY CallTypeStep, ContextTypesStep, ThreadTypesStep
<1>3. CallType /\ ContextTypes /\ ThreadTypes => TypeOK
  BY DEF CallType, ContextTypes, ThreadTypes, TypeOK, Ops, Positions
<1> QED
  BY <1>1, <1>2, <1>3, PTL DEF Spec

TransferInv == CallInv /\ ContextTypes /\ ThreadTypes /\ ThreadInv /\ ConnInv /\ FlagInv

LEMMA TransferInvariant == ASSUME Overlap = FALSE PROVE Spec => []TransferInv
<1>1. Init => TransferInv
  <2> SUFFICES ASSUME Init PROVE TransferInv
    OBVIOUS
  <2>1. CallInv
    BY DEF Init, CallInv, CallType, CallsFit, Alone, Calling, Rest, Ops, Positions
  <2>2. ContextTypes /\ ThreadTypes
    BY DEF Init, ContextTypes, ThreadTypes
  <2>3. ThreadInv /\ ConnInv /\ FlagInv
    BY DEF Init, ThreadInv, ConnInv, FlagInv, Rest
  <2> QED
    BY <2>1, <2>2, <2>3 DEF TransferInv
<1>2. TransferInv /\ [Next]_vars => TransferInv'
  BY CallInvStep, ContextTypesStep, ThreadTypesStep, ThreadInvStep, ConnInvStep, FlagInvStep DEF TransferInv
<1> QED
  BY <1>1, <1>2, PTL DEF Spec

\* One RTC thread: while calls do not overlap, a thread that has not joined or is on its
\* way out has a caller waiting for it, and a thread is created only where there is none.
THEOREM OneThreadAtATime == ASSUME Overlap = FALSE PROVE Spec => []OneThread
<1>1. TransferInv => OneThread
  BY DEF TransferInv, ThreadTypes, ThreadInv, OneThread
<1> QED
  BY <1>1, TransferInvariant, PTL

\* A thread passes on audio only over its own connection, and leaves nothing of it.
THEOREM RunsStayApart == ASSUME Overlap = FALSE PROVE Spec => []RunsApart
<1>1. TransferInv => JoinedByItself
  BY DEF TransferInv, ConnInv, JoinedByItself
<1>2. TransferInv => NothingLeft
  BY DEF TransferInv, ContextTypes, ThreadTypes, ConnInv, NothingLeft
<1> QED
  BY <1>1, <1>2, TransferInvariant, PTL DEF RunsApart

LEMMA RestingCalls == ASSUME NEW c, call[c] = Rest PROVE call[c].op = "none" /\ call[c].at = "rest"
  BY DEF Rest

\* Until something fails, is_started says whether the thread runs.
THEOREM FlagIsTrue == ASSUME Overlap = FALSE PROVE Spec => []FlagMatchesThread
<1>1. TransferInv => FlagMatchesThread
  <2> SUFFICES ASSUME TransferInv, AllReturned, ~failed
               PROVE  (isStarted <=> running) /\ (running => rtc # "gone")
    BY DEF FlagMatchesThread
  <2>t. running \in BOOLEAN /\ isStarted \in BOOLEAN /\ failed = FALSE
    BY DEF TransferInv, ContextTypes, ThreadTypes
  <2>1. \A c \in Callers : call[c].op = "none"
    BY RestingCalls DEF AllReturned
  <2>2. \A c \in Callers : call[c].at = "rest"
    BY RestingCalls DEF AllReturned
  <2>3. isStarted = TRUE => running = TRUE
    BY <2>2, <2>t DEF TransferInv, FlagInv
  <2>4. running = TRUE => isStarted = TRUE
    BY <2>1, <2>t DEF TransferInv, FlagInv
  <2>5. running = TRUE => rtc # "gone"
    BY DEF TransferInv, ThreadInv
  <2> QED
    BY <2>t, <2>3, <2>4, <2>5
<1> QED
  BY <1>1, TransferInvariant, PTL

-----------------------------------------------------------------------------
(*                                 AppEvent                                 *)

-----------------------------------------------------------------------------
(* Types                                                                     *)

\* A queue that holds nothing, as at power-up
LEMMA EmptyQueue ==
  ASSUME NEW q, q = <<>>
  PROVE  q \in Seq(Events) /\ Len(q) = 0 /\ Len(q) <= QueueLimit /\ 1..Len(q) = {}
  BY EventAssumption

LEMMA Changes ==
  ASSUME NEW e \in Events
  PROVE  /\ Raised(e) \subseteq HighPriority \cup {LowBattery}
         /\ Drawn(e) \subseteq Tickets
         /\ Lit(e) \subseteq Indications
  BY DEF Raised, Drawn, Lit, HighPriority, LowBattery, Tickets, Indications

LEMMA SelectedType ==
  ASSUME NEW t \in SUBSET Tickets
  PROVE  Selected(t) \in (t \ {"ota"}) \cup {None}
  BY DEF Selected, Tickets

LEMMA SendType ==
  ASSUME queue \in Seq(Events), Len(queue) <= QueueLimit, NEW e \in Events, Send(e)
  PROVE  queue' \in Seq(Events) /\ Len(queue') <= QueueLimit
  BY EventAssumption DEF Send, Room

LEMMA TypeInit == EventInit => EventTypeOK
  <1>1. SUFFICES ASSUME EventInit PROVE EventTypeOK
    OBVIOUS
  <1>2. queue \in Seq(Events) /\ Len(queue) <= QueueLimit
    BY <1>1, EmptyQueue DEF EventInit
  <1>3. QED
    BY <1>1, <1>2 DEF EventInit, EventTypeOK, Speech, Tickets, Indications, None, Off

LEMMA TypeNext == ASSUME EventTypeOK, [EventNext]_eventVars PROVE EventTypeOK'
  <1>1. CASE Recognized
    BY <1>1, SendType DEF Recognized, EventTypeOK, stateVars, timerVars, Events
  <1>2. CASE Announced
    BY <1>2, SendType DEF Announced, EventTypeOK, stateVars, timerVars, sourceVars
  <1>3. CASE Handle
    <2>1. /\ Head(queue) \in Events
          /\ Tail(queue) \in Seq(Events) /\ Len(Tail(queue)) <= QueueLimit
      BY <1>3, EventAssumption DEF Handle, EventTypeOK
    <2>2. QED
      BY <1>3, <2>1, Changes DEF Handle, EventTypeOK, timerVars, sourceVars
  <1>4. CASE Finish
    <2>1. timer' \in (Tickets \ {"ota"}) \cup {Off} /\ lastSelected' \in (Tickets \ {"ota"}) \cup {None}
      BY <1>4, SelectedType DEF Finish, UpdateCountdown, EventTypeOK, timerVars
    <2>2. warnings' \subseteq HighPriority \cup {LowBattery}
      BY <1>4 DEF Finish, LedBlink, EventTypeOK
    <2>3. QED
      BY <1>4, <2>1, <2>2 DEF Finish, EventTypeOK, sourceVars
  <1>5. CASE TimeIsUp
    <2>1. queue' \in Seq(Events) /\ Len(queue') <= QueueLimit
      BY <1>5, EmptyQueue DEF TimeIsUp
    <2>2. QED
      BY <1>5, <2>1 DEF TimeIsUp, EventTypeOK, Speech, Tickets, Indications, None, Off
  <1>6. CASE UNCHANGED eventVars
    BY <1>6 DEF eventVars, EventTypeOK, stateVars, timerVars, sourceVars
  <1>7. QED
    BY <1>1, <1>2, <1>3, <1>4, <1>5, <1>6 DEF EventNext

\* Every variable keeps its type, and the queue its limit, whoever posts to it.
THEOREM EventsTypeCorrect == EventSpec => []EventTypeOK
  BY TypeInit, TypeNext, PTL DEF EventSpec

-----------------------------------------------------------------------------
(* The timer and the faults.  handle_battery() takes no ticket and leaves    *)
(* the timer alone, so the timer still fits while such an event is handled.  *)

Fits(t) ==
  /\ timer # Off => "ota" \notin t /\ timer = Selected(t)
  /\ "ota" \notin t /\ Selected(t) \notin {None, "network error"} => timer # Off

TimerInv ==
  /\ handling \in Battery \cup {None} => Fits(tickets)
  /\ timer # Off => timer = lastSelected
  /\ FaultsAreTimed

LEMMA TimerInit == EventInit => TimerInv
  BY DEF EventInit, TimerInv, Fits, Selected, FaultsAreTimed, Off, None, Battery

LEMMA TimerNext == ASSUME EventTypeOK, TimerInv, [EventNext]_eventVars PROVE TimerInv'
  <1>1. CASE Recognized \/ Announced \/ UNCHANGED eventVars
    BY <1>1 DEF Recognized, Announced, eventVars, stateVars, timerVars, sourceVars, TimerInv, Fits,
       FaultsAreTimed
  <1>2. CASE Handle
    <2>1. PICK e \in Events : e = Head(queue)
      BY <1>2 DEF Handle, EventTypeOK
    <2>2. handling = None /\ UNCHANGED timerVars /\ handling' = e
      BY <1>2, <2>1 DEF Handle
    <2>3. e \in Battery => UNCHANGED tickets
      BY <1>2, <2>1 DEF Handle, Drawn, Returned, Battery, Speech, Status, Agent, Ota
    <2>4. None \notin Events
      BY DEF None, Events, Battery, Speech, Status, Agent, Ota
    <2>5. FaultsAreTimed'
      BY <1>2, <2>1 DEF Handle, Drawn, Returned, Raised, Cleared, FaultsAreTimed, TimerInv, Events,
         Battery, Speech, Status, Agent, Ota, HighPriority, LowBattery
    <2>6. QED
      BY <2>2, <2>3, <2>4, <2>5 DEF TimerInv, Fits, timerVars
  <1>3. CASE Finish
    <2>1. FaultsAreTimed'
      BY <1>3 DEF Finish, LedBlink, TimerInv, FaultsAreTimed
    <2>2. Fits(tickets)' /\ (timer' # Off => timer' = lastSelected')
      <3>1. CASE handling \in Battery
        BY <1>3, <3>1 DEF Finish, TimerInv, Fits, timerVars
      <3>2. CASE handling \notin Battery
        <4>1. tickets \in SUBSET Tickets /\ UNCHANGED tickets /\ UpdateCountdown(tickets)
          BY <1>3, <3>2 DEF Finish, EventTypeOK
        <4>2. QED
          BY <4>1 DEF TimerInv, UpdateCountdown, Fits, Selected, timerVars, Off, None, Tickets
      <3>3. QED
        BY <3>1, <3>2
    <2>3. QED
      BY <2>1, <2>2 DEF TimerInv
  <1>4. CASE TimeIsUp
    BY <1>4 DEF TimeIsUp, TimerInv, Fits, Selected, FaultsAreTimed, Off, None
  <1>5. QED
    BY <1>1, <1>2, <1>3, <1>4 DEF EventNext

\* The timer is armed for the reason the device has now, and a fault the device cannot
\* leave by itself is timed, for a queue of any length and any loss of events.
THEOREM SleepIsAlwaysTimed == EventSpec => []SleepIsTimed
  <1>1. TimerInv => SleepIsTimed
    BY DEF TimerInv, SleepIsTimed, TimerFitsTickets, Fits
  <1>2. QED
    BY <1>1, TypeInit, TypeNext, TimerInit, TimerNext, PTL DEF EventSpec

-----------------------------------------------------------------------------
(* Standby                                                                   *)

LEMMA StandbyNext == ASSUME EventTypeOK, StandbyAgrees, [EventNext]_eventVars PROVE StandbyAgrees'
  <1>1. CASE Recognized \/ Announced \/ Finish \/ UNCHANGED eventVars
    BY <1>1 DEF Recognized, Announced, Finish, eventVars, stateVars, timerVars, sourceVars, StandbyAgrees
  <1>2. CASE Handle
    <2>1. PICK e \in Events : e = Head(queue)
      BY <1>2 DEF Handle, EventTypeOK
    <2>2. (standby' <=> "standby" \in tickets')
      BY <1>2, <2>1 DEF Handle, Drawn, Returned, StandbyAgrees, EventTypeOK
    <2>3. "standby" \in indicates' => standby'
      BY <1>2, <2>1 DEF Handle, Lit, Dimmed, ShowsStandby, StandbyAgrees, EventTypeOK
    <2>4. QED
      BY <2>2, <2>3 DEF StandbyAgrees
  <1>3. CASE TimeIsUp
    BY <1>3 DEF TimeIsUp, StandbyAgrees
  <1>4. QED
    BY <1>1, <1>2, <1>3 DEF EventNext

\* The flag, the ticket and the LED agree about standby before and after every event.
THEOREM StandbyAlwaysAgrees == EventSpec => []StandbyAgrees
  <1>1. EventInit => StandbyAgrees
    BY DEF EventInit, StandbyAgrees
  <1>2. QED
    BY <1>1, TypeInit, TypeNext, StandbyNext, PTL DEF EventSpec

-----------------------------------------------------------------------------
(* What was heard last is in the queue, or has been handled.                 *)

Silent(i) == \A j \in i..Len(queue) : queue[j] \notin Speech

HeardInv ==
  ~missed =>
    /\ \A i \in 1..Len(queue) : queue[i] \in Speech /\ Silent(i + 1) => queue[i] = asr
    /\ Silent(1) => (standby <=> asr = "STANDBY")

LEMMA HeardNext == ASSUME EventTypeOK, HeardInv, [EventNext]_eventVars PROVE HeardInv'
  <1>0. queue \in Seq(Events) /\ Len(queue) \in Nat
    BY DEF EventTypeOK
  <1>1. CASE Recognized
    <2>1. PICK e \in Speech : asr' = e /\ Send(e) /\ missed' = ~Room
      BY <1>1 DEF Recognized
    <2>2. SUFFICES ASSUME ~missed' PROVE HeardInv'
      BY DEF HeardInv
    <2>3. queue' = Append(queue, e)
      BY <2>1, <2>2 DEF Send
    <2>4. /\ Len(queue') = Len(queue) + 1
          /\ queue'[Len(queue) + 1] = e
          /\ \A i \in 1..Len(queue) : queue'[i] = queue[i]
      BY <1>0, <2>3
    <2>5. QED
      BY <1>0, <2>1, <2>4 DEF HeardInv, Silent
  <1>2. CASE Announced
    <2>1. PICK e \in Events \ Speech : Send(e) /\ UNCHANGED <<standby, asr, missed>>
      BY <1>2 DEF Announced, stateVars, sourceVars
    <2>2. CASE queue' = queue
      BY <2>1, <2>2 DEF HeardInv, Silent
    <2>3. CASE queue' = Append(queue, e)
      <3>1. /\ Len(queue') = Len(queue) + 1
            /\ queue'[Len(queue) + 1] = e
            /\ \A i \in 1..Len(queue) : queue'[i] = queue[i]
        BY <1>0, <2>3
      <3>2. ASSUME NEW i \in 1..Len(queue) + 1 PROVE Silent(i)' => Silent(i)
        BY <1>0, <3>1, <3>2 DEF Silent
      <3>3. QED
        BY <1>0, <2>1, <3>1, <3>2 DEF HeardInv
    <2>4. QED
      BY <2>1, <2>2, <2>3 DEF Send
  <1>3. CASE Handle
    <2>1. /\ queue # <<>> /\ queue' = Tail(queue) /\ UNCHANGED <<asr, missed>>
          /\ standby' = ((standby \/ Head(queue) = "STANDBY") /\ Head(queue) # "WAKEUP")
      BY <1>3 DEF Handle, sourceVars
    <2>2. /\ Len(queue') = Len(queue) - 1 /\ Len(queue) >= 1 /\ Head(queue) = queue[1]
          /\ \A i \in 1..Len(queue') : queue'[i] = queue[i + 1]
      BY <1>0, <2>1
    <2>3. ASSUME NEW i \in 1..Len(queue) PROVE Silent(i)' => Silent(i + 1)
      <3>1. ASSUME NEW j \in (i + 1)..Len(queue)
            PROVE  j - 1 \in i..Len(queue') /\ queue[j] = queue'[j - 1]
        BY <1>0, <2>2
      <3>2. QED
        BY <3>1 DEF Silent
    <2>4. ASSUME ~missed', NEW i \in 1..Len(queue'), queue'[i] \in Speech, Silent(i + 1)'
          PROVE  queue'[i] = asr'
      BY <1>0, <2>1, <2>2, <2>3, <2>4 DEF HeardInv
    <2>5. ASSUME ~missed', Silent(1)' PROVE standby' <=> asr' = "STANDBY"
      <3>1. Silent(2) /\ (queue[1] \in Speech => queue[1] = asr)
        BY <1>0, <2>1, <2>2, <2>3, <2>5 DEF HeardInv
      <3>2. CASE queue[1] \in Speech
        BY <2>1, <2>2, <3>1, <3>2 DEF Speech
      <3>3. CASE queue[1] \notin Speech
        <4>1. Silent(1)
          BY <1>0, <2>2, <3>1, <3>3 DEF Silent
        <4>2. standby <=> asr = "STANDBY"
          BY <2>1, <2>5, <4>1 DEF HeardInv
        <4>3. QED
          BY <2>1, <2>2, <3>3, <4>2 DEF Speech, EventTypeOK
      <3>4. QED
        BY <3>2, <3>3
    <2>6. QED
      BY <2>4, <2>5 DEF HeardInv
  <1>4. CASE Finish
    BY <1>4 DEF Finish, HeardInv, Silent, sourceVars
  <1>5. CASE TimeIsUp
    <2>1. 1..Len(queue') = {}
      BY <1>5, EmptyQueue DEF TimeIsUp
    <2>2. QED
      BY <1>5, <2>1 DEF TimeIsUp, HeardInv
  <1>6. CASE UNCHANGED eventVars
    BY <1>6 DEF eventVars, stateVars, sourceVars, HeardInv, Silent
  <1>7. QED
    BY <1>1, <1>2, <1>3, <1>4, <1>5, <1>6 DEF EventNext

\* Once the queue is empty the device acts on what the recognition heard last, in a
\* queue of any length, unless that very event was dropped.
THEOREM SettledAlwaysCurrent == EventSpec => []SettledIsCurrent
  <1>1. EventInit => HeardInv
    <2>1. EventInit => 1..Len(queue) = {}
      BY EmptyQueue DEF EventInit
    <2>2. QED
      BY <2>1 DEF EventInit, HeardInv
  <1>2. EventTypeOK /\ HeardInv => SettledIsCurrent
    BY DEF HeardInv, SettledIsCurrent, Silent
  <1>3. QED
    BY <1>1, <1>2, TypeInit, TypeNext, HeardNext, PTL DEF EventSpec
=============================================================================
