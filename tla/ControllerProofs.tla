---------------------------- MODULE ControllerProofs ----------------------------
(***************************************************************************)
(* Controller for any networks, any number of saved credentials and an event *)
(* queue of any length: what the SDK is told, who may use the Wi-Fi, what    *)
(* outlives its users, and the list of credentials.  The invariant says at   *)
(* which places of controller_run() each of the two workers may exist.       *)
(***************************************************************************)
EXTENDS Controller, TLAPS, SequenceTheorems

Distinct(list) == \A i, j \in DOMAIN list : list[i] = list[j] => i = j

-----------------------------------------------------------------------------
(* The list of credentials                                                   *)

LEMMA ListsAre ==
  ASSUME NEW list
  PROVE  list \in Lists <=> list \in Seq(Networks) /\ Len(list) <= MaxCredentials
  <1>1. ASSUME list \in Lists PROVE list \in Seq(Networks) /\ Len(list) <= MaxCredentials
    BY <1>1, ProvisioningAssumption DEF Lists
  <1>2. ASSUME list \in Seq(Networks), Len(list) <= MaxCredentials PROVE list \in Lists
    <2>1. Len(list) \in 0..MaxCredentials /\ list \in [1..Len(list) -> Networks]
      BY <1>2, ProvisioningAssumption
    <2>2. QED
      BY <2>1 DEF Lists
  <1>3. QED
    BY <1>1, <1>2

LEMMA NoCredentials == <<>> \in Lists /\ Distinct(<<>>) /\ Len(<<>>) <= MaxCredentials
  <1>1. <<>> \in Seq(Networks) /\ Len(<<>>) = 0 /\ DOMAIN <<>> = {}
    OBVIOUS
  <1>2. 0 <= MaxCredentials
    BY ProvisioningAssumption
  <1>3. QED
    BY <1>1, <1>2, ListsAre DEF Distinct

\* Deleting one credential closes the gap.
LEMMA WithoutList ==
  ASSUME NEW list \in Seq(Networks), NEW i \in 1..Len(list)
  PROVE  /\ Without(list, i) \in Seq(Networks)
         /\ Len(Without(list, i)) = Len(list) - 1
         /\ \A j \in 1..(Len(list) - 1) :
              Without(list, i)[j] = IF j < i THEN list[j] ELSE list[j + 1]
  <1> DEFINE front == SubSeq(list, 1, i - 1)
             back == SubSeq(list, i + 1, Len(list))
  <1>1. /\ front \in Seq(Networks) /\ Len(front) = i - 1
        /\ \A j \in 1..(i - 1) : front[j] = list[j]
    OBVIOUS
  <1>2. /\ back \in Seq(Networks) /\ Len(back) = Len(list) - i
        /\ \A j \in 1..(Len(list) - i) : back[j] = list[i + j]
    OBVIOUS
  <1>3. Without(list, i) = front \o back
    BY DEF Without
  <1> HIDE DEF front, back
  <1>4. ASSUME NEW j \in 1..(Len(list) - 1)
        PROVE  (front \o back)[j] = IF j < i THEN list[j] ELSE list[j + 1]
    <2>1. CASE j < i
      BY <1>1, <1>2, <2>1
    <2>2. CASE ~(j < i)
      <3>1. (front \o back)[j] = back[j - (i - 1)]
        BY <1>1, <1>2, <2>2
      <3>2. j - (i - 1) \in 1..(Len(list) - i) /\ i + (j - (i - 1)) = j + 1
        BY <2>2
      <3>3. QED
        BY <1>2, <2>2, <3>1, <3>2
    <2>3. QED
      BY <2>1, <2>2
  <1>5. /\ front \o back \in Seq(Networks)
        /\ Len(front \o back) = Len(list) - 1
    <2>0. front \in Seq(Networks) /\ back \in Seq(Networks)
      BY <1>1, <1>2
    <2>1. /\ front \o back \in Seq(Networks)
          /\ Len(front \o back) = Len(front) + Len(back)
      BY <2>0, ConcatProperties
    <2>2. Len(list) \in Nat
      OBVIOUS
    <2>3. QED
      BY <1>1, <1>2, <2>1, <2>2
  <1>6. \A j \in 1..(Len(list) - 1) :
          (front \o back)[j] = IF j < i THEN list[j] ELSE list[j + 1]
    BY <1>4
  <1>7. QED
    BY <1>3, <1>5, <1>6

LEMMA Prepended ==
  ASSUME NEW list \in Seq(Networks), NEW n \in Networks
  PROVE  /\ <<n>> \o list \in Seq(Networks)
         /\ Len(<<n>> \o list) = Len(list) + 1
         /\ (<<n>> \o list)[1] = n
         /\ \A j \in 2..(Len(list) + 1) : (<<n>> \o list)[j] = list[j - 1]
  <1>1. /\ <<n>> \in Seq(Networks) /\ Len(<<n>>) = 1 /\ <<n>>[1] = n /\ Len(list) \in Nat
    OBVIOUS
  <1>2. /\ <<n>> \o list \in Seq(Networks) /\ Len(<<n>> \o list) = Len(list) + 1
        /\ (<<n>> \o list)[1] = n
    BY <1>1
  <1>3. ASSUME NEW j \in 2..(Len(list) + 1) PROVE (<<n>> \o list)[j] = list[j - 1]
    BY <1>1, <1>3
  <1>4. QED
    BY <1>2, <1>3

\* Adding a credential, deleting one and moving one to the front give a list that fits
\* its record and has no network twice.
LEMMA AddedKeeps ==
  ASSUME NEW list \in Lists, Distinct(list), NEW n \in Networks
  PROVE  Added(list, n) \in Lists /\ Distinct(Added(list, n))
  <1>1. list \in Seq(Networks) /\ Len(list) <= MaxCredentials /\ Len(list) \in Nat
    BY ListsAre
  <1>2. CASE \E i \in DOMAIN list : list[i] = n
    BY <1>2 DEF Added
  <1>3. CASE ~\E i \in DOMAIN list : list[i] = n
    <2> DEFINE k == IF Len(list) < MaxCredentials THEN Len(list) ELSE MaxCredentials - 1
               new == <<n>> \o SubSeq(list, 1, k)
    <2>1. k \in 0..Len(list) /\ k + 1 <= MaxCredentials
      BY <1>1, ProvisioningAssumption
    <2>2. Added(list, n) = new
      BY <1>3 DEF Added
    <2> HIDE DEF k
    <2>3. /\ new \in Seq(Networks) /\ Len(new) = k + 1
          /\ new[1] = n
          /\ \A j \in 2..(k + 1) : new[j] = list[j - 1]
      <3>1. /\ SubSeq(list, 1, k) \in Seq(Networks) /\ Len(SubSeq(list, 1, k)) = k
            /\ \A j \in 1..k : SubSeq(list, 1, k)[j] = list[j]
        BY <1>1, <2>1
      <3>2. QED
        BY <2>1, <3>1, Prepended
    <2> HIDE DEF new
    <2>4. new \in Lists
      BY <2>1, <2>3, ListsAre
    <2>5. \A j \in 2..(k + 1) : j - 1 \in DOMAIN list /\ new[j] = list[j - 1] /\ new[j] # n
      BY <1>1, <1>3, <2>1, <2>3
    <2>6. DOMAIN new = 1..(k + 1)
      BY <2>3
    <2>7. Distinct(new)
      <3>1. SUFFICES ASSUME NEW i \in 1..(k + 1), NEW j \in 1..(k + 1), new[i] = new[j]
                     PROVE  i = j
        BY <2>6 DEF Distinct
      <3>2. CASE i = 1 \/ j = 1
        BY <2>1, <2>3, <2>5, <3>1, <3>2
      <3>3. CASE i # 1 /\ j # 1
        <4>1. i - 1 \in DOMAIN list /\ j - 1 \in DOMAIN list /\ list[i - 1] = list[j - 1]
          BY <2>1, <2>5, <3>1, <3>3
        <4>2. i - 1 = j - 1
          BY <4>1 DEF Distinct
        <4>3. QED
          BY <2>1, <4>2
      <3>4. QED
        BY <3>2, <3>3
    <2>8. QED
      BY <2>2, <2>4, <2>7
  <1>4. QED
    BY <1>2, <1>3

LEMMA EditsKeep ==
  ASSUME NEW list \in Lists, Distinct(list), NEW new \in Edits(list)
  PROVE  new \in Lists /\ Distinct(new)
  <1>1. list \in Seq(Networks) /\ Len(list) <= MaxCredentials /\ DOMAIN list = 1..Len(list)
    BY ListsAre
  <1>2. PICK i \in 1..Len(list) : new = <<list[i]>> \o Without(list, i) \/ new = Without(list, i)
    BY <1>1 DEF Edits
  <1> DEFINE rest == Without(list, i)
             place == [j \in 1..(Len(list) - 1) |-> IF j < i THEN j ELSE j + 1]
  <1>3. /\ rest \in Seq(Networks) /\ Len(rest) = Len(list) - 1 /\ Len(list) \in Nat \ {0}
        /\ DOMAIN rest = 1..(Len(list) - 1)
        /\ \A j \in 1..(Len(list) - 1) : rest[j] = IF j < i THEN list[j] ELSE list[j + 1]
    <2>1. Len(list) \in Nat \ {0}
      BY <1>1
    <2>2. /\ rest \in Seq(Networks) /\ Len(rest) = Len(list) - 1
          /\ \A j \in 1..(Len(list) - 1) : rest[j] = IF j < i THEN list[j] ELSE list[j + 1]
      BY <1>1, WithoutList
    <2> HIDE DEF rest
    <2>3. QED
      BY <2>1, <2>2
  <1> HIDE DEF rest
  <1>4. Distinct(rest) /\ \A j \in 1..(Len(list) - 1) : rest[j] # list[i]
    <2>1. ASSUME NEW j \in 1..(Len(list) - 1)
          PROVE  /\ place[j] \in 1..Len(list) /\ place[j] # i
                 /\ rest[j] = list[place[j]]
      BY <1>3
    <2>2. ASSUME NEW j \in 1..(Len(list) - 1), NEW k \in 1..(Len(list) - 1), place[j] = place[k]
          PROVE  j = k
      BY <1>3, <2>2
    <2> HIDE DEF place
    <2>3. ASSUME NEW j \in 1..(Len(list) - 1), NEW k \in 1..(Len(list) - 1), rest[j] = rest[k]
          PROVE  j = k
      <3>1. place[j] = place[k]
        BY <1>1, <2>1, <2>3 DEF Distinct
      <3>2. QED
        BY <2>2, <3>1
    <2>4. ASSUME NEW j \in 1..(Len(list) - 1) PROVE rest[j] # list[i]
      BY <1>1, <2>1 DEF Distinct
    <2>5. QED
      BY <1>3, <2>3, <2>4 DEF Distinct
  <1>5. CASE new = rest
    BY <1>1, <1>3, <1>4, <1>5, ListsAre, ProvisioningAssumption
  <1>6. CASE new = <<list[i]>> \o rest
    <2>1. list[i] \in Networks /\ Len(list) \in Nat
      BY <1>1
    <2>2. /\ new \in Seq(Networks) /\ Len(new) = Len(list) /\ new[1] = list[i]
          /\ \A j \in 2..Len(list) : new[j] = rest[j - 1]
      BY <1>3, <1>6, <2>1, Prepended
    <2>3. Distinct(new)
      <3>1. SUFFICES ASSUME NEW j \in 1..Len(list), NEW k \in 1..Len(list), new[j] = new[k]
                     PROVE  j = k
        BY <2>2 DEF Distinct
      <3>2. CASE j = 1 \/ k = 1
        BY <1>1, <1>4, <2>2, <3>1, <3>2
      <3>3. CASE j # 1 /\ k # 1
        <4>1. j - 1 \in DOMAIN rest /\ k - 1 \in DOMAIN rest /\ rest[j - 1] = rest[k - 1]
          BY <1>1, <1>3, <2>2, <3>1, <3>3
        <4>2. j - 1 = k - 1
          BY <1>4, <4>1 DEF Distinct
        <4>3. QED
          BY <1>1, <4>2
      <3>4. QED
        BY <3>2, <3>3
    <2>4. QED
      BY <1>1, <2>2, <2>3, ListsAre
  <1>7. QED
    BY <1>2, <1>5, <1>6 DEF rest

-----------------------------------------------------------------------------
(* The invariant: where the controller is while the network worker or the    *)
(* provisioning may exist.  A worker leaves only when it is asked to; a      *)
(* completed provisioning has nothing more to do with the Wi-Fi; and only a  *)
(* network that has been tried is saved.                                     *)

OnNetwork == {"await", "prompt", "boot", "run", "poll", "end"}

ControlInv ==
  /\ sdk # "stopped" \/ heard # None => at \in {"run", "poll", "end"}
  /\ published => at \in (OnNetwork \ {"await"}) \cup {"leave", "cleanup"}
  /\ at = "boot" => published
  /\ at = "join" => then \in {"provision", "drop"}
  /\ at = "join portal" => then \in {"ensure", "cleanup", "exited"}
  /\ SdkIsTold

NetworkInv ==
  /\ ContextOutlivesUsers
  /\ worker \in {"leave", "ended"} => stopping
  /\ at \in OnNetwork => ~stopping /\ worker # Absent
  /\ context => at \in OnNetwork \cup {"leave", "join", "cleanup", "drop", "exited"}

PortalInv ==
  /\ PortalOutlivesUsers
  /\ state = "completed" =>
       ~ap /\ ~scanning /\ ~station /\ portalWorker \in {"ending", "ended", Absent}
  /\ portal => at \in {"provisioning", "join portal", "cleanup", "drop", "exited"}
  /\ portal => ~context /\ ~published
  /\ at = "join portal" => portal
  /\ portalWorker \in {"try", "wait", "save"} => candidate \in Networks

Inv == TypeOK /\ ControlInv /\ NetworkInv /\ PortalInv /\ ListsAgree

LEMMA InvInit == Init => Inv
  <1>1. SUFFICES ASSUME Init PROVE Inv
    OBVIOUS
  <1>2. /\ <<>> \in Lists /\ Distinct(<<>>) /\ Len(<<>>) <= MaxCredentials
        /\ \A n \in Networks : /\ <<n>> \in Lists /\ Distinct(<<n>>)
                               /\ Len(<<n>>) <= MaxCredentials
    <2>1. ASSUME NEW n \in Networks
          PROVE  <<n>> \in Seq(Networks) /\ Len(<<n>>) = 1 /\ DOMAIN <<n>> = {1}
      OBVIOUS
    <2>2. 1 <= MaxCredentials
      BY ProvisioningAssumption
    <2>3. QED
      BY <2>1, <2>2, NoCredentials, ListsAre DEF Distinct
  <1>3. held \in Lists /\ stored \in Lists /\ Distinct(stored) /\ Len(stored) <= MaxCredentials
    BY <1>1, <1>2 DEF Init, PortalInit
  <1>4. queue \in Seq(Presses) /\ Len(queue) <= QueueCap
    BY <1>1, ControllerAssumption DEF Init
  <1>5. TypeOK
    BY <1>1, <1>3, <1>4 DEF ControlTypeOK, Init, NetworkInit, PortalInit, TypeOK, ControlTypeOK, NetworkTypeOK, PortalTypeOK,
       LinkTypeOK, Absent, None, Nobody, Linked
  <1>6. ControlInv /\ NetworkInv /\ PortalInv /\ ListsAgree
    BY <1>1, <1>3 DEF Init, NetworkInit, PortalInit, ControlInv, SdkIsTold, NetworkInv, PortalInv,
       ContextOutlivesUsers, PortalOutlivesUsers, OnNetwork, ListsAgree, Distinct, Absent, None
  <1>7. QED
    BY <1>5, <1>6 DEF Inv

-----------------------------------------------------------------------------
(* The two workers                                                           *)

LEMMA NetworkStepKeeps == ASSUME Inv, NetworkStep PROVE Inv'
  <1> USE DEF Inv, TypeOK
  <1>1. UNCHANGED <<provisioningVars, controllerVars>>
    BY DEF NetworkStep
  <1>2. UNCHANGED <<context, stopping, attached>>
    BY DEF NetworkStep, Worker, FindExisting, Connect, WaitForIp, BackOff, Tell, Report, Watch,
       Reconnect, WaitAgain, Leave, Goes
  <1>3. /\ NetworkTypeOK'
        /\ worker # Absent /\ worker' # Absent
        /\ worker' \in {"leave", "ended"} => stopping
    BY ZenonT(60), <1>2 DEF NetworkTypeOK, LinkTypeOK, NetworkStep, Worker, FindExisting, Connect, WaitForIp,
       BackOff, Tell, Report, Watch, Reconnect, WaitAgain, Leave, Goes, StopSta, StaStopped,
       StaStarted, StaStops, StaStarts, StopScan, Absent, Linked, NetworkInv
  <1>4. PortalTypeOK'
    BY <1>1 DEF PortalTypeOK, provisioningVars, ownership, lists
  <1>5. ControlTypeOK'
    BY ZenonT(60), <1>1 DEF ControlTypeOK, controllerVars, runVars, buttonVars, sdkVars
  <1>6. ControlInv'
    BY <1>1 DEF ControlInv, SdkIsTold, controllerVars, runVars, buttonVars, sdkVars
  <1>7. NetworkInv'
    BY <1>1, <1>2, <1>3 DEF NetworkInv, ContextOutlivesUsers, controllerVars, runVars
  <1>8. PortalInv' /\ ListsAgree'
    BY <1>1, <1>2 DEF PortalInv, PortalOutlivesUsers, ListsAgree, provisioningVars, controllerVars,
       runVars, ownership, lists
  <1>9. QED
    BY <1>3, <1>4, <1>5, <1>6, <1>7, <1>8

LEMMA PortalStepKeeps == ASSUME Inv, PortalStep PROVE Inv'
  <1> USE DEF Inv, TypeOK, PortalTypeOK, LinkTypeOK, ownership, lists, radio
  <1>1. UNCHANGED <<workerVars, controllerVars>>
    BY DEF PortalStep
  <1>2. UNCHANGED <<portal, portalStopping, portalAttached>> /\ portalWorker # Absent
        /\ portalWorker' # Absent /\ portal
    BY DEF PortalStep, Portal, Open, Scan, Edit, Submit, Exit, Try, Wait, SaveCandidate, Close,
       ReleaseWifi, EndPortal, Continues, ServesAgain, Absent, PortalInv, PortalOutlivesUsers
  <1>3. /\ held' = stored' /\ held' \in Lists /\ Distinct(stored')
    <2>1. held = stored /\ held \in Lists /\ Distinct(held)
      BY <1>2 DEF ListsAgree, Distinct
    <2>2. CASE Edit
      BY <2>1, <2>2, EditsKeep DEF Edit, Save
    <2>3. CASE SaveCandidate
      BY <2>1, <2>3, AddedKeeps DEF SaveCandidate, Save, PortalInv
    <2>4. CASE UNCHANGED lists
      BY <2>1, <2>4
    <2>5. QED
      BY <2>2, <2>3, <2>4 DEF PortalStep, Portal, Open, Scan, Submit, Exit, Try, Wait, Close,
         ReleaseWifi, EndPortal
  <1>4. Len(stored') <= MaxCredentials
    BY <1>3, ListsAre
  <1>5. /\ station' \in BOOLEAN /\ scanning' \in BOOLEAN /\ ap' \in BOOLEAN
        /\ link' \in {"off", "on", Linked} /\ exiting' \in BOOLEAN
    BY DEF PortalStep, Portal, Open, Scan, Edit, Submit, Exit, Try, Wait, SaveCandidate, Close,
       ReleaseWifi, EndPortal, StopStation, StopScanning, StopAp, Release, StaStops, StaStarts,
       NetworkTypeOK
  <1>6. /\ state' \in {"idle", "running", "completed", "failed"}
        /\ portalWorker' \in {"open", "serve", "try", "wait", "save", "done", "broken", "ending",
                              "ended"}
    BY DEF PortalStep, Portal, Open, Scan, Edit, Submit, Exit, Try, Wait, SaveCandidate, Close,
       ReleaseWifi, EndPortal, Continues, ServesAgain, Absent
  <1>7. /\ candidate' \in Networks \cup {Nobody}
        /\ portalWorker' \in {"try", "wait", "save"} => candidate' \in Networks
    BY DEF PortalStep, Portal, Open, Scan, Edit, Submit, Exit, Try, Wait, SaveCandidate, Close,
       ReleaseWifi, EndPortal, Continues, ServesAgain, PortalInv
  <1>8. state' = "completed" =>
             ~ap' /\ ~scanning' /\ ~station' /\ portalWorker' \in {"ending", "ended", Absent}
    BY DEF PortalStep, Portal, Open, Scan, Edit, Submit, Exit, Try, Wait, SaveCandidate, Close,
       ReleaseWifi, EndPortal, Continues, ServesAgain, Release, Released, PortalInv, Absent
  <1>9. PortalTypeOK' /\ LinkTypeOK'
    BY <1>2, <1>3, <1>5, <1>6, <1>7
  <1>10. NetworkTypeOK' /\ ControlTypeOK'
    <2>1. NetworkTypeOK'
      BY <1>1, <1>9 DEF NetworkTypeOK, workerVars
    <2>2. ControlTypeOK'
      BY ZenonT(60), <1>1 DEF ControlTypeOK, controllerVars, runVars, buttonVars, sdkVars
    <2>3. QED
      BY <2>1, <2>2
  <1>11. ControlInv'
    BY <1>1 DEF ControlInv, SdkIsTold, controllerVars, runVars, buttonVars, sdkVars
  <1>12. NetworkInv'
    BY <1>1 DEF NetworkInv, ContextOutlivesUsers, workerVars, controllerVars, runVars
  <1>13. PortalInv'
    BY <1>1, <1>2, <1>6, <1>7, <1>8 DEF PortalInv, PortalOutlivesUsers, workerVars,
       controllerVars, runVars
  <1>14. ListsAgree'
    BY <1>3, <1>4 DEF ListsAgree, Distinct
  <1>15. QED
    BY <1>9, <1>10, <1>11, <1>12, <1>13, <1>14

-----------------------------------------------------------------------------
(* The controller                                                            *)

LEMMA WaitType ==
  ASSUME ControlTypeOK, WaitForButton
  PROVE  queue' \in Seq(Presses) /\ Len(queue') <= QueueCap /\ requested' \in BOOLEAN
  <1>1. CASE queue = <<>>
    BY <1>1 DEF ControlTypeOK, WaitForButton, buttonVars
  <1>2. CASE queue # <<>>
    <2>1. queue \in Seq(Presses) /\ Len(queue) <= QueueCap /\ QueueCap \in Nat
      BY ControllerAssumption DEF ControlTypeOK
    <2>2. Tail(queue) \in Seq(Presses) /\ Len(Tail(queue)) <= QueueCap
      BY <1>2, <2>1
    <2>3. QED
      BY <1>2, <2>2 DEF ControlTypeOK, WaitForButton
  <1>3. QED
    BY <1>1, <1>2

\* Between the modes, and while there is no worker
LEMMA BeforeNetworkKeeps == ASSUME Inv, Ensure \/ Start \/ Provision PROVE Inv'
  <1> USE DEF Inv, TypeOK, ownership, lists, radio, buttonVars, sdkVars
  <1>1. ControlTypeOK'
    BY DEF ControlTypeOK, Ensure, Start, Provision, Publish, Event
  <1>2. ControlInv'
    <2>1. heard = None /\ ~published /\ sdk = "stopped" /\ at \in {"ensure", "start", "provision"}
      BY DEF Ensure, Start, Provision, ControlInv, OnNetwork, ControlTypeOK
    <2>2. heard' = None /\ ~published' /\ sdk' = "stopped"
      BY <2>1 DEF Ensure, Start, Provision, Publish
    <2>3. at' \in {"leave", "cleanup", "start", "await", "provisioning"}
      BY DEF Ensure, Start, Provision
    <2>4. QED
      BY <2>2, <2>3 DEF ControlInv, SdkIsTold
  <1>3. CASE Ensure
    <2>1. UNCHANGED wifiVars /\ at = "ensure" /\ at' \in {"leave", "cleanup", "start"}
      BY <1>3 DEF Ensure
    <2>2. NetworkTypeOK' /\ NetworkInv'
      BY <2>1 DEF NetworkTypeOK, LinkTypeOK, NetworkInv, ContextOutlivesUsers, OnNetwork, wifiVars,
         workerVars
    <2>3. PortalTypeOK' /\ PortalInv' /\ ListsAgree'
      BY <2>1 DEF PortalTypeOK, PortalInv, PortalOutlivesUsers, ListsAgree, wifiVars,
         provisioningVars
    <2>4. QED
      BY <1>1, <1>2, <2>2, <2>3
  <1>4. CASE Start
    <2>1. NetworkTypeOK' /\ NetworkInv'
      <3>1. ~context /\ worker = Absent /\ ~owned /\ ~scan
        BY <1>4 DEF Start, StartNetwork, StartNetworkFails, NetworkInv, ContextOutlivesUsers
      <3>2. CASE StartNetwork /\ at' = "await"
        BY <3>1, <3>2 DEF StartNetwork, NetworkTypeOK, LinkTypeOK, NetworkInv,
           ContextOutlivesUsers, OnNetwork, Absent
      <3>3. CASE StartNetworkFails /\ at' = "cleanup"
        BY <3>1, <3>3 DEF StartNetworkFails, NetworkTypeOK, LinkTypeOK, NetworkInv,
           ContextOutlivesUsers, OnNetwork, Absent
      <3>4. QED
        BY <1>4, <3>2, <3>3 DEF Start
    <2>2. UNCHANGED <<provisioningVars, published>> /\ at = "start" /\ at' \in {"await", "cleanup"}
      BY <1>4 DEF Start
    <2>3. PortalTypeOK' /\ PortalInv' /\ ListsAgree'
      BY <2>2 DEF PortalTypeOK, PortalInv, PortalOutlivesUsers, ListsAgree, provisioningVars
    <2>4. QED
      BY <1>1, <1>2, <2>1, <2>3
  <1>5. CASE Provision
    <2>1. /\ UNCHANGED <<workerVars, published, link>>
          /\ at = "provision" /\ at' \in {"provisioning", "cleanup"}
      BY <1>5 DEF Provision, StartPortal, StartPortalFails
    <2>2. NetworkTypeOK' /\ NetworkInv'
      BY <2>1 DEF NetworkTypeOK, LinkTypeOK, NetworkInv, ContextOutlivesUsers, OnNetwork, workerVars
    <2>3. ~context /\ ~published /\ ~context' /\ ~published'
      BY <2>1 DEF NetworkInv, ControlInv, OnNetwork, workerVars
    <2>4. PortalTypeOK'
      BY <1>5 DEF Provision, StartPortal, StartPortalFails, PortalTypeOK, Nobody
    <2>5. PortalInv' /\ ListsAgree'
      <3>1. ~portal /\ portalWorker = Absent /\ ~station /\ ~scanning /\ ~ap
        BY <1>5 DEF Provision, StartPortal, StartPortalFails, PortalInv, PortalOutlivesUsers
      <3>2. CASE StartPortal /\ at' = "provisioning"
        BY <2>3, <3>1, <3>2 DEF StartPortal, PortalInv, PortalOutlivesUsers, ListsAgree, Absent
      <3>3. CASE StartPortalFails /\ at' = "cleanup"
        BY <2>3, <3>1, <3>3 DEF StartPortalFails, PortalInv, PortalOutlivesUsers, ListsAgree, Absent
      <3>4. QED
        BY <1>5, <3>2, <3>3 DEF Provision
    <2>6. QED
      BY <1>1, <1>2, <2>2, <2>4, <2>5
  <1>6. QED
    BY <1>3, <1>4, <1>5

\* On the network, where only the controller's own state changes
LEMMA OnNetworkKeeps ==
  ASSUME Inv, Await \/ Prompt \/ Boot \/ Run \/ Poll \/ End
  PROVE  Inv'
  <1> USE DEF Inv, TypeOK, sdkVars, Publish
  <1>1. UNCHANGED wifiVars
    BY DEF Await, Prompt, Boot, Run, Poll, End
  <1>2. queue' \in Seq(Presses) /\ Len(queue') <= QueueCap /\ requested' \in BOOLEAN
    BY WaitType DEF Await, Prompt, Boot, Run, Poll, End, buttonVars, ControlTypeOK
  <1>3. UNCHANGED then /\ at \in OnNetwork /\ at' \in OnNetwork \cup {"leave", "cleanup"}
    BY DEF Await, Prompt, Boot, Run, Poll, End, OnNetwork
  <1>4. polled' \in BOOLEAN /\ published' \in BOOLEAN
    BY DEF Await, Prompt, Boot, Run, Poll, End, ControlTypeOK, NetworkTypeOK
  <1>5. sdk' \in {"stopped", "running", "failed"}
        /\ heard' \in {None, "nothing", Event(TRUE), Event(FALSE)}
    BY DEF Await, Prompt, Boot, Run, Poll, End, ControlTypeOK, StopSdk, Subscribe, Event,
       NetworkTypeOK
  <1>6. ControlTypeOK'
    BY <1>2, <1>3, <1>4, <1>5 DEF ControlTypeOK, OnNetwork
  <1>7. ControlInv'
    <2>1. CASE Await \/ Prompt
      <3>1. heard' = None /\ UNCHANGED sdk /\ at' \in {"await", "prompt", "leave", "boot"}
        BY <2>1 DEF Await, Prompt, ControlInv
      <3>2. (at' = "boot" => published') /\ (at' \in {"await"} => UNCHANGED published)
        BY <2>1 DEF Await, Prompt
      <3>3. QED
        BY <2>1, <3>1, <3>2 DEF Await, Prompt, ControlInv, SdkIsTold, OnNetwork
    <2>2. CASE Boot
      BY <2>2 DEF Boot, Subscribe, ControlInv, SdkIsTold, OnNetwork, Event, None
    <2>3. CASE Run
      BY <2>3 DEF Run, ControlInv, SdkIsTold, OnNetwork
    <2>4. CASE Poll
      <3>1. at = "poll" /\ at' \in {"end", "run"} /\ UNCHANGED <<sdk, then>>
        BY <2>4 DEF Poll
      <3>2. CASE connected # polled
        <4>1. /\ published' = connected /\ polled' = connected
              /\ heard' = IF heard = None THEN None ELSE Event(connected)
          BY <2>4, <3>2 DEF Poll
        <4>2. SdkIsTold'
          BY <4>1 DEF SdkIsTold, Event, NetworkTypeOK
        <4>3. QED
          BY <3>1, <4>1, <4>2 DEF ControlInv, OnNetwork
      <3>3. CASE connected = polled
        <4>1. UNCHANGED <<published, heard, polled>>
          BY <2>4, <3>3 DEF Poll
        <4>2. QED
          BY <3>1, <4>1 DEF ControlInv, SdkIsTold, OnNetwork
      <3>4. QED
        BY <3>2, <3>3
    <2>5. CASE End
      BY <2>5 DEF End, StopSdk, ControlInv, SdkIsTold, OnNetwork
    <2>6. QED
      BY <2>1, <2>2, <2>3, <2>4, <2>5
  <1>8. NetworkTypeOK' /\ NetworkInv'
    BY <1>1, <1>3 DEF NetworkTypeOK, LinkTypeOK, NetworkInv, ContextOutlivesUsers, OnNetwork,
       wifiVars, workerVars
  <1>9. PortalTypeOK' /\ PortalInv' /\ ListsAgree'
    BY <1>1, <1>3 DEF PortalTypeOK, PortalInv, PortalOutlivesUsers, ListsAgree, OnNetwork, wifiVars,
       provisioningVars, ownership, lists
  <1>10. QED
    BY <1>6, <1>7, <1>8, <1>9

\* What a stop of the network worker asks for, before its worker has heard of it
LEMMA StopOfNetworkKeeps ==
  ASSUME Inv, NEW next \in {"provision", "drop"}, StopOfNetwork(next),
         sdk' = "stopped", heard' = None, published' = FALSE, UNCHANGED <<buttonVars, polled>>,
         next = "provision" => ~portal,
         at \in {"leave", "cleanup"}
  PROVE  Inv'
  <1> USE DEF Inv, TypeOK
  <1>1. CASE context
    <2>1. /\ RequestStop /\ UNCHANGED provisioningVars /\ at' = "join" /\ then' = next
      BY <1>1 DEF StopOfNetwork
    <2>2. NetworkTypeOK' /\ NetworkInv'
      BY <2>1, <1>1 DEF RequestStop, NetworkTypeOK, LinkTypeOK, NetworkInv, ContextOutlivesUsers,
         OnNetwork
    <2>3. PortalTypeOK' /\ PortalInv' /\ ListsAgree'
      BY <2>1, <1>1 DEF RequestStop, PortalTypeOK, PortalInv, PortalOutlivesUsers, ListsAgree,
         provisioningVars, ownership, lists
    <2>4. ControlTypeOK' /\ ControlInv'
      BY <2>1 DEF ControlTypeOK, ControlInv, SdkIsTold, buttonVars
    <2>5. QED
      BY <2>2, <2>3, <2>4
  <1>2. CASE ~context
    <2>1. UNCHANGED <<wifiVars, then>> /\ at' = next
      BY <1>2 DEF StopOfNetwork
    <2>2. NetworkTypeOK' /\ NetworkInv'
      BY <2>1, <1>2 DEF NetworkTypeOK, LinkTypeOK, NetworkInv, ContextOutlivesUsers, OnNetwork,
         wifiVars, workerVars
    <2>3. PortalTypeOK' /\ PortalInv' /\ ListsAgree'
      BY ZenonT(60), <2>1, <1>2 DEF PortalTypeOK, PortalInv, PortalOutlivesUsers, ListsAgree, wifiVars,
         provisioningVars, ownership, lists, workerVars
    <2>4. ControlTypeOK' /\ ControlInv'
      BY <2>1 DEF ControlTypeOK, ControlInv, SdkIsTold, buttonVars
    <2>5. QED
      BY <2>2, <2>3, <2>4
  <1>3. QED
    BY <1>1, <1>2

LEMMA StopOfPortalKeeps ==
  ASSUME Inv, NEW next \in {"ensure", "cleanup", "exited"}, StopOfPortal(next),
         UNCHANGED <<polled, sdkVars, published>>,
         queue' \in Seq(Presses) /\ Len(queue') <= QueueCap /\ requested' \in BOOLEAN,
         at \in {"provisioning", "drop"}, next = "ensure" => at = "provisioning"
  PROVE  Inv'
  <1> USE DEF Inv, TypeOK, sdkVars
  <1>1. sdk = "stopped" /\ heard = None /\ ~published
    BY DEF ControlInv, OnNetwork, ControlTypeOK
  <1>2. CASE portal
    <2>1. /\ RequestPortalStop /\ UNCHANGED workerVars /\ at' = "join portal" /\ then' = next
      BY <1>2 DEF StopOfPortal
    <2>2. NetworkTypeOK' /\ NetworkInv'
      BY <1>2, <2>1 DEF RequestPortalStop, NetworkTypeOK, LinkTypeOK, NetworkInv, radio,
         ContextOutlivesUsers, OnNetwork, workerVars, PortalInv
    <2>3. PortalTypeOK' /\ PortalInv' /\ ListsAgree'
      BY ZenonT(60), <1>1, <1>2, <2>1 DEF RequestPortalStop, PortalTypeOK, PortalInv, PortalOutlivesUsers,
         ListsAgree, radio, lists, workerVars
    <2>4. ControlTypeOK' /\ ControlInv'
      BY <1>1, <2>1 DEF ControlTypeOK, ControlInv, SdkIsTold
    <2>5. QED
      BY <2>2, <2>3, <2>4
  <1>3. CASE ~portal
    <2>1. UNCHANGED <<wifiVars, then>> /\ at' = next
      BY <1>3 DEF StopOfPortal
    <2>2. NetworkTypeOK' /\ NetworkInv'
      BY ZenonT(60), <2>1 DEF NetworkTypeOK, LinkTypeOK, NetworkInv, ContextOutlivesUsers, OnNetwork,
         wifiVars, workerVars
    <2>3. PortalTypeOK' /\ PortalInv' /\ ListsAgree'
      BY <2>1, <1>3 DEF PortalTypeOK, PortalInv, PortalOutlivesUsers, ListsAgree, wifiVars,
         provisioningVars, ownership, lists
    <2>4. ControlTypeOK' /\ ControlInv'
      BY <1>1, <2>1 DEF ControlTypeOK, ControlInv, SdkIsTold, OnNetwork
    <2>5. QED
      BY <2>2, <2>3, <2>4
  <1>4. QED
    BY <1>2, <1>3

LEMMA StopsKeep ==
  ASSUME Inv, LeaveNetwork \/ Cleanup \/ Drop \/ Provisioning
  PROVE  Inv'
  <1>1. CASE LeaveNetwork
    <2>1. /\ at = "leave" /\ StopOfNetwork("provision")
          /\ published' = FALSE /\ UNCHANGED <<buttonVars, polled, sdk>>
          /\ heard' = IF heard = None THEN None ELSE Event(FALSE)
      BY <1>1 DEF LeaveNetwork, Publish
    <2>2. sdk = "stopped" /\ heard = None /\ ~portal
      BY <2>1 DEF Inv, TypeOK, ControlTypeOK, ControlInv, PortalInv
    <2>3. QED
      BY <2>1, <2>2, StopOfNetworkKeeps
  <1>2. CASE Cleanup
    BY <1>2, StopOfNetworkKeeps DEF Cleanup, StopSdk
  <1>3. CASE Drop
    BY <1>3, StopOfPortalKeeps DEF Drop, Inv, TypeOK, ControlTypeOK, buttonVars
  <1>4. CASE Provisioning
    <2>1. queue' \in Seq(Presses) /\ Len(queue') <= QueueCap /\ requested' \in BOOLEAN
      BY <1>4, WaitType DEF Provisioning, Inv, TypeOK, ControlTypeOK, buttonVars
    <2>2. CASE StopOfPortal("ensure") \/ StopOfPortal("cleanup")
      BY <1>4, <2>1, <2>2, StopOfPortalKeeps DEF Provisioning
    <2>3. CASE UNCHANGED <<at, then, wifiVars>>
      <3>1. UNCHANGED <<polled, sdkVars, published>>
        BY <1>4 DEF Provisioning
      <3>2. NetworkTypeOK' /\ NetworkInv'
        BY ZenonT(60), <2>3 DEF Inv, TypeOK, NetworkTypeOK, LinkTypeOK, NetworkInv, ContextOutlivesUsers,
           wifiVars, workerVars
      <3>3. PortalTypeOK' /\ ListsAgree'
        BY <2>3 DEF Inv, TypeOK, PortalTypeOK, ListsAgree, wifiVars, provisioningVars, ownership,
           lists
      <3>4. PortalInv'
        BY <2>3, <3>1 DEF Inv, PortalInv, PortalOutlivesUsers, wifiVars, workerVars,
           provisioningVars, ownership
      <3>5. ControlTypeOK' /\ ControlInv'
        BY <2>1, <2>3, <3>1 DEF Inv, TypeOK, ControlTypeOK, ControlInv, SdkIsTold, sdkVars
      <3>6. QED
        BY <3>2, <3>3, <3>4, <3>5 DEF Inv, TypeOK
    <2>4. QED
      BY <1>4, <2>2, <2>3 DEF Provisioning
  <1>5. QED
    BY <1>1, <1>2, <1>3, <1>4

\* The joins: what the driver would not stop keeps the context, and the controller
\* from going on to the other mode.
LEMMA JoinKeeps == ASSUME Inv, Join PROVE Inv'
  <1> USE DEF Inv, TypeOK
  <1>1. /\ at = "join" /\ then \in {"provision", "drop"} /\ then' = None
        /\ at' = (IF context' /\ then = "provision" THEN "cleanup" ELSE then)
        /\ StopNetwork /\ UNCHANGED <<provisioningVars, buttonVars, polled, sdkVars, published>>
    BY DEF Join, ControlInv
  <1>2. NetworkTypeOK'
    BY <1>1 DEF StopNetwork, StopScan, StopSta, StaStopped, StaStops, NetworkTypeOK, LinkTypeOK,
       Linked
  <1>3. NetworkInv'
    BY <1>1, <1>2 DEF StopNetwork, NetworkInv, ContextOutlivesUsers, OnNetwork, NetworkTypeOK, Absent
  <1>4. sdk = "stopped" /\ heard = None /\ ~published /\ ~portal
    BY <1>1 DEF ControlInv, PortalInv, ControlTypeOK, OnNetwork
  <1>5. PortalTypeOK' /\ PortalInv' /\ ListsAgree'
    BY <1>1, <1>4 DEF PortalTypeOK, PortalInv, PortalOutlivesUsers, ListsAgree, provisioningVars,
       ownership, lists
  <1>6. ControlTypeOK' /\ ControlInv'
    BY <1>1, <1>4 DEF ControlTypeOK, ControlInv, SdkIsTold, OnNetwork, buttonVars, sdkVars
  <1>7. QED
    BY <1>2, <1>3, <1>5, <1>6

LEMMA JoinPortalKeeps == ASSUME Inv, JoinPortal PROVE Inv'
  <1> USE DEF Inv, TypeOK
  <1>1. /\ at = "join portal" /\ then \in {"ensure", "cleanup", "exited"} /\ then' = None
        /\ at' = (IF portal' /\ then = "ensure" THEN "cleanup" ELSE then)
        /\ requested' = (requested /\ at' # "ensure")
        /\ StopPortal /\ UNCHANGED <<workerVars, queue, polled, sdkVars, published>>
    BY DEF JoinPortal, ControlInv
  <1>2. portal /\ ~context /\ ~published /\ sdk = "stopped" /\ heard = None
    BY <1>1 DEF ControlInv, PortalInv, ControlTypeOK
  <1>3. /\ station' \in {FALSE, station} /\ scanning' \in {FALSE, scanning} /\ ap' \in {FALSE, ap}
        /\ link' \in {"off", link}
        /\ portalWorker' = Absent /\ UNCHANGED <<portalAttached, stored>>
    <2>1. Release /\ portalWorker' = Absent /\ UNCHANGED <<portalAttached, stored>>
      BY <1>1 DEF StopPortal
    <2>2. QED
      BY <2>1 DEF Release, StopScanning, StopAp, StopStation, StaStops
  <1>4. NetworkTypeOK' /\ NetworkInv'
    BY <1>1, <1>2, <1>3 DEF NetworkTypeOK, LinkTypeOK, NetworkInv, ContextOutlivesUsers, OnNetwork,
       workerVars
  <1>5. ASSUME Freed, Released, portalAttached = {}
        PROVE  PortalTypeOK' /\ PortalInv' /\ ListsAgree'
    <2>1. PortalTypeOK'
      BY <1>3, <1>5, NoCredentials DEF Freed, PortalTypeOK
    <2>2. PortalInv'
      BY <1>1, <1>3, <1>5 DEF Freed, Released, PortalInv, PortalOutlivesUsers, Absent
    <2>3. ListsAgree'
      BY <1>3 DEF ListsAgree
    <2>4. QED
      BY <2>1, <2>2, <2>3
  <1>6. ASSUME UNCHANGED <<portal, portalStopping, state, held, exiting, candidate>>
        PROVE  PortalTypeOK' /\ PortalInv' /\ ListsAgree'
    <2>1. PortalTypeOK' /\ ListsAgree'
      BY <1>3, <1>6 DEF PortalTypeOK, ListsAgree
    <2>2. at' \in {"cleanup", "exited"}
      BY <1>1, <1>2, <1>6
    <2>3. ~context' /\ ~published'
      BY <1>1, <1>2 DEF workerVars
    <2>4. PortalInv'
      <3>1. (station' => station) /\ (scanning' => scanning) /\ (ap' => ap)
        <4>1. station' => station
          BY <1>3
        <4>2. scanning' => scanning
          BY <1>3
        <4>3. ap' => ap
          BY <1>3
        <4>4. QED
          BY <4>1, <4>2, <4>3
      <3>2. state' = "completed" => ~station' /\ ~scanning' /\ ~ap'
        BY <1>6, <3>1 DEF PortalInv
      <3>3. PortalOutlivesUsers'
        BY <1>2, <1>6 DEF PortalOutlivesUsers
      <3>4. QED
        BY <1>2, <1>3, <2>2, <2>3, <3>2, <3>3 DEF PortalInv, Absent
    <2>5. QED
      BY <2>1, <2>4
  <1>7. ControlTypeOK' /\ ControlInv'
    BY <1>1, <1>2 DEF ControlTypeOK, ControlInv, SdkIsTold, OnNetwork, sdkVars
  <1>8. QED
    BY <1>1, <1>4, <1>5, <1>6, <1>7 DEF StopPortal

-----------------------------------------------------------------------------
(* The theorems                                                              *)

LEMMA AroundKeeps == ASSUME Inv, Station \/ Press \/ SdkFails PROVE Inv'
  <1> USE DEF Inv, TypeOK
  <1>1. UNCHANGED <<workerVars, provisioningVars>> /\ UNCHANGED <<at, then, heard, published, polled>>
    BY DEF Station, Press, SdkFails, wifiVars, controllerVars, runVars, buttonVars, sdkVars
  <1>2. link' \in {"off", "on", Linked}
    BY DEF Station, Press, SdkFails, wifiVars, LinkMoves, NetworkTypeOK, LinkTypeOK
  <1>3. NetworkTypeOK' /\ NetworkInv'
    BY <1>1, <1>2 DEF NetworkTypeOK, LinkTypeOK, NetworkInv, ContextOutlivesUsers, OnNetwork,
       workerVars
  <1>4. PortalTypeOK' /\ ListsAgree'
    BY <1>1 DEF PortalTypeOK, ListsAgree, provisioningVars, ownership, lists
  <1>5. PortalInv'
    BY <1>1 DEF PortalInv, PortalOutlivesUsers, provisioningVars, workerVars, ownership
  <1>6. queue' \in Seq(Presses) /\ Len(queue') <= QueueCap /\ UNCHANGED requested
    <2>1. CASE Press
      <3>1. PICK p \in Presses :
               queue' = IF Len(queue) < QueueCap THEN Append(queue, p) ELSE queue
        BY <2>1 DEF Press
      <3>2. queue \in Seq(Presses) /\ Len(queue) <= QueueCap /\ QueueCap \in Nat
        BY ControllerAssumption DEF ControlTypeOK
      <3>3. QED
        BY <2>1, <3>1, <3>2 DEF Press
    <2>2. CASE Station \/ SdkFails
      BY <2>2 DEF Station, SdkFails, ControlTypeOK, controllerVars, buttonVars
    <2>3. QED
      BY <2>1, <2>2
  <1>7. /\ sdk' \in {"stopped", "running", "failed"}
        /\ sdk' # "stopped" => sdk # "stopped"
    BY DEF Station, Press, SdkFails, controllerVars, sdkVars, ControlTypeOK
  <1>8. ControlTypeOK' /\ ControlInv'
    BY ZenonT(60), <1>1, <1>6, <1>7 DEF ControlTypeOK, ControlInv, SdkIsTold
  <1>9. QED
    BY <1>3, <1>4, <1>5, <1>8

LEMMA InvNext == ASSUME Inv, [Next]_vars PROVE Inv'
  <1>1. CASE Control
    BY <1>1, BeforeNetworkKeeps, OnNetworkKeeps, StopsKeep, JoinKeeps, JoinPortalKeeps DEF Control
  <1>2. CASE UNCHANGED vars
    <2>1. UNCHANGED <<workerVars, provisioningVars, link, controllerVars>>
      BY <1>2 DEF vars, wifiVars
    <2>2. NetworkTypeOK' /\ NetworkInv'
      BY ZenonT(60), <2>1 DEF Inv, TypeOK, NetworkTypeOK, LinkTypeOK, NetworkInv, ContextOutlivesUsers,
         workerVars, controllerVars, runVars
    <2>3. PortalTypeOK' /\ ListsAgree'
      BY <2>1 DEF Inv, TypeOK, PortalTypeOK, ListsAgree, provisioningVars, ownership, lists
    <2>4. PortalInv'
      BY <2>1 DEF Inv, PortalInv, PortalOutlivesUsers, workerVars, provisioningVars, ownership,
         controllerVars, runVars
    <2>5. ControlTypeOK' /\ ControlInv'
      BY ZenonT(60), <2>1 DEF Inv, TypeOK, ControlTypeOK, ControlInv, SdkIsTold, controllerVars, runVars,
         buttonVars, sdkVars
    <2>6. QED
      BY <2>2, <2>3, <2>4, <2>5 DEF Inv, TypeOK
  <1>3. QED
    BY <1>1, <1>2, NetworkStepKeeps, PortalStepKeeps, AroundKeeps DEF Next

LEMMA ControllerInvariant == Spec => []Inv
  BY InvInit, InvNext, PTL DEF Spec

\* Every variable of the controller, its worker and its provisioning keeps its type.
THEOREM ControllerTypeCorrect == Spec => []TypeOK
  <1>1. Inv => TypeOK
    BY DEF Inv
  <1>2. QED
    BY <1>1, ControllerInvariant, PTL

\* What the SDK heard last is what the controller last found and published.
THEOREM SdkIsAlwaysTold == Spec => []SdkIsTold
  <1>1. Inv => SdkIsTold
    BY DEF Inv, ControlInv
  <1>2. QED
    BY <1>1, ControllerInvariant, PTL

\* The network worker and the provisioning never have a context at the same time,
\* whatever the driver refused to stop and whichever of them failed.
THEOREM ModesStayApart == Spec => []ModesApart
  <1>1. Inv => ModesApart
    BY DEF Inv, TypeOK, ControlTypeOK, ControlInv, PortalInv, ModesApart
  <1>2. QED
    BY <1>1, ControllerInvariant, PTL

\* A context is freed after its worker, its callbacks and what still runs of the Wi-Fi;
\* and while the SDK listens there is a worker that watches the link.
THEOREM NetworkAlwaysServesSdk == Spec => []NetworkServesSdk
  <1>1. Inv => NetworkServesSdk
    BY DEF Inv, ControlInv, NetworkInv, PortalInv, NetworkServesSdk, OnNetwork
  <1>2. QED
    BY <1>1, ControllerInvariant, PTL

\* The served list is the stored one, for any number of credentials, any edits and any
\* saves that fail.
THEOREM ListsAlwaysAgree == Spec => []ListsAgree
  <1>1. Inv => ListsAgree
    BY DEF Inv
  <1>2. QED
    BY <1>1, ControllerInvariant, PTL
=============================================================================
