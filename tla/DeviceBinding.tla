---------------------------- MODULE DeviceBinding ----------------------------
(***************************************************************************)
(* What the device lifecycle promises, without its threads, queues, ticks   *)
(* and server answers.  A device is bound to a credential or it is not; it  *)
(* acts as bound only with the credential it has stored; it talks only      *)
(* while bound, is connected only while it talks, and gives neither up      *)
(* before the connection is gone.                                           *)
(***************************************************************************)
CONSTANTS Credentials, Conversations, None

VARIABLES
  bound,      \* the credential the device acts with, or None
  stored,     \* the credential that survives a loss of power, or None
  talking,    \* a conversation is shown as active
  connected   \* the conversation whose channel is joined, or None

bindingVars == <<bound, stored, talking, connected>>

BindingInit ==
  /\ bound = None
  /\ stored = None
  /\ talking = FALSE
  /\ connected = None

\* The credential is stored before the device acts on it.
Bind(c) ==
  /\ bound = None
  /\ bound' = c
  /\ stored' = c
  /\ UNCHANGED <<talking, connected>>

\* The channel is joined as the conversation begins, or never.
Begin ==
  /\ bound # None
  /\ ~talking
  /\ talking' = TRUE
  /\ connected' \in Conversations \cup {None}
  /\ UNCHANGED <<bound, stored>>

Disconnect ==
  /\ connected' = None
  /\ UNCHANGED <<bound, stored, talking>>

Finish ==
  /\ talking
  /\ connected = None
  /\ talking' = FALSE
  /\ UNCHANGED <<bound, stored, connected>>

\* The stored credential may outlive the binding if it cannot be erased.
Release ==
  /\ connected = None
  /\ bound' = None
  /\ stored' \in {None, stored}
  /\ talking' = FALSE
  /\ UNCHANGED connected

LosePower ==
  /\ \/ stored # None /\ bound' = stored /\ stored' = stored
     \/ bound' = None /\ stored' \in {None, stored}
  /\ talking' = FALSE
  /\ connected' = None

BindingNext ==
  \/ \E c \in Credentials : Bind(c)
  \/ Begin \/ Disconnect \/ Finish \/ Release \/ LosePower

BindingSpec == BindingInit /\ [][BindingNext]_bindingVars
=============================================================================
