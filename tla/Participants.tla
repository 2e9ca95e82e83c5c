----------------------------- MODULE Participants -----------------------------
(***************************************************************************)
(* The participants of a task's (or issue's) conversation                  *)
(* (projectmanager/service/participant_projector.go): each event about the *)
(* task carries the effective subscribers of that moment, and the first    *)
(* projector of the outbox overwrites the participants with them, in one   *)
(* transaction with its ledger row.  This is the outbox with what that     *)
(* projector does.                                                         *)
(*                                                                         *)
(* A list of participants is named by the event it was made from.  Left    *)
(* out: changes of the list by other writers, who the next event overrules.*)
(***************************************************************************)
EXTENDS Outbox

CONSTANTS
  About,    \* the events about the task
  Created   \* the one of its creation

ParticipantProjector == 1

ASSUME ParticipantsAssumption ==
  /\ ParticipantProjector \in SameTx
  /\ About \subseteq Events \ {0}
  /\ Created \in About /\ \A e \in About : Created <= e
  /\ Needs = {<<ParticipantProjector, Created, e>> : e \in About \ {Created}}

VARIABLES
  shown,   \* the event whose subscribers are the participants, 0: no conversation
  failed   \* history: the events the projector failed on

pvars == <<vars, shown, failed>>

ParticipantsInit == Init /\ shown = 0 /\ failed = {}

\* emit, in the transaction that changed the task: these events have the order
\* of their ids.
Emit(e) ==
  /\ Append(e)
  /\ e \in About => \A f \in About : f < e => f \in appended
  /\ UNCHANGED <<shown, failed>>

\* The conversation is created by the task's first event, later ones overwrite
\* its participants.  Of other events the projector does nothing, and their
\* ledger row is the relay's; that it is written at once here tells nothing apart.
ProjectParticipants(e) ==
  /\ Project(e)
  /\ shown' = IF proj = ParticipantProjector /\ e \in About THEN e ELSE shown
  /\ UNCHANGED failed

ProjectorFails(e) ==
  /\ ProjectFailsOnce(e)
  /\ failed' = IF proj = ParticipantProjector THEN failed \cup {e} ELSE failed
  /\ UNCHANGED shown

Relay(e) ==
  /\ SkipApplied(e) \/ ProjectFails(e) \/ MarkApplied(e) \/ MarkProcessed(e)
  /\ UNCHANGED <<shown, failed>>

Pump ==
  /\ Tick \/ FetchUnprocessed \/ PassEnds
  /\ UNCHANGED <<shown, failed>>

Stop == Abort /\ UNCHANGED <<shown, failed>>

PumpStep == Pump \/ \E e \in Events : ProjectParticipants(e) \/ Relay(e)

ParticipantsNext ==
  \/ \E e \in Events : Emit(e) \/ ProjectorFails(e)
  \/ PumpStep
  \/ Stop

ParticipantsSpec == ParticipantsInit /\ [][ParticipantsNext]_pvars /\ WF_pvars(PumpStep)

------------------------------------------------------------------------------
Projected(e) == <<ParticipantProjector, e>> \in applied

\* The participants are those of the last event about the task the projector has
\* seen, unless it failed on their event before: neither a crash nor another
\* projector that fails on an old event brings old participants back.
ParticipantsFollow ==
  \A e \in About : Projected(e) /\ shown < e => shown \in failed

\* The projector has seen e, or failed on it before it saw a later one.
Settled(e) ==
  Projected(e) \/ e \in failed \/ <<ParticipantProjector, e>> \in Poison

\* Why: the task's events become visible, are fetched and are left behind in
\* the order of their ids, and none is projected before the creation.
FollowInv ==
  /\ shown \in About \cup {0}
  /\ \A e, f \in About : f \in appended /\ e < f => e \in appended
  /\ \A e \in About : Projected(e) => shown # 0
  /\ \A e, f \in About : Projected(f) /\ e < f => Settled(e)
  /\ \A e, f \in About : f \in batch /\ e \notin batch /\ e < f =>
       Settled(e) \/ (Created \notin batch /\ ~ Projected(Created))
  /\ ParticipantsFollow
==============================================================================
