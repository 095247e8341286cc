---------------------------- MODULE MCChainAudit ----------------------------
(***************************************************************************)
(* Instances of ChangeChain and AuditQueue for TLC, side by side in one    *)
(* run: what the audit checks and how it is asked for.  A behaviour        *)
(* belongs to one of them, and the variables of the other stay.  The calls *)
(* of a chain behaviour come one after the other, or two of them overlap.  *)
(***************************************************************************)
EXTENDS MCChangeChain, AuditQueue

CONSTANTS daily, weekly

VARIABLE component    \* whose behaviour this is

all == <<component, vars, auditVars>>

ChainAuditInit == component \in {"calls", "overlap", "audits"} /\ Init /\ AuditInit

\* Calls are made by one writer, or by two and no more than two in all.
CallSteps == component = "calls" /\ Next /\ pc'[w2] = "idle"
OverlapSteps == component = "overlap" /\ Next /\ ops' <= 2
AuditSteps == component = "audits" /\ AuditNext

ChainAuditNext ==
  /\ UNCHANGED component
  /\ \/ CallSteps /\ UNCHANGED auditVars
     \/ OverlapSteps /\ UNCHANGED auditVars
     \/ AuditSteps /\ UNCHANGED vars

\* An action of a component, with all else unchanged.
Of(name, A, rest) == component = name /\ A /\ UNCHANGED <<component, rest>>

ChainAuditFairness ==
  /\ \A w \in Writers : /\ WF_all(Of("calls", Progress(w), auditVars))
                        /\ WF_all(Of("overlap", Progress(w), auditVars))
  /\ WF_all(Of("audits", \E s \in Scopes : AuditEnds(s), vars))

ChainAuditSpec == ChainAuditInit /\ [][ChainAuditNext]_all /\ ChainAuditFairness
-----------------------------------------------------------------------------
\* Calls that do not overlap leave archive and chain in agreement.
CallsConsistent == component = "calls" => ArchiveConsistent

\* The queue of the audits is well-formed, and audits run one by one.
AuditsSound == AuditTypeOK /\ AuditsOneByOne

\* Calls end, and who asks for an audit gets one that begins afterwards.
ChainSettles == CallsEnd /\ AuditsServed
=============================================================================
