----------------------------- MODULE AuditQueue -----------------------------
(***************************************************************************)
(* The audits of the change events that the daily and the weekly cron ask  *)
(* for: a queue in memory in which a scope stands at most once, and one    *)
(* cron handler that drains it while the others leave at once.             *)
(*                                                                         *)
(* Between the last look at the queue and the reset of the flag there is   *)
(* no await, so that the end of an audit and the start of the next one, or *)
(* the end of the drain, are one step.                                     *)
(***************************************************************************)
EXTENDS Naturals, Sequences, FiniteSets

CONSTANTS
  Scopes,       \* daily, weekly
  MaxAudits     \* bound of the requests

ASSUME AuditAssumption == MaxAudits \in Nat /\ IsFiniteSet(Scopes)

VARIABLES
  auditQueue,     \* changeTrackingAuditQueue
  draining,       \* isDrainingChangeTrackingAuditQueue
  auditing,       \* the scopes whose audits run
  owed,           \* scopes asked for since their last audit began (history)
  audits          \* requests so far

auditVars == <<auditQueue, draining, auditing, owed, audits>>

AuditInit ==
  /\ auditQueue = <<>> /\ draining = FALSE /\ auditing = {}
  /\ owed = {} /\ audits = 0

\* Mutant of TakesNext: the flag is reset before the audit.
TakesNextUnflagged(queue, running, asked) ==
  IF queue = <<>>
  THEN /\ auditQueue' = queue /\ draining' = FALSE
       /\ auditing' = running /\ owed' = asked
  ELSE /\ auditQueue' = Tail(queue) /\ draining' = FALSE
       /\ auditing' = running \cup {Head(queue)} /\ owed' = asked \ {Head(queue)}

\* The drainer takes the next scope of the queue, or leaves.
TakesNext(queue, running, asked) ==
  IF queue = <<>>
  THEN /\ auditQueue' = queue /\ draining' = FALSE
       /\ auditing' = running /\ owed' = asked
  ELSE /\ auditQueue' = Tail(queue) /\ draining' = TRUE
       /\ auditing' = running \cup {Head(queue)} /\ owed' = asked \ {Head(queue)}

Queued(s) == \E i \in DOMAIN auditQueue : auditQueue[i] = s

\* enqueueChangeTrackingAudit, up to its first await.
AsksForAudit(s) ==
  LET queue == IF Queued(s) THEN auditQueue ELSE Append(auditQueue, s)
      asked == owed \cup {s}
  IN /\ audits < MaxAudits /\ audits' = audits + 1
     /\ IF draining
        THEN auditQueue' = queue /\ owed' = asked /\ UNCHANGED <<draining, auditing>>
        ELSE TakesNext(queue, auditing, asked)

\* execute logs what an audit throws, and the loop goes on.
AuditEnds(s) ==
  /\ s \in auditing
  /\ TakesNext(auditQueue, auditing \ {s}, owed)
  /\ UNCHANGED audits

AuditNext == \E s \in Scopes : AsksForAudit(s) \/ AuditEnds(s)

\* An audit reads the chains once and ends.
AuditSpec ==
  AuditInit /\ [][AuditNext]_auditVars /\ WF_auditVars(\E s \in Scopes : AuditEnds(s))
-----------------------------------------------------------------------------
AuditTypeOK ==
  /\ auditQueue \in Seq(Scopes) /\ Len(auditQueue) <= Cardinality(Scopes) /\ draining \in BOOLEAN
  /\ auditing \subseteq Scopes /\ owed \subseteq Scopes /\ audits \in Nat

\* The queue has a drainer whenever an audit is queued, and the flag is set exactly
\* while one audit runs: no two run at the same time.
AuditsOneByOne ==
  /\ draining <=> auditing # {}
  /\ \A s, u \in auditing : s = u
  /\ auditQueue # <<>> => draining

\* Who asks for an audit gets one that begins afterwards, even if one of the same
\* scope is running and although duplicates in the queue are dropped.
AuditsServed == \A s \in Scopes : s \in owed ~> s \notin owed
=============================================================================
