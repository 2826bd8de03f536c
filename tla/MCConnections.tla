----------------------------- MODULE MCConnections -----------------------------
(***************************************************************************)
(* What holds a connection together: admission and credentials             *)
(* (Admission), the framing of requests and responses (Framing), the       *)
(* versions a client negotiates (Negotiation), the attached shell          *)
(* (Terminal) and the pool of connections of a local agent listener        *)
(* (AgentPool); and what the daemon keeps for all of them, its sessions    *)
(* (SessionStore) and its audit log (AuditLog).  They share no state, so a *)
(* behaviour exercises one of them and leaves the others where they        *)
(* started.                                                                *)
(***************************************************************************)
EXTENDS Admission, Framing, Negotiation, Terminal, AgentPool, SessionStore, AuditLog

\* Admission: two connections, one with two streams; two credentials of one principal,
\* of which a configuration holds one, and one of another.
ThreeStreams == {<<"c1", 1>>, <<"c1", 2>>, <<"c2", 1>>}
Holders == ("k1" :> "p") @@ ("k2" :> "p") @@ ("k3" :> "q")
OldConfig == {"k1", "k3"}
RotatedConfigs == {OldConfig, {"k2", "k3"}}

\* Framing: two streams of one connection and one of another; a legacy frame and one
\* that expands when it is decoded; a reply is as large as estimated or larger.
TwoConns == ("s1" :> "k1") @@ ("s2" :> "k1") @@ ("s3" :> "k2")
Frame(m, d) == [mode |-> m, wire |-> 1, decoded |-> d]
SomeFrames == {Frame("legacy", 0), Frame("current", 1)}
SmallReply == [large |-> FALSE, estimate |-> 0, units |-> 1]
LargeReply(e) == [large |-> TRUE, estimate |-> e, units |-> 2]
SomeReplies == {SmallReply, LargeReply(0), LargeReply(1)}

\* Terminal and AgentPool: how often what happens.
ShellBudget(c, i, r, b) == [chunks |-> c, inputs |-> i, resizes |-> r, breaks |-> b]
ShellBudgets == {ShellBudget(3, 0, 0, 0), ShellBudget(2, 0, 1, 1), ShellBudget(0, 3, 0, 2),
                 ShellBudget(1, 1, 1, 1)}
TaskBudget(c, r, m) == [changes |-> c, requests |-> r, mishaps |-> m]
TaskBudgets == {TaskBudget(1, 3, 0), TaskBudget(0, 2, 2), TaskBudget(1, 1, 1)}

\* SessionStore: one asker that an owner file must name, one that needs none.
TwoAskers == ("o1" :> "p") @@ ("o2" :> "legacy")

VARIABLE subject

keptVars == <<storeVars, auditVars>>
connectionVars == <<admissionVars, framingVars, negotiationVars, terminalVars, agentVars, keptVars,
                    subject>>

ConnectionInit ==
    /\ subject \in {"admission", "framing", "negotiation", "terminal", "pool", "store", "audit"}
    /\ AdmissionInit /\ FramingInit /\ NegotiationInit /\ TerminalInit /\ AgentInit
    /\ StoreInit /\ AuditInit
    \* one way to start for those that are left out
    /\ subject = "negotiation" \/ \A d \in Daemons : speaks[d] = {LEGACY}
    /\ subject = "terminal" \/ budget = ShellBudget(3, 0, 0, 0)
    /\ subject = "pool" \/ left = TaskBudget(1, 3, 0)

ConnectionNext ==
    \/ /\ subject = "admission" /\ AdmissionNext
       /\ UNCHANGED <<framingVars, negotiationVars, terminalVars, agentVars, keptVars, subject>>
    \/ /\ subject = "framing" /\ FramingNext
       /\ UNCHANGED <<admissionVars, negotiationVars, terminalVars, agentVars, keptVars, subject>>
    \/ /\ subject = "negotiation" /\ NegotiationNext
       /\ UNCHANGED <<admissionVars, framingVars, terminalVars, agentVars, keptVars, subject>>
    \/ /\ subject = "terminal" /\ TerminalNext
       /\ UNCHANGED <<admissionVars, framingVars, negotiationVars, agentVars, keptVars, subject>>
    \/ /\ subject = "pool" /\ AgentNext
       /\ UNCHANGED <<admissionVars, framingVars, negotiationVars, terminalVars, keptVars, subject>>
    \/ /\ subject = "store" /\ StoreNext
       /\ UNCHANGED <<admissionVars, framingVars, negotiationVars, terminalVars, agentVars,
                      auditVars, subject>>
    \/ /\ subject = "audit" /\ AuditNext
       /\ UNCHANGED <<admissionVars, framingVars, negotiationVars, terminalVars, agentVars,
                      storeVars, subject>>

ConnectionSpec == ConnectionInit /\ [][ConnectionNext]_connectionVars
===============================================================================
