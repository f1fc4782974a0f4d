-------------------------- MODULE Credential_proofs --------------------------
(***************************************************************************)
(* The credential journal, for any number of gateways, operations and       *)
(* servers: its transactions keep the rows consistent, never issue a version *)
(* twice and block a credential only for a known reason, and the servers     *)
(* change the rows by those transactions only.                              *)
(***************************************************************************)
EXTENDS Credential, TLAPS

\* What the transactions rely on between them: the projection of a gateway
\* follows an event of that gateway, an operation never lowers the version, a
\* superseded operation exists, and one event carries the largest version.
Linked ==
    /\ \A g \in Gateways : creds[g] # None =>
          /\ creds[g].last \in History(g)
          /\ creds[g].version <= events[creds[g].last].version
    /\ \A k \in Keys : events[k] # None =>
          /\ creds[events[k].gateway] # None
          /\ events[k].previous # None => events[k].previous.version <= events[k].version
          /\ events[k].predecessor # None => events[events[k].predecessor] # None

Topped(g) ==
    History(g) # {} =>
        \E top \in History(g) : \A k \in History(g) : events[k].version <= events[top].version

JournalInv ==
    /\ JournalTypeOK
    /\ Linked
    /\ \A g \in Gateways : Topped(g)
    /\ JournalConsistent
    /\ VersionNamesOneSecret

\* Max of a set of naturals that has a largest element.
LEMMA MaxIs ==
    ASSUME NEW S \in SUBSET Nat, NEW m \in S, \A x \in S : x <= m
    PROVE  Max(S) = m
<1>1. \E x \in S : \A y \in S : x >= y
  <2>1. \A y \in S : m >= y
    OBVIOUS
  <2> QED
    BY <2>1
<1>2. Max(S) \in S /\ \A y \in S : Max(S) >= y
  BY <1>1, Zenon DEF Max
<1>3. Max(S) >= m /\ Max(S) <= m
  BY <1>2
<1>4. Max(S) \in Nat /\ m \in Nat
  BY <1>2
<1> QED
  BY <1>3, <1>4

\* A new version is above every version ever attempted on the gateway.
LEMMA FreshVersion ==
    ASSUME JournalTypeOK, Linked, NEW g \in Gateways, Topped(g)
    PROVE  /\ AllocateVersion(g) \in Nat
           /\ AllocateVersion(g) > VersionOf(g)
           /\ \A k \in History(g) : AllocateVersion(g) > events[k].version
<1> DEFINE S == {VersionOf(g)} \cup {events[k].version : k \in History(g)}
<1>1. VersionOf(g) \in Nat
  BY DEF VersionOf, JournalTypeOK, Credential
<1>2. \A k \in History(g) : events[k].version \in Nat
  BY DEF History, JournalTypeOK, Event
<1>3. S \in SUBSET Nat
  BY <1>1, <1>2
<1>4. CASE History(g) = {}
  <2>1. S = {VersionOf(g)}
    BY <1>4
  <2>2. VersionOf(g) \in S /\ \A x \in S : x <= VersionOf(g)
    BY <2>1, <1>1
  <2>3. Max(S) = VersionOf(g)
    BY <2>2, <1>3, MaxIs
  <2> QED
    BY <2>3, <1>1, <1>4 DEF AllocateVersion
<1>5. CASE History(g) # {}
  <2>1. PICK top \in History(g) : \A k \in History(g) : events[k].version <= events[top].version
    BY <1>5 DEF Topped
  <2>2. creds[g] # None
    BY <2>1, NoneAssumption DEF Linked, History
  <2>3. VersionOf(g) <= events[top].version
    <3>1. creds[g].last \in History(g) /\ creds[g].version <= events[creds[g].last].version
      BY <2>2 DEF Linked
    <3>2. events[creds[g].last].version <= events[top].version
      BY <3>1, <2>1
    <3>3. creds[g].version \in Nat
      BY <2>2 DEF JournalTypeOK, Credential
    <3> QED
      BY <3>1, <3>2, <3>3, <1>2, <2>1, <2>2 DEF VersionOf
  <2>4. Max(S) = events[top].version
    <3>1. events[top].version \in S
      BY <2>1
    <3>2. \A x \in S : x <= events[top].version
      BY <2>1, <2>3
    <3> QED
      BY <1>3, <3>1, <3>2, MaxIs
  <2> QED
    BY <2>1, <2>3, <2>4, <1>1, <1>2 DEF AllocateVersion
<1> QED
  BY <1>4, <1>5

-----------------------------------------------------------------------------
\* An admitted operation, ordinary or reset, keeps the invariant.
LEMMA InsertKeeps ==
    ASSUME JournalInv,
           NEW g \in Gateways, NEW action \in Actions \cup {"reset"}, NEW k \in Keys,
           NEW version \in Nat, NEW predecessor \in Keys \cup {None},
           NEW reason \in Reasons \cup {None},
           events[k] = None,
           predecessor # None => events[predecessor] # None,
           \A u \in Unresolved(g) : u = predecessor,
           version >= VersionOf(g),
           \/ \A h \in History(g) : version > events[h].version
           \/ action = "revoke" /\ creds[g] # None /\ version = VersionOf(g),
           Insert(g, action, k, version, predecessor, reason)
    PROVE  JournalInv'
<1> DEFINE e == [gateway |-> g, action |-> action, status |-> "pending",
                 version |-> version, previous |-> SnapshotOf(g),
                 predecessor |-> predecessor, reason |-> reason]
           c == [status |-> PendingStatus(action), version |-> version, last |-> k]
<1>1. /\ events' = [events EXCEPT ![k] = e]
      /\ creds' = [creds EXCEPT ![g] = c]
  BY DEF Insert
<1>2. JournalTypeOK /\ Linked /\ (\A h \in Gateways : Topped(h))
      /\ JournalConsistent /\ VersionNamesOneSecret
  BY DEF JournalInv
<1>3. SnapshotOf(g) \in Snapshot \cup {None}
  BY <1>2 DEF SnapshotOf, Snapshot, JournalTypeOK, Credential
<1>4. e \in Event /\ e # None
  BY <1>3, NoneAssumption DEF Event, OpenStatus
<1>5. c \in Credential /\ c # None
  BY NoneAssumption DEF Credential, PendingStatus, CredentialStatus, Transient, Actions
<1>6. /\ events'[k] = e
      /\ \A h \in Keys \ {k} : events'[h] = events[h]
      /\ creds'[g] = c
      /\ \A h \in Gateways \ {g} : creds'[h] = creds[h]
  BY <1>1, <1>2 DEF JournalTypeOK
<1>7. JournalTypeOK'
  BY <1>1, <1>2, <1>4, <1>5 DEF JournalTypeOK
<1>8. /\ History(g)' = History(g) \cup {k}
      /\ \A h \in Gateways \ {g} : History(h)' = History(h)
      /\ k \notin History(g)
  BY <1>4, <1>6 DEF History
<1>9. Linked'
  <2>1. ASSUME NEW h \in Gateways, creds'[h] # None
        PROVE  creds'[h].last \in History(h)' /\ creds'[h].version <= events'[creds'[h].last].version
    <3>1. CASE h = g
      BY <3>1, <1>6, <1>8
    <3>2. CASE h # g
      BY <3>2, <2>1, <1>2, <1>6, <1>8 DEF Linked, History
    <3> QED
      BY <3>1, <3>2
  <2>2. ASSUME NEW h \in Keys, events'[h] # None
        PROVE  /\ creds'[events'[h].gateway] # None
               /\ events'[h].previous # None => events'[h].previous.version <= events'[h].version
               /\ events'[h].predecessor # None => events'[events'[h].predecessor] # None
    <3>1. CASE h = k
      <4>1. SnapshotOf(g) # None => SnapshotOf(g).version <= version
        BY DEF SnapshotOf, VersionOf
      <4>2. predecessor # None => events'[predecessor] # None
        BY <1>4, <1>6
      <4> QED
        BY <3>1, <4>1, <4>2, <1>5, <1>6
    <3>2. CASE h # k
      <4>1. events[h] # None /\ events'[h] = events[h] /\ events[h] \in Event
        BY <3>2, <2>2, <1>2, <1>6 DEF JournalTypeOK
      <4>2. creds'[events[h].gateway] # None
        BY <4>1, <1>2, <1>5, <1>6 DEF Linked, Event
      <4>3. events[h].predecessor # None => events'[events[h].predecessor] # None
        BY <4>1, <1>2, <1>4, <1>6 DEF Linked, Event
      <4> QED
        BY <4>1, <4>2, <4>3, <1>2 DEF Linked
    <3> QED
      BY <3>1, <3>2
  <2> QED
    BY <2>1, <2>2 DEF Linked
<1>10. ASSUME NEW h \in Gateways PROVE Topped(h)'
  <2>1. CASE h # g
    <3>1. History(h)' = History(h) /\ \A x \in History(h) : events'[x] = events[x]
      BY <2>1, <1>6, <1>8 DEF History
    <3> QED
      BY <3>1, <1>2 DEF Topped
  <2>2. CASE h = g /\ \A x \in History(g) : version > events[x].version
    <3>1. \A x \in History(g)' : events'[x].version <= events'[k].version
      BY <2>2, <1>2, <1>6, <1>8 DEF History, JournalTypeOK, Event
    <3> QED
      BY <3>1, <2>2, <1>8 DEF Topped
  <2>3. CASE h = g /\ creds[g] # None /\ version = VersionOf(g)
    <3>1. PICK top \in History(g) : \A x \in History(g) : events[x].version <= events[top].version
      BY <2>3, <1>2 DEF Linked, Topped
    <3>2. version <= events[top].version
      <4>1. creds[g].last \in History(g) /\ creds[g].version <= events[creds[g].last].version
        BY <2>3, <1>2 DEF Linked
      <4>2. events[creds[g].last].version <= events[top].version
        BY <4>1, <3>1
      <4>3. events[creds[g].last].version \in Nat /\ events[top].version \in Nat
        BY <4>1, <3>1, <1>2 DEF JournalTypeOK, Event, History
      <4> QED
        BY <4>1, <4>2, <4>3, <2>3 DEF VersionOf
    <3>3. top # k /\ events'[top] = events[top] /\ top \in History(g)'
      BY <3>1, <1>6, <1>8 DEF History
    <3>4. \A x \in History(g)' : events'[x].version <= events'[top].version
      <4>1. SUFFICES ASSUME NEW x \in History(g)'
                     PROVE  events'[x].version <= events'[top].version
        OBVIOUS
      <4>2. CASE x = k
        <5>1. events'[x].version = version
          BY <4>2, <1>6
        <5> QED
          BY <5>1, <3>2, <3>3
      <4>3. CASE x # k
        <5>1. x \in History(g) /\ events'[x] = events[x]
          BY <4>3, <1>6, <1>8 DEF History
        <5> QED
          BY <5>1, <3>1, <3>3
      <4> QED
        BY <4>2, <4>3
    <3> QED
      BY <3>3, <3>4, <2>3 DEF Topped
  <2> QED
    BY <2>1, <2>2, <2>3
<1>11. \A h \in Gateways : \A x \in Unresolved(h)' : x = k \/ (h # g /\ x \in Unresolved(h))
  <2> SUFFICES ASSUME NEW h \in Gateways, NEW x \in Unresolved(h)', x # k
               PROVE  h # g /\ x \in Unresolved(h)
    OBVIOUS
  <2>1. /\ x \in History(h) /\ events'[x] = events[x]
        /\ events[x].status \in OpenStatus
        /\ Effective(x)'
    BY <1>6, <1>8 DEF Unresolved, History
  <2>2. Effective(x)
    <3> SUFFICES ASSUME NEW r \in Keys, events[r] # None PROVE events[r].predecessor # x
      BY DEF Effective
    <3>1. r # k /\ events'[r] = events[r]
      BY <1>6
    <3> QED
      BY <3>1, <2>1 DEF Effective
  <2>3. x \in Unresolved(h)
    BY <2>1, <2>2 DEF Unresolved
  <2>4. h # g
    <3> SUFFICES ASSUME h = g PROVE FALSE
      OBVIOUS
    <3>1. x = predecessor
      BY <2>3
    <3>2. events'[k].predecessor = x /\ events'[k] # None
      BY <3>1, <1>4, <1>6
    <3> QED
      BY <3>2, <2>1 DEF Effective
  <2> QED
    BY <2>3, <2>4
<1>12. JournalConsistent'
  <2> SUFFICES ASSUME NEW h \in Gateways, NEW x \in Unresolved(h)'
               PROVE  /\ creds'[h] # None
                      /\ creds'[h].last = x
                      /\ creds'[h].version = ShownVersion(x)'
                      /\ creds'[h].status = IF events'[x].status = "pending"
                                            THEN PendingStatus(events'[x].action)
                                            ELSE "recovery_needed"
    BY DEF JournalConsistent
  <2>1. CASE x = k
    <3>1. h = g
      BY <2>1, <1>6 DEF Unresolved, History
    <3>2. ShownVersion(k)' = version
      <4>1. events'[k] = e
        BY <1>6
      <4>2. e.status = "pending" /\ e.version = version
        OBVIOUS
      <4>3. events'[k].status # "recovery_needed" /\ events'[k].version = version
        BY <4>1, <4>2
      <4> HIDE DEF e
      <4> QED
        BY <4>3 DEF ShownVersion
    <3> QED
      BY <2>1, <3>1, <3>2, <1>5, <1>6
  <2>2. CASE x # k
    <3>1. h # g /\ x \in Unresolved(h)
      BY <2>2, <1>11
    <3>2. events'[x] = events[x] /\ creds'[h] = creds[h]
      BY <3>1, <2>2, <1>6 DEF Unresolved, History
    <3>3. ShownVersion(x)' = ShownVersion(x)
      BY <3>2 DEF ShownVersion
    <3> QED
      BY <3>1, <3>2, <3>3, <1>2 DEF JournalConsistent
  <2> QED
    BY <2>1, <2>2
<1>13. VersionNamesOneSecret'
  <2>1. action # "revoke" => \A h \in History(g) : version > events[h].version
    BY Zenon
  <2>2. ASSUME NEW x \in Keys \ {k}, events[x] # None, events[x].gateway = g, action # "revoke"
        PROVE  events[x].version # version
    BY <2>1, <2>2, <1>2 DEF History, JournalTypeOK, Event
  <2>3. events'[k].gateway = g /\ events'[k].action = action /\ events'[k].version = version
    <3>1. events'[k] = e
      BY <1>6
    <3>2. e.gateway = g /\ e.action = action /\ e.version = version
      OBVIOUS
    <3> QED
      BY <3>1, <3>2
  <2> SUFFICES ASSUME NEW x \in Keys, NEW y \in Keys, x # y,
                      events'[x] # None, events'[y] # None,
                      events'[x].gateway = events'[y].gateway,
                      events'[x].action # "revoke", events'[y].action # "revoke"
               PROVE  events'[x].version # events'[y].version
    BY DEF VersionNamesOneSecret
  <2>4. CASE x = k
    <3>1. events'[y] = events[y]
      BY <2>4, <1>6
    <3>2. events[y] # None /\ events[y].gateway = g /\ action # "revoke" /\ y \in Keys \ {k}
      BY <2>3, <2>4, <3>1
    <3>3. events[y].version # version
      BY <3>2, <2>2
    <3> QED
      BY <3>1, <3>3, <2>3, <2>4
  <2>5. CASE y = k
    <3>1. events'[x] = events[x]
      BY <2>5, <1>6
    <3>2. events[x] # None /\ events[x].gateway = g /\ action # "revoke" /\ x \in Keys \ {k}
      BY <2>3, <2>5, <3>1
    <3>3. events[x].version # version
      BY <3>2, <2>2
    <3> QED
      BY <3>1, <3>3, <2>3, <2>5
  <2>6. CASE x # k /\ y # k
    <3>1. events'[x] = events[x] /\ events'[y] = events[y]
      BY <2>6, <1>6
    <3> QED
      BY <3>1, <1>2 DEF VersionNamesOneSecret
  <2> QED
    BY <2>4, <2>6, <2>5
<1> QED
  BY <1>7, <1>9, <1>10, <1>12, <1>13 DEF JournalInv

-----------------------------------------------------------------------------
\* The completion of a pending operation keeps the invariant.
LEMMA CompleteKeeps ==
    ASSUME JournalInv, NEW k \in Keys, NEW outcome \in Outcomes, Complete(k, outcome)
    PROVE  JournalInv'
<1> DEFINE g == events[k].gateway
           s == CompletedStatus(outcome)
           d == CompletedCredential(k, outcome)
           c == [status |-> d.status, version |-> d.version, last |-> k]
           e == [events[k] EXCEPT !.status = s]
<1>1. /\ events[k] # None /\ events[k].status = "pending"
      /\ creds[g].last = k
      /\ events' = [events EXCEPT ![k] = e]
      /\ creds' = [creds EXCEPT ![g] = c]
  BY DEF Complete, Completable
<1>2. JournalTypeOK /\ Linked /\ (\A h \in Gateways : Topped(h))
      /\ JournalConsistent /\ VersionNamesOneSecret
  BY DEF JournalInv
<1>3. events[k] \in Event /\ g \in Gateways /\ creds[g] # None
  BY <1>1, <1>2 DEF JournalTypeOK, Event, Linked
<1>4. e \in Event /\ e # None
  <2>1. s \in OpenStatus \cup {"succeeded", "failed"}
    BY DEF CompletedStatus, OpenStatus, Outcomes
  <2>2. e \in Event
    BY <2>1, <1>3 DEF Event
  <2> QED
    BY <2>2, NoneAssumption
<1>5. /\ d.status \in CredentialStatus
      /\ d.version \in Nat
      /\ d.version <= events[k].version
      /\ outcome = "recovery" => d.status = "recovery_needed"
      /\ outcome = "recovery" => d.version = IF events[k].previous = None
                                 THEN events[k].version ELSE events[k].previous.version
  <2>1. events[k].version \in Nat /\ events[k].previous \in Snapshot \cup {None}
    BY <1>3 DEF Event
  <2>2. events[k].previous # None => events[k].previous.version <= events[k].version
    BY <1>1, <1>2 DEF Linked
  <2>3. events[k].previous # None =>
            events[k].previous = [status |-> events[k].previous.status,
                                  version |-> events[k].previous.version]
            /\ events[k].previous.status \in CredentialStatus
            /\ events[k].previous.version \in Nat
    BY <2>1 DEF Snapshot
  <2>4. CASE outcome = "success"
    <3>1. d = [status |-> IF events[k].action = "revoke" THEN "revoked" ELSE "active",
               version |-> events[k].version]
      BY <2>4 DEF CompletedCredential
    <3> QED
      BY <3>1, <2>1, <2>4 DEF CredentialStatus
  <2>5. CASE outcome = "unchanged"
    <3>1. d = IF events[k].previous = None
              THEN [status |-> "failed", version |-> events[k].version] ELSE events[k].previous
      BY <2>5 DEF CompletedCredential
    <3> QED
      <4>1. CASE events[k].previous = None
        BY <4>1, <3>1, <2>1, <2>5 DEF CredentialStatus
      <4>2. CASE events[k].previous # None
        <5>1. d = events[k].previous
          BY <4>2, <3>1
        <5> QED
          BY <5>1, <4>2, <2>2, <2>3, <2>5
      <4> QED
        BY <4>1, <4>2
  <2>6. CASE outcome = "recovery"
    <3>1. d = [(IF events[k].previous = None
                THEN [status |-> "failed", version |-> events[k].version] ELSE events[k].previous)
               EXCEPT !.status = "recovery_needed"]
      BY <2>6 DEF CompletedCredential
    <3>2. CASE events[k].previous = None
      BY <3>1, <3>2, <2>1, <2>6 DEF CredentialStatus
    <3>3. CASE events[k].previous # None
      BY <3>1, <3>3, <2>1, <2>2, <2>3, <2>6 DEF CredentialStatus
    <3> QED
      BY <3>2, <3>3
  <2> QED
    BY <2>4, <2>5, <2>6 DEF Outcomes
<1> HIDE DEF d
<1>6. c \in Credential /\ c # None
  BY <1>5, NoneAssumption DEF Credential
<1>7. /\ events'[k] = e
      /\ \A h \in Keys \ {k} : events'[h] = events[h]
      /\ creds'[g] = c
      /\ \A h \in Gateways \ {g} : creds'[h] = creds[h]
  BY <1>1, <1>2, <1>3 DEF JournalTypeOK
<1>8. /\ e.gateway = g /\ e.action = events[k].action /\ e.version = events[k].version
      /\ e.previous = events[k].previous /\ e.predecessor = events[k].predecessor
      /\ e.status = s
  BY <1>3 DEF Event
<1> HIDE DEF e
<1>9. JournalTypeOK'
  BY <1>1, <1>2, <1>3, <1>4, <1>6 DEF JournalTypeOK
<1>10. \A h \in Keys : /\ (events'[h] # None) = (events[h] # None)
                       /\ events[h] # None =>
                            /\ events'[h].gateway = events[h].gateway
                            /\ events'[h].action = events[h].action
                            /\ events'[h].version = events[h].version
                            /\ events'[h].previous = events[h].previous
                            /\ events'[h].predecessor = events[h].predecessor
  BY <1>1, <1>4, <1>7, <1>8
<1>11. \A h \in Gateways : History(h)' = History(h)
  BY <1>10 DEF History
<1>12. \A h \in Keys : Effective(h)' = Effective(h)
  BY <1>10 DEF Effective
<1>13. Linked'
  <2>1. ASSUME NEW h \in Gateways, creds'[h] # None
        PROVE  creds'[h].last \in History(h)' /\ creds'[h].version <= events'[creds'[h].last].version
    <3>1. CASE h = g
      <4>1. k \in History(g)
        BY <1>1 DEF History
      <4>2. creds'[h].last = k /\ creds'[h].version = d.version
        BY <3>1, <1>7
      <4>3. events'[k].version = events[k].version
        BY <1>7, <1>8
      <4>4. k \in History(h)'
        BY <3>1, <4>1, <1>11
      <4> QED
        BY <4>2, <4>3, <4>4, <1>5
    <3>2. CASE h # g
      <4>1. creds'[h] = creds[h] /\ creds[h].last \in History(h)
            /\ creds[h].version <= events[creds[h].last].version
        BY <3>2, <2>1, <1>2, <1>7 DEF Linked
      <4> QED
        BY <4>1, <1>10, <1>11 DEF History
    <3> QED
      BY <3>1, <3>2
  <2>2. ASSUME NEW h \in Keys, events'[h] # None
        PROVE  /\ creds'[events'[h].gateway] # None
               /\ events'[h].previous # None => events'[h].previous.version <= events'[h].version
               /\ events'[h].predecessor # None => events'[events'[h].predecessor] # None
    <3>1. events[h] # None /\ events[h] \in Event
      BY <2>2, <1>2, <1>10 DEF JournalTypeOK
    <3>2. creds'[events[h].gateway] # None
      BY <3>1, <1>2, <1>3, <1>6, <1>7 DEF Linked, Event
    <3>3. events[h].predecessor # None => events'[events[h].predecessor] # None
      BY <3>1, <1>2, <1>10 DEF Linked, Event
    <3> QED
      BY <3>1, <3>2, <3>3, <1>2, <1>10 DEF Linked
  <2> QED
    BY <2>1, <2>2 DEF Linked
<1>14. ASSUME NEW h \in Gateways PROVE Topped(h)'
  <2>1. Topped(h) /\ \A x \in History(h) : events'[x].version = events[x].version
    BY <1>2, <1>10 DEF History
  <2> QED
    BY <2>1, <1>11 DEF Topped
<1>15. JournalConsistent'
  <2> SUFFICES ASSUME NEW h \in Gateways, NEW x \in Unresolved(h)'
               PROVE  /\ creds'[h] # None
                      /\ creds'[h].last = x
                      /\ creds'[h].version = ShownVersion(x)'
                      /\ creds'[h].status = IF events'[x].status = "pending"
                                            THEN PendingStatus(events'[x].action)
                                            ELSE "recovery_needed"
    BY DEF JournalConsistent
  <2>1. x \in History(h) /\ Effective(x) /\ events'[x].status \in OpenStatus
    BY <1>11, <1>12 DEF Unresolved, History
  <2>2. CASE x = k
    <3>1. h = g
      BY <2>1, <2>2 DEF History
    <3>2. s = "recovery_needed" /\ outcome = "recovery"
      BY <2>1, <2>2, <1>7, <1>8 DEF CompletedStatus, OpenStatus, Outcomes
    <3>3. ShownVersion(k)' = d.version
      BY <3>2, <1>5, <1>7, <1>8 DEF ShownVersion
    <3>4. /\ creds'[h] = c /\ c.last = k /\ c.version = d.version
          /\ c.status = "recovery_needed"
      BY <3>1, <3>2, <1>5, <1>7
    <3>5. events'[x].status = "recovery_needed"
      BY <2>2, <3>2, <1>7, <1>8
    <3> QED
      BY <2>2, <3>3, <3>4, <3>5, <1>6
  <2>3. CASE x # k
    <3>1. events'[x] = events[x] /\ x \in Unresolved(h)
      BY <2>1, <2>3, <1>7 DEF Unresolved, History
    <3>2. creds[h].last = x
      BY <3>1, <1>2 DEF JournalConsistent
    <3>3. h # g
      BY <3>2, <2>3, <1>1
    <3>4. creds'[h] = creds[h] /\ ShownVersion(x)' = ShownVersion(x)
      BY <3>1, <3>3, <1>7 DEF ShownVersion
    <3> QED
      BY <3>1, <3>4, <1>2 DEF JournalConsistent
  <2> QED
    BY <2>2, <2>3
<1>16. VersionNamesOneSecret'
  BY <1>2, <1>10, SMTT(30) DEF VersionNamesOneSecret
<1> QED
  BY <1>9, <1>13, <1>14, <1>15, <1>16 DEF JournalInv

-----------------------------------------------------------------------------
\* BeginOperation allocates above everything attempted, or revokes the version
\* in force, and only when nothing is unresolved.
LEMMA BeginOperationKeeps ==
    ASSUME JournalInv, NEW g \in Gateways, NEW a \in Actions, NEW k \in Keys,
           BeginOperation(g, a, k)
    PROVE  JournalInv'
<1>1. JournalTypeOK /\ Linked /\ Topped(g)
  BY DEF JournalInv
<1>2. Admission(g, a, k) = "admitted"
  BY DEF BeginOperation
<1>3. events[k] = None /\ Unresolved(g) = {} /\ ~(creds[g] = None /\ a = "revoke")
  BY <1>2 DEF Admission, ReplayOperation
<1>4. VersionOf(g) \in Nat
  BY <1>1 DEF VersionOf, JournalTypeOK, Credential
<1>5. CASE a = "revoke"
  <2>1. Insert(g, a, k, VersionOf(g), None, None)
    BY <1>5 DEF BeginOperation
  <2>2. VersionOf(g) >= VersionOf(g)
    BY <1>4
  <2>3. a \in Actions \cup {"reset"} /\ None \in Keys \cup {None} /\ None \in Reasons \cup {None}
    OBVIOUS
  <2>4. \A u \in Unresolved(g) : u = None
    BY <1>3
  <2> QED
    BY <2>1, <2>2, <2>3, <2>4, <1>3, <1>4, <1>5, InsertKeeps, ZenonT(30)
<1>6. CASE a # "revoke"
  <2>1. Insert(g, a, k, AllocateVersion(g), None, None)
    BY <1>6 DEF BeginOperation
  <2>2. /\ AllocateVersion(g) \in Nat /\ AllocateVersion(g) >= VersionOf(g)
        /\ \A h \in History(g) : AllocateVersion(g) > events[h].version
    BY <1>1, <1>4, FreshVersion
  <2>3. a \in Actions \cup {"reset"} /\ None \in Keys \cup {None} /\ None \in Reasons \cup {None}
    OBVIOUS
  <2>4. \A u \in Unresolved(g) : u = None
    BY <1>3
  <2> HIDE DEF AllocateVersion
  <2> QED
    BY <2>1, <2>2, <2>3, <2>4, <1>3, InsertKeeps, ZenonT(30)
<1> QED
  BY <1>5, <1>6

\* BeginReset supersedes the one operation that may be unresolved.
LEMMA BeginResetKeeps ==
    ASSUME JournalInv, NEW g \in Gateways, NEW r \in Reasons, NEW k \in Keys, NEW guard,
           BeginReset(g, r, k, guard)
    PROVE  JournalInv'
<1>1. JournalTypeOK /\ Linked /\ Topped(g)
  BY DEF JournalInv
<1>2. creds[g] # None /\ ResetAdmission(g, r, k, guard) = "admitted"
      /\ Insert(g, "reset", k, AllocateVersion(g), creds[g].last, r)
  BY DEF BeginReset
<1>3. events[k] = None /\ Unresolved(g) \ {creds[g].last} = {}
  BY <1>2 DEF ResetAdmission, ReplayOperation
<1>4. VersionOf(g) \in Nat
  BY <1>1 DEF VersionOf, JournalTypeOK, Credential
<1>5. /\ AllocateVersion(g) \in Nat /\ AllocateVersion(g) >= VersionOf(g)
      /\ \A h \in History(g) : AllocateVersion(g) > events[h].version
  BY <1>1, <1>4, FreshVersion
<1>6. creds[g].last \in Keys /\ events[creds[g].last] # None
  BY <1>1, <1>2 DEF Linked, History
<1>7. \A u \in Unresolved(g) : u = creds[g].last
  BY <1>3
<1> QED
  BY <1>2, <1>3, <1>5, <1>6, <1>7, InsertKeeps

LEMMA JournalInitially == JournalInit => JournalInv
<1> SUFFICES ASSUME JournalInit PROVE JournalInv
  OBVIOUS
<1>1. /\ \A k \in Keys : events[k] = None
      /\ \A g \in Gateways : creds[g] = None
      /\ \A g \in Gateways : History(g) = {}
  BY DEF JournalInit, History
<1>2. JournalTypeOK
  BY DEF JournalInit, JournalTypeOK
<1> QED
  BY <1>1, <1>2 DEF JournalInv, Linked, Topped, JournalConsistent, VersionNamesOneSecret, Unresolved

LEMMA JournalStep == JournalInv /\ [JournalNext]_journalVars => JournalInv'
<1> SUFFICES ASSUME JournalInv, [JournalNext]_journalVars PROVE JournalInv'
  OBVIOUS
<1>1. CASE \E g \in Gateways, a \in Actions, k \in Keys : BeginOperation(g, a, k)
  BY <1>1, BeginOperationKeeps
<1>2. CASE \E g \in Gateways, r \in Reasons, k \in Keys :
             creds[g] # None /\ BeginReset(g, r, k, ResetGuard(g))
  BY <1>2, BeginResetKeeps
<1>3. CASE \E k \in Keys, o \in Outcomes : Complete(k, o)
  BY <1>3, CompleteKeeps
<1>4. CASE UNCHANGED journalVars
  <2>1. events' = events /\ creds' = creds
    BY <1>4 DEF journalVars
  <2>2. /\ \A g \in Gateways : History(g)' = History(g)
        /\ \A k \in Keys : Effective(k)' = Effective(k) /\ ShownVersion(k)' = ShownVersion(k)
    BY <2>1 DEF History, Effective, ShownVersion
  <2>3. \A g \in Gateways : Unresolved(g)' = Unresolved(g) /\ Unresolved(g) \subseteq Keys
    BY <2>1, <2>2 DEF Unresolved, History
  <2>4. (JournalTypeOK /\ VersionNamesOneSecret)'
    BY <2>1 DEF JournalInv, JournalTypeOK, VersionNamesOneSecret
  <2>5. Linked'
    BY <2>1, <2>2 DEF JournalInv, Linked
  <2>6. \A g \in Gateways : Topped(g)'
    BY <2>1, <2>2 DEF JournalInv, Topped
  <2>7. JournalConsistent'
    <3> SUFFICES ASSUME NEW g \in Gateways, NEW k \in Unresolved(g)
                 PROVE  /\ creds[g] # None
                        /\ creds[g].last = k
                        /\ creds[g].version = ShownVersion(k)
                        /\ creds[g].status = IF events[k].status = "pending"
                                             THEN PendingStatus(events[k].action)
                                             ELSE "recovery_needed"
      BY <2>1, <2>2, <2>3, SMTT(60) DEF JournalConsistent, PendingStatus
    <3> QED
      BY DEF JournalInv, JournalConsistent
  <2> QED
    BY <2>4, <2>5, <2>6, <2>7 DEF JournalInv
<1> QED
  BY <1>1, <1>2, <1>3, <1>4 DEF JournalNext

\* Whatever transactions run in whatever order, on any number of gateways, an
\* unresolved operation is the one its credential points at with the status and
\* version that startup classification and complete() expect, and no two
\* operations that issue a password of a gateway carry the same version.
THEOREM JournalSafety == JournalSpec => [](JournalTypeOK /\ JournalConsistent /\ VersionNamesOneSecret)
<1>1. JournalInv => JournalTypeOK /\ JournalConsistent /\ VersionNamesOneSecret
  BY DEF JournalInv
<1> QED
  BY <1>1, JournalInitially, JournalStep, PTL DEF JournalSpec

-----------------------------------------------------------------------------
\* Why a credential is blocked.  Between transactions the last operation of a
\* gateway is not superseded, and only a reset of an unresolved operation keeps
\* a blocked status to go back to.
Settled ==
    /\ \A g \in Gateways : creds[g] # None => Effective(creds[g].last)
    /\ \A k \in Keys :
          events[k] # None /\ events[k].previous # None
             /\ events[k].reason # "recovery_after_unknown"
          => events[k].previous.status \notin Blocked
    /\ OnlyAFailedResetStrands

LEMMA InsertSettles ==
    ASSUME JournalInv, Settled,
           NEW g \in Gateways, NEW action \in Actions \cup {"reset"}, NEW k \in Keys,
           NEW version \in Nat, NEW predecessor \in Keys \cup {None},
           NEW reason \in Reasons \cup {None},
           events[k] = None,
           predecessor # None => creds[g] # None /\ predecessor = creds[g].last,
           reason # "recovery_after_unknown" => StatusOf(g) \notin Blocked,
           Insert(g, action, k, version, predecessor, reason)
    PROVE  Settled'
<1> DEFINE e == [gateway |-> g, action |-> action, status |-> "pending",
                 version |-> version, previous |-> SnapshotOf(g),
                 predecessor |-> predecessor, reason |-> reason]
           c == [status |-> PendingStatus(action), version |-> version, last |-> k]
<1>1. /\ events \in [Keys -> Event \cup {None}] /\ creds \in [Gateways -> Credential \cup {None}]
      /\ events' = [events EXCEPT ![k] = e] /\ creds' = [creds EXCEPT ![g] = c]
  BY DEF JournalInv, JournalTypeOK, Insert
<1>2. /\ events'[k] = e /\ \A m \in Keys \ {k} : events'[m] = events[m]
      /\ creds'[g] = c /\ \A h \in Gateways \ {g} : creds'[h] = creds[h]
  BY <1>1
<1>3. /\ e.gateway = g /\ e.status = "pending" /\ e.previous = SnapshotOf(g)
      /\ e.predecessor = predecessor /\ e.reason = reason
      /\ c.last = k
  OBVIOUS
<1>4. None \notin Keys /\ None # e /\ None # c
  <2>1. e \in Event /\ c \in Credential
    <3>1. SnapshotOf(g) \in Snapshot \cup {None}
      BY <1>1 DEF SnapshotOf, Snapshot, Credential
    <3>2. PendingStatus(action) \in CredentialStatus
      BY DEF PendingStatus, CredentialStatus, Transient
    <3> QED
      BY <3>1, <3>2 DEF Event, Credential, OpenStatus
  <2> QED
    BY <2>1, NoneAssumption
<1>5. \A h \in Gateways : creds[h] # None =>
          creds[h].last \in Keys /\ events[creds[h].last] # None
             /\ events[creds[h].last].gateway = h
  BY DEF JournalInv, Linked, History
<1>6. \A r \in Keys : events[r] # None => events[r].predecessor # k
  BY <1>4 DEF JournalInv, Linked
<1>7. predecessor # k
  BY <1>4, <1>5
<1>8. Effective(k)'
  BY <1>2, <1>3, <1>6, <1>7 DEF Effective
<1>9. ASSUME NEW u \in Keys, Effective(u), events[u] # None, events[u].gateway # g
      PROVE  Effective(u)'
  <2>1. predecessor # u
    BY <1>4, <1>5, <1>9
  <2> QED
    BY <2>1, <1>2, <1>3, <1>9 DEF Effective
<1>10. \A h \in Gateways : (creds[h] # None => Effective(creds[h].last))'
  <2> SUFFICES ASSUME NEW h \in Gateways, creds'[h] # None PROVE Effective(creds[h].last)'
    OBVIOUS
  <2>1. CASE h = g
    BY <2>1, <1>2, <1>3, <1>8
  <2>2. CASE h # g
    <3>1. creds'[h] = creds[h] /\ creds[h] # None
      BY <2>2, <1>2
    <3>2. Effective(creds[h].last)
      BY <3>1 DEF Settled
    <3>3. PICK u \in Keys : u = creds[h].last /\ events[u] # None /\ events[u].gateway # g
      BY <3>1, <2>2, <1>5
    <3>4. Effective(u)'
      BY <3>2, <3>3, <1>9
    <3> QED
      BY <3>1, <3>3, <3>4 DEF Effective
  <2> QED
    BY <2>1, <2>2
<1>11. SnapshotOf(g) # None /\ reason # "recovery_after_unknown"
          => SnapshotOf(g).status \notin Blocked
  BY DEF SnapshotOf, StatusOf
<1>12. \A m \in Keys :
          events'[m] # None /\ events'[m].previous # None
             /\ events'[m].reason # "recovery_after_unknown"
          => events'[m].previous.status \notin Blocked
  <2> SUFFICES ASSUME NEW m \in Keys, events'[m] # None, events'[m].previous # None,
                      events'[m].reason # "recovery_after_unknown"
               PROVE  events'[m].previous.status \notin Blocked
    OBVIOUS
  <2>1. CASE m = k
    BY <2>1, <1>2, <1>3, <1>11
  <2>2. CASE m # k
    BY <2>2, <1>2 DEF Settled
  <2> QED
    BY <2>1, <2>2
<1>13. ASSUME NEW h \in Gateways, Stranded(h)'
       PROVE  /\ events'[creds'[h].last].status = "failed"
              /\ events'[creds'[h].last].reason = "recovery_after_unknown"
  <2>1. h # g
    <3>1. k \in Unresolved(g)'
      BY <1>2, <1>3, <1>4, <1>8 DEF Unresolved, History, OpenStatus
    <3> QED
      BY <3>1, <1>13 DEF Stranded
  <2>2. creds'[h] = creds[h]
    BY <2>1, <1>2
  <2>3. Unresolved(h) \subseteq Unresolved(h)'
    <3> SUFFICES ASSUME NEW u \in Unresolved(h) PROVE u \in Unresolved(h)'
      OBVIOUS
    <3>1. /\ u \in Keys /\ events[u] # None /\ events[u].gateway = h
          /\ events[u].status \in OpenStatus /\ Effective(u)
      BY DEF Unresolved, History
    <3>2. u # k /\ events'[u] = events[u]
      BY <3>1, <1>2
    <3>3. Effective(u)'
      BY <3>1, <2>1, <1>9
    <3> QED
      BY <3>1, <3>2, <3>3 DEF Unresolved, History
  <2>4. Stranded(h)
    BY <2>2, <2>3, <1>13 DEF Stranded, StatusOf
  <2>5. /\ events[creds[h].last].status = "failed"
        /\ events[creds[h].last].reason = "recovery_after_unknown"
    BY <2>4 DEF Settled, OnlyAFailedResetStrands
  <2>6. creds[h] # None
    BY <2>4 DEF Stranded, StatusOf, Blocked, Transient
  <2>7. creds[h].last \in Keys \ {k}
    BY <2>6, <1>5
  <2> QED
    BY <2>2, <2>5, <2>7, <1>2
<1> QED
  BY <1>10, <1>12, <1>13 DEF Settled, OnlyAFailedResetStrands

LEMMA CompleteSettles ==
    ASSUME JournalInv, Settled, NEW k \in Keys, NEW outcome \in Outcomes, Complete(k, outcome)
    PROVE  Settled'
<1> DEFINE g == events[k].gateway
           d == CompletedCredential(k, outcome)
           c == [status |-> d.status, version |-> d.version, last |-> k]
<1>1. /\ events \in [Keys -> Event \cup {None}] /\ creds \in [Gateways -> Credential \cup {None}]
      /\ events[k] # None /\ creds[g].last = k
      /\ events' = [events EXCEPT ![k].status = CompletedStatus(outcome)]
      /\ creds' = [creds EXCEPT ![g] = c]
  BY DEF JournalInv, JournalTypeOK, Complete, Completable
<1>2. events[k] \in Event /\ g \in Gateways
  BY <1>1 DEF Event
<1>3. /\ events'[k].gateway = g /\ events'[k].previous = events[k].previous
      /\ events'[k].predecessor = events[k].predecessor
      /\ events'[k].reason = events[k].reason
      /\ events'[k].status = CompletedStatus(outcome)
      /\ \A m \in Keys \ {k} : events'[m] = events[m]
  BY <1>1, <1>2 DEF Event
<1>4. events'[k] # None
  <2>1. CompletedStatus(outcome) \in OpenStatus \cup {"succeeded", "failed"}
    BY DEF CompletedStatus, OpenStatus
  <2>2. events'[k] \in Event
    BY <2>1, <1>1, <1>2 DEF Event
  <2> QED
    BY <2>2, NoneAssumption
<1>5. creds'[g] = c /\ c.status = d.status /\ c.last = k
      /\ \A h \in Gateways \ {g} : creds'[h] = creds[h]
  BY <1>1, <1>2
<1>6. \A u \in Keys : Effective(u)' <=> Effective(u)
  BY <1>1, <1>3, <1>4 DEF Effective
<1>7. creds[g] # None
  BY <1>1, <1>2 DEF JournalInv, Linked
<1>8. Effective(k)
  BY <1>1, <1>2, <1>7 DEF Settled
<1>9. \A h \in Gateways : creds[h] # None => creds[h].last \in Keys
                                              /\ events[creds[h].last].gateway = h
  BY DEF JournalInv, Linked, History
<1>10. \A h \in Gateways : (creds[h] # None => Effective(creds[h].last))'
  <2> SUFFICES ASSUME NEW h \in Gateways, creds'[h] # None PROVE Effective(creds[h].last)'
    OBVIOUS
  <2>1. CASE h = g
    BY <2>1, <1>5, <1>6, <1>8
  <2>2. CASE h # g
    BY <2>2, <1>5, <1>6, <1>9 DEF Settled
  <2> QED
    BY <2>1, <2>2
<1>11. \A m \in Keys :
          events'[m] # None /\ events'[m].previous # None
             /\ events'[m].reason # "recovery_after_unknown"
          => events'[m].previous.status \notin Blocked
  BY <1>1, <1>3 DEF Settled
<1>12. ASSUME NEW h \in Gateways, h = g, Stranded(h)'
       PROVE  CompletedStatus(outcome) = "failed" /\ events[k].reason = "recovery_after_unknown"
  <2>1. d.status \in Blocked /\ k \notin Unresolved(h)'
    <3>1. StatusOf(h)' \in Blocked /\ Unresolved(h)' = {}
      BY <1>12 DEF Stranded, Blocked, Transient
    <3>2. StatusOf(h)' = d.status
      BY <3>1, <1>5, <1>12 DEF StatusOf, Blocked, Transient
    <3> QED
      BY <3>1, <3>2
  <2>2. CASE outcome = "success"
    BY <2>1, <2>2 DEF CompletedCredential, Blocked, Transient
  <2>3. CASE outcome = "recovery"
    <3>1. events'[k].status = "recovery_needed"
      BY <2>3, <1>3 DEF CompletedStatus
    <3>2. Effective(k)'
      BY <1>6, <1>8
    <3>3. k \in Unresolved(h)'
      BY <3>1, <3>2, <1>3, <1>4, <1>12 DEF Unresolved, History, OpenStatus
    <3> QED
      BY <3>3, <2>1
  <2>4. CASE outcome = "unchanged"
    <3>1. CompletedStatus(outcome) = "failed"
      BY <2>4 DEF CompletedStatus
    <3>2. d = IF events[k].previous = None
              THEN [status |-> "failed", version |-> events[k].version]
              ELSE events[k].previous
      BY <2>4 DEF CompletedCredential
    <3>3. events[k].previous # None
      BY <2>1, <3>2 DEF Blocked, Transient
    <3>4. events[k].previous.status \in Blocked
      BY <2>1, <3>2, <3>3
    <3> QED
      BY <3>1, <3>3, <3>4, <1>1 DEF Settled
  <2> QED
    BY <2>2, <2>3, <2>4 DEF Outcomes
<1>13. ASSUME NEW h \in Gateways \ {g}, Stranded(h)'
       PROVE  /\ events'[creds'[h].last].status = "failed"
              /\ events'[creds'[h].last].reason = "recovery_after_unknown"
  <2>1. creds'[h] = creds[h]
    BY <1>5
  <2>2. Unresolved(h) \subseteq Unresolved(h)'
    <3> SUFFICES ASSUME NEW u \in Unresolved(h) PROVE u \in Unresolved(h)'
      OBVIOUS
    <3>1. /\ u \in Keys /\ events[u] # None /\ events[u].gateway = h
          /\ events[u].status \in OpenStatus /\ Effective(u)
      BY DEF Unresolved, History
    <3>2. u # k /\ events'[u] = events[u] /\ Effective(u)'
      BY <3>1, <1>3, <1>6
    <3> QED
      BY <3>1, <3>2 DEF Unresolved, History
  <2>3. Stranded(h)
    BY <2>1, <2>2, <1>13 DEF Stranded, StatusOf
  <2>4. creds[h] # None
    BY <2>3 DEF Stranded, StatusOf, Blocked, Transient
  <2>5. creds[h].last \in Keys \ {k}
    BY <2>4, <1>9
  <2>6. /\ events[creds[h].last].status = "failed"
        /\ events[creds[h].last].reason = "recovery_after_unknown"
    BY <2>3 DEF Settled, OnlyAFailedResetStrands
  <2> QED
    BY <2>1, <2>5, <2>6, <1>3
<1>14. ASSUME NEW h \in Gateways, Stranded(h)'
       PROVE  /\ events'[creds'[h].last].status = "failed"
              /\ events'[creds'[h].last].reason = "recovery_after_unknown"
  <2>1. CASE h = g
    BY <2>1, <1>3, <1>5, <1>12, <1>14
  <2>2. CASE h # g
    BY <2>2, <1>13, <1>14
  <2> QED
    BY <2>1, <2>2
<1> QED
  BY <1>10, <1>11, <1>14 DEF Settled, OnlyAFailedResetStrands

LEMMA BeginSettles ==
    ASSUME JournalInv, Settled, NEW g \in Gateways, NEW k \in Keys,
           \/ \E a \in Actions : BeginOperation(g, a, k)
           \/ \E r \in Reasons : creds[g] # None /\ BeginReset(g, r, k, ResetGuard(g))
    PROVE  Settled'
<1>1. JournalTypeOK /\ Linked /\ Topped(g)
  BY DEF JournalInv
<1>2. AllocateVersion(g) \in Nat
  BY <1>1, FreshVersion
<1>3. VersionOf(g) \in Nat
  BY <1>1 DEF JournalTypeOK, VersionOf, Credential
<1>4. ASSUME NEW a \in Actions, BeginOperation(g, a, k) PROVE Settled'
  <2> DEFINE v == IF a = "revoke" THEN VersionOf(g) ELSE AllocateVersion(g)
  <2>1. Admission(g, a, k) = "admitted" /\ Insert(g, a, k, v, None, None)
    BY <1>4 DEF BeginOperation
  <2>2. events[k] = None /\ BeginCredentialStatus(g, a) = "admitted"
    BY <2>1 DEF Admission, ReplayOperation
  <2>3. StatusOf(g) \notin Blocked
    BY <2>2 DEF BeginCredentialStatus, AdmittedFrom, Blocked, Transient
  <2>4. v \in Nat /\ a \in Actions \cup {"reset"}
    BY <1>2, <1>3
  <2> HIDE DEF v
  <2> QED
    BY <2>1, <2>2, <2>3, <2>4, InsertSettles, ZenonT(30)
<1>5. ASSUME NEW r \in Reasons, creds[g] # None, BeginReset(g, r, k, ResetGuard(g))
      PROVE  Settled'
  <2>1. /\ ResetAdmission(g, r, k, ResetGuard(g)) = "admitted"
        /\ Insert(g, "reset", k, AllocateVersion(g), creds[g].last, r)
    BY <1>5 DEF BeginReset
  <2>2. events[k] = None /\ ResetEligible(g, r)
    BY <2>1 DEF ResetAdmission, ReplayOperation
  <2>3. r # "recovery_after_unknown" => StatusOf(g) \notin Blocked
    BY <2>2, <1>5 DEF ResetEligible, StatusOf, Blocked, Transient
  <2>4. creds[g].last \in Keys
    BY <1>1, <1>5 DEF Linked, History
  <2> QED
    BY <1>2, <1>5, <2>1, <2>2, <2>3, <2>4, InsertSettles, ZenonT(30)
<1> QED
  BY <1>4, <1>5

LEMMA SettledStep == JournalInv /\ Settled /\ [JournalNext]_journalVars => Settled'
<1> SUFFICES ASSUME JournalInv, Settled, [JournalNext]_journalVars PROVE Settled'
  OBVIOUS
<1>1. CASE \E g \in Gateways, a \in Actions, k \in Keys : BeginOperation(g, a, k)
  BY <1>1, BeginSettles
<1>2. CASE \E g \in Gateways, r \in Reasons, k \in Keys :
             creds[g] # None /\ BeginReset(g, r, k, ResetGuard(g))
  BY <1>2, BeginSettles
<1>3. CASE \E k \in Keys, o \in Outcomes : Complete(k, o)
  BY <1>3, CompleteSettles
<1>4. CASE UNCHANGED journalVars
  <2>1. events' = events /\ creds' = creds
    BY <1>4 DEF journalVars
  <2>2. \A k : Effective(k)' = Effective(k)
    BY <2>1 DEF Effective
  <2>3. \A g \in Gateways : Unresolved(g)' = Unresolved(g)
    BY <2>1, <2>2 DEF Unresolved, History
  <2>4. \A g \in Gateways : Stranded(g)' = Stranded(g)
    BY <2>1, <2>3 DEF Stranded, StatusOf
  <2> QED
    BY <2>1, <2>2, <2>4 DEF Settled, OnlyAFailedResetStrands
<1> QED
  BY <1>1, <1>2, <1>3, <1>4 DEF JournalNext

LEMMA SettledInitially == JournalInit => Settled
<1> SUFFICES ASSUME JournalInit PROVE Settled
  OBVIOUS
<1>1. (\A k \in Keys : events[k] = None) /\ (\A g \in Gateways : creds[g] = None)
  BY DEF JournalInit
<1>2. \A g \in Gateways : ~Stranded(g)
  BY <1>1 DEF Stranded, StatusOf, Blocked, Transient
<1> QED
  BY <1>1, <1>2 DEF Settled, OnlyAFailedResetStrands

\* Whatever transactions run in whatever order, a credential that refuses every
\* ordinary action has an unresolved operation, unless a reset of an unresolved
\* operation failed without touching the broker (CompleteOperation).
THEOREM BlockedForAReason == JournalSpec => []OnlyAFailedResetStrands
<1>1. JournalInv /\ Settled => OnlyAFailedResetStrands
  BY DEF Settled
<1> QED
  BY <1>1, JournalInitially, JournalStep, SettledInitially, SettledStep, PTL DEF JournalSpec

\* And such a credential keeps its row: BeginCredentialStatus refuses the
\* ordinary actions, CheckResetEligibility both resets, and complete() finds no
\* pending operation.
THEOREM StrandedIsFinal ==
    JournalSpec => [][\A g \in Gateways : Stranded(g) => creds'[g] = creds[g]]_journalVars
<1>1. ASSUME JournalInv, Settled, [JournalNext]_journalVars, NEW g \in Gateways, Stranded(g)
      PROVE  creds'[g] = creds[g]
  <2>1. /\ StatusOf(g) \in Blocked
        /\ events[creds[g].last].status = "failed"
    BY <1>1 DEF Settled, OnlyAFailedResetStrands, Stranded
  <2>2. creds \in [Gateways -> Credential \cup {None}]
    BY <1>1 DEF JournalInv, JournalTypeOK
  <2>3. ASSUME NEW h \in Gateways, NEW a \in Actions, NEW k \in Keys, BeginOperation(h, a, k)
        PROVE  creds'[g] = creds[g]
    <3>1. BeginCredentialStatus(h, a) = "admitted"
      BY <2>3 DEF BeginOperation, Admission, ReplayOperation
    <3>2. StatusOf(h) \notin Blocked
      BY <3>1 DEF BeginCredentialStatus, AdmittedFrom, Blocked, Transient
    <3> QED
      BY <3>2, <2>1, <2>2, <2>3 DEF BeginOperation, Insert
  <2>4. ASSUME NEW h \in Gateways, NEW r \in Reasons, NEW k \in Keys,
               BeginReset(h, r, k, ResetGuard(h))
        PROVE  creds'[g] = creds[g]
    <3>1. ResetEligible(h, r)
      BY <2>4 DEF BeginReset, ResetAdmission, ReplayOperation
    <3>2. events[creds[h].last].status # "failed"
      BY <3>1 DEF ResetEligible, OpenStatus
    <3> QED
      BY <3>2, <2>1, <2>2, <2>4 DEF BeginReset, Insert
  <2>5. ASSUME NEW k \in Keys, NEW o \in Outcomes, Complete(k, o)
        PROVE  creds'[g] = creds[g]
    <3>1. events[k].status = "pending" /\ creds[events[k].gateway].last = k
      BY <2>5 DEF Complete, Completable
    <3>2. events[k].gateway # g
      BY <3>1, <2>1
    <3> QED
      BY <3>2, <2>2, <2>5 DEF Complete
  <2> QED
    BY <1>1, <2>3, <2>4, <2>5 DEF JournalNext, journalVars
<1>2. JournalInv /\ Settled /\ [JournalNext]_journalVars
         => [\A g \in Gateways : Stranded(g) => creds'[g] = creds[g]]_journalVars
  BY <1>1
<1> QED
  BY <1>2, JournalInitially, JournalStep, SettledInitially, SettledStep, PTL DEF JournalSpec

-----------------------------------------------------------------------------
\* What a server's own record has to satisfy for its transactions to be the
\* journal's: the operation it works on, the outcome it settles with, and what
\* a reset remembers.
ResetRequest ==
    [gateway : Gateways, reason : Reasons, key : Keys,
     guard : [last : Keys, operation : OpenStatus \cup {"succeeded", "failed"},
              status : CredentialStatus, version : Nat]]

Commanded == {"createRole", "createClient", "disableClient", "setClientPassword",
              "addClientRole", "enableClient", "confirm"}

Server ==
    [pc : {"down", "scan", "idle", "prerequisite", "begin_reset"} \cup Working,
     op : Keys \cup {None}, todo : Seq(Commanded),
     result : Outcomes \cup {"unfinished"}, ready : BOOLEAN, poisoned : BOOLEAN,
     stray : BOOLEAN, reset : ResetRequest \cup {None}, scanned : SUBSET Keys,
     found : SUBSET Keys]

Sound(r) ==
    /\ r \in Server
    /\ r.pc \in Working => r.op \in Keys
    /\ r.pc \in {"idle", "prerequisite", "begin_reset", "gate", "baseline"}
            => r.result = "unchanged"
    /\ r.pc = "post" => r.result \in Outcomes
    /\ r.pc = "settle" => r.result \in {"unchanged", "recovery"}
    /\ r.pc \in {"prerequisite", "begin_reset"} => r.reset \in ResetRequest

ServersSound == srv \in [Servers -> Server] /\ \A s \in Servers : Sound(srv[s])

LEMMA OneServer ==
    ASSUME ServersSound, NEW s \in Servers, NEW r, Sound(r), srv' = [srv EXCEPT ![s] = r]
    PROVE  ServersSound'
<1>1. r \in Server /\ srv \in [Servers -> Server]
  BY DEF ServersSound, Sound
<1>2. srv' \in [Servers -> Server]
  BY <1>1
<1>3. srv'[s] = r /\ \A t \in Servers \ {s} : srv'[t] = srv[t]
  BY <1>1
<1>4. \A t \in Servers : Sound(srv'[t])
  BY <1>3 DEF ServersSound
<1> QED
  BY <1>2, <1>4 DEF ServersSound

LEMMA StoppedSound == Sound(Stopped)
<1>1. <<>> \in Seq(Commanded)
  OBVIOUS
<1>2. Stopped \in Server
  BY <1>1 DEF Stopped, Server, Outcomes
<1>3. Stopped.pc = "down"
  BY DEF Stopped
<1> QED
  BY <1>2, <1>3 DEF Sound, Working

LEMMA IdleSound ==
    ASSUME ServersSound, NEW s \in Servers
    PROVE  /\ Sound(Idle(s)) /\ Sound(Poisoned(s))
           /\ Idle(s) \in Server /\ Poisoned(s) \in Server
           /\ Idle(s).pc = "idle" /\ Idle(s).result = "unchanged"
           /\ Poisoned(s).pc = "idle" /\ Poisoned(s).result = "unchanged"
<1>1. srv[s] \in Server
  BY DEF ServersSound
<1>2. <<>> \in Seq(Commanded)
  OBVIOUS
<1>3. Idle(s) \in Server /\ Idle(s).pc = "idle" /\ Idle(s).result = "unchanged"
  BY <1>1, <1>2 DEF Idle, Server, Outcomes
<1>4. Poisoned(s) \in Server /\ Poisoned(s).pc = "idle" /\ Poisoned(s).result = "unchanged"
  BY <1>3 DEF Poisoned, Server
<1> QED
  BY <1>3, <1>4 DEF Sound, Working

LEMMA UncertainSound ==
    ASSUME ServersSound, NEW s \in Servers, srv[s].pc \in Working
    PROVE  /\ Sound(Uncertain(s))
           /\ Uncertain(s) \in Server /\ Uncertain(s).op \in Keys
           /\ Uncertain(s).result = "recovery"
<1>1. srv[s] \in Server /\ srv[s].op \in Keys
  BY DEF ServersSound, Sound
<1>2. <<>> \in Seq(Commanded)
  OBVIOUS
<1>3. /\ Uncertain(s) \in Server /\ Uncertain(s).pc = "post" /\ Uncertain(s).op \in Keys
      /\ Uncertain(s).result = "recovery"
  BY <1>1, <1>2 DEF Uncertain, Server, Outcomes, Working
<1> QED
  BY <1>3 DEF Sound, Working, Outcomes

\* NotReady keeps a sound record sound.
LEMMA NotReadySound ==
    ASSUME ServersSound, NEW s \in Servers, NEW r, Sound(r), NotReady(s, r)
    PROVE  ServersSound'
<1>1. PICK stray \in BOOLEAN :
          srv' = [srv EXCEPT ![s] = [r EXCEPT !.ready = FALSE, !.stray = srv[s].ready /\ stray]]
  BY DEF NotReady
<1> DEFINE q == [r EXCEPT !.ready = FALSE, !.stray = srv[s].ready /\ stray]
<1>2. srv[s].ready \in BOOLEAN
  BY DEF ServersSound, Server
<1>3. (srv[s].ready /\ stray) \in BOOLEAN
  BY <1>2
<1>4. /\ q \in Server /\ q.pc = r.pc /\ q.op = r.op /\ q.result = r.result
      /\ q.reset = r.reset
  BY <1>3 DEF Sound, Server
<1>5. Sound(q)
  BY <1>4 DEF Sound
<1> QED
  BY <1>1, <1>5, OneServer

LEMMA AdmittedSound ==
    ASSUME ServersSound, NEW s \in Servers, NEW r, Sound(r), Admitted(s, r)
    PROVE  ServersSound'
<1> DEFINE q == [r EXCEPT !.stray = FALSE]
<1>1. /\ q \in Server /\ q.pc = r.pc /\ q.op = r.op /\ q.result = r.result
      /\ q.reset = r.reset
  BY DEF Sound, Server
<1>2. Sound(q)
  BY <1>1 DEF Sound
<1>3. srv' = [srv EXCEPT ![s] = q]
  BY DEF Admitted
<1> QED
  BY <1>2, <1>3, OneServer

\* The operations a step of the journal may complete are the ones an action of
\* a server names.
LEMMA CompleteIsJournal ==
    ASSUME NEW k \in Keys, NEW o \in Outcomes, Complete(k, o)
    PROVE  JournalNext
BY DEF JournalNext

LEMMA BeginIsJournal ==
    ASSUME NEW g \in Gateways, NEW a \in Actions, NEW k \in Keys, BeginOperation(g, a, k)
    PROVE  JournalNext
BY DEF JournalNext

LEMMA ResetIsJournal ==
    ASSUME NEW r \in ResetRequest, BeginReset(r.gateway, r.reason, r.key, r.guard)
    PROVE  JournalNext
<1>1. r.gateway \in Gateways /\ r.reason \in Reasons /\ r.key \in Keys
  BY DEF ResetRequest
<1>2. creds[r.gateway] # None /\ r.guard = ResetGuard(r.gateway)
  BY DEF BeginReset, ResetAdmission, ReplayOperation
<1>3. BeginReset(r.gateway, r.reason, r.key, ResetGuard(r.gateway))
  BY <1>2
<1> QED
  BY <1>1, <1>2, <1>3 DEF JournalNext

-----------------------------------------------------------------------------
\* The steps of the broker and of a server's start and stop.
LEMMA BrokerRestartSound ==
    ASSUME ServersSound, BrokerRestart
    PROVE  ServersSound'
<1>1. srv' = [s \in Servers |->
                  IF srv[s].pc \in {"mutate", "verify"} THEN Uncertain(s) ELSE srv[s]]
  BY DEF BrokerRestart
<1>2. ASSUME NEW s \in Servers PROVE Sound(srv'[s])
  <2>1. CASE srv[s].pc \in {"mutate", "verify"}
    <3>1. srv[s].pc \in Working
      BY <2>1 DEF Working
    <3> QED
      BY <1>1, <2>1, <3>1, UncertainSound
  <2>2. CASE srv[s].pc \notin {"mutate", "verify"}
    BY <1>1, <2>2 DEF ServersSound
  <2> QED
    BY <2>1, <2>2
<1>3. \A s \in Servers : srv'[s] \in Server
  BY <1>2 DEF Sound
<1>4. srv' \in [Servers -> Server]
  BY <1>1, <1>3
<1> QED
  BY <1>2, <1>4 DEF ServersSound

LEMMA StartSound ==
    ASSUME ServersSound, NEW s \in Servers, Start(s)
    PROVE  ServersSound'
<1> DEFINE f == UNION {Unresolved(g) : g \in Gateways}
           r == [Stopped EXCEPT !.pc = "scan", !.found = f]
<1>1. f \in SUBSET Keys
  BY DEF Unresolved, History
<1>2. srv' = [srv EXCEPT ![s] = r]
  BY DEF Start
<1> HIDE DEF f
<1>3. Stopped \in Server
  BY StoppedSound DEF Sound
<1>4. r \in Server /\ r.pc = "scan"
  BY <1>1, <1>3 DEF Server
<1>5. Sound(r)
  BY <1>4 DEF Sound, Working
<1> QED
  BY <1>2, <1>5, OneServer

LEMMA ClassifySound ==
    ASSUME ServersSound, NEW s \in Servers,
           \/ \E k \in Keys : ClassifyRow(s, k)
           \/ ClassifyDone(s) \/ ClassifyFails(s)
    PROVE  ServersSound'
<1>1. ASSUME NEW k \in Keys, ClassifyRow(s, k) PROVE ServersSound'
  <2> DEFINE r == [srv[s] EXCEPT !.scanned = srv[s].scanned \cup {k}]
  <2>1. srv[s].pc = "scan" /\ srv' = [srv EXCEPT ![s] = r] /\ srv[s] \in Server
    BY <1>1 DEF ClassifyRow, ServersSound
  <2>2. r \in Server /\ r.pc = "scan"
    BY <2>1 DEF Server
  <2>3. Sound(r)
    BY <2>2 DEF Sound, Working
  <2> QED
    BY <2>1, <2>3, OneServer
<1>2. ASSUME ClassifyDone(s) PROVE ServersSound'
  <2> DEFINE r == [Idle(s) EXCEPT !.ready = TRUE]
  <2>1. srv' = [srv EXCEPT ![s] = r]
    BY <1>2 DEF ClassifyDone
  <2>2. r \in Server /\ r.pc = "idle" /\ r.result = "unchanged"
    BY IdleSound DEF Server
  <2>3. Sound(r)
    BY <2>2 DEF Sound, Working
  <2> QED
    BY <2>1, <2>3, OneServer
<1>3. ASSUME ClassifyFails(s) PROVE ServersSound'
  BY <1>3, IdleSound, OneServer DEF ClassifyFails
<1> QED
  BY <1>1, <1>2, <1>3

\* The steps that take a request up to its committed intent.
LEMMA RequestSound ==
    ASSUME ServersSound, NEW s \in Servers, NEW g \in Gateways, NEW a \in Actions, NEW k \in Keys,
           \/ Begin(s, g, a, k) \/ BeginRefused(s, g, a, k) \/ BeginUnknown(s, g, a, k)
           \/ RevokeNoop(s, g, k)
    PROVE  ServersSound'
<1>1. Sound(Idle(s)) /\ Sound(Poisoned(s)) /\ Poisoned(s) \in Server
      /\ Poisoned(s).pc = "idle" /\ Poisoned(s).result = "unchanged"
  BY IdleSound
<1>2. CASE Begin(s, g, a, k)
  <2> DEFINE r == [srv[s] EXCEPT !.pc = "gate", !.op = k]
  <2>1. srv[s].pc = "idle" /\ Admitted(s, r) /\ Sound(srv[s])
    BY <1>2 DEF Begin, Serving, ServersSound
  <2>2. r \in Server /\ r.pc = "gate" /\ r.op = k /\ r.result = "unchanged"
    BY <2>1 DEF Sound, Server, Working
  <2>3. Sound(r)
    BY <2>2 DEF Sound, Working
  <2> QED
    BY <2>1, <2>3, AdmittedSound
<1>3. CASE BeginRefused(s, g, a, k)
  <2>1. Admitted(s, Idle(s)) \/ Admitted(s, Poisoned(s))
    BY <1>3 DEF BeginRefused
  <2> QED
    BY <2>1, <1>1, AdmittedSound
<1>4. CASE BeginUnknown(s, g, a, k)
  <2>1. Admitted(s, Poisoned(s))
    BY <1>4 DEF BeginUnknown
  <2> QED
    BY <2>1, <1>1, AdmittedSound
<1>5. CASE RevokeNoop(s, g, k)
  <2> DEFINE r == [Poisoned(s) EXCEPT !.ready = FALSE]
  <2>1. Admitted(s, r) \/ Admitted(s, Idle(s)) \/ Admitted(s, Poisoned(s))
    BY <1>5, Zenon DEF RevokeNoop
  <2>2. r \in Server /\ r.pc = "idle" /\ r.result = "unchanged"
    BY <1>1 DEF Server
  <2>3. Sound(r)
    BY <2>2 DEF Sound, Working
  <2> QED
    BY <2>1, <2>3, <1>1, AdmittedSound
<1> QED
  BY <1>2, <1>3, <1>4, <1>5

LEMMA ResetSound ==
    ASSUME JournalInv, ServersSound, NEW s \in Servers,
           \/ \E g \in Gateways, reason \in Reasons, k \in Keys : ResetPrepare(s, g, reason, k)
           \/ ResetPrerequisite(s) \/ ResetBegin(s)
    PROVE  ServersSound'
<1>1. Sound(Idle(s)) /\ Sound(Poisoned(s)) /\ Sound(srv[s]) /\ srv[s] \in Server
  BY IdleSound DEF ServersSound
<1>2. ASSUME NEW g \in Gateways, NEW reason \in Reasons, NEW k \in Keys,
             ResetPrepare(s, g, reason, k)
      PROVE  ServersSound'
  <2> DEFINE q == [gateway |-> g, reason |-> reason, key |-> k, guard |-> ResetGuard(g)]
             r == [srv[s] EXCEPT !.pc = "prerequisite", !.reset = q]
  <2>1. srv[s].pc = "idle"
    BY <1>2 DEF ResetPrepare, Serving
  <2>2. \/ Admitted(s, Idle(s)) \/ Admitted(s, Poisoned(s))
        \/ creds[g] # None /\ Admitted(s, r)
    BY <1>2 DEF ResetPrepare
  <2>3. ASSUME creds[g] # None PROVE q \in ResetRequest
    <3>1. creds[g] \in Credential
      BY <2>3 DEF JournalInv, JournalTypeOK
    <3>2. creds[g].last \in Keys /\ events[creds[g].last] # None
      BY <2>3 DEF JournalInv, Linked, History
    <3>3. events[creds[g].last] \in Event
      BY <3>2 DEF JournalInv, JournalTypeOK
    <3> QED
      BY <3>1, <3>2, <3>3 DEF ResetRequest, ResetGuard, Credential, Event
  <2> HIDE DEF q
  <2>4. ASSUME creds[g] # None PROVE Sound(r)
    <3>1. r \in Server /\ r.pc = "prerequisite" /\ r.reset = q /\ r.result = "unchanged"
      BY <1>1, <2>1, <2>3, <2>4 DEF Server, Sound
    <3> QED
      BY <3>1, <2>3, <2>4 DEF Sound, Working
  <2> QED
    BY <2>2, <2>4, <1>1, AdmittedSound
<1>3. CASE ResetPrerequisite(s)
  <2> DEFINE r == [srv[s] EXCEPT !.pc = "begin_reset"]
  <2>1. srv[s].pc = "prerequisite"
        /\ (srv' = [srv EXCEPT ![s] = Idle(s)] \/ srv' = [srv EXCEPT ![s] = r])
    BY <1>3 DEF ResetPrerequisite
  <2>2. /\ r \in Server /\ r.pc = "begin_reset" /\ r.result = "unchanged"
        /\ r.reset \in ResetRequest
    BY <1>1, <2>1 DEF Server, Sound
  <2>3. Sound(r)
    BY <2>2 DEF Sound, Working
  <2> QED
    BY <2>1, <2>3, <1>1, OneServer
<1>4. CASE ResetBegin(s)
  <2> DEFINE r == [srv[s] EXCEPT !.pc = "gate", !.op = srv[s].reset.key, !.reset = None]
  <2>1. srv[s].pc = "begin_reset"
    BY <1>4 DEF ResetBegin
  <2>2. \/ srv' = [srv EXCEPT ![s] = Idle(s)]
        \/ srv' = [srv EXCEPT ![s] = Poisoned(s)]
        \/ srv' = [srv EXCEPT ![s] = r]
    BY <1>4, <1>1 DEF ResetBegin
  <2>3. srv[s].reset.key \in Keys
    BY <2>1, <1>1 DEF Sound, ResetRequest
  <2>4. r \in Server /\ r.pc = "gate" /\ r.op \in Keys /\ r.result = "unchanged"
    BY <1>1, <2>1, <2>3 DEF Server, Sound, Working
  <2>5. Sound(r)
    BY <2>4 DEF Sound, Working
  <2> QED
    BY <2>2, <2>5, <1>1, OneServer
<1> QED
  BY <1>2, <1>3, <1>4

\* The steps of an execution.
LEMMA CommandsTyped ==
    ASSUME NEW c, NEW action
    PROVE  Commands(c, action) \in Seq(Commanded)
<1> DEFINE w == EnsureRole(c)
           x == IF c.present THEN <<>> ELSE <<"createClient">>
           y == <<"disableClient", "setClientPassword">>
           z == IF c.present /\ (action = "provision" \/ c.member) THEN <<>>
                ELSE <<"addClientRole">>
           v == <<"enableClient">>
<1>1. w \in Seq(Commanded) /\ x \in Seq(Commanded) /\ y \in Seq(Commanded)
      /\ z \in Seq(Commanded) /\ v \in Seq(Commanded)
  <2>1. <<>> \in Seq(Commanded)
    OBVIOUS
  <2>2. <<"createRole">> \in Seq(Commanded) /\ <<"createClient">> \in Seq(Commanded)
    BY DEF Commanded
  <2>3. <<"addClientRole">> \in Seq(Commanded) /\ <<"enableClient">> \in Seq(Commanded)
    BY DEF Commanded
  <2>4. y \in Seq(Commanded)
    BY DEF Commanded
  <2> QED
    BY <2>1, <2>2, <2>3, <2>4 DEF EnsureRole
<1>2. <<"disableClient">> \in Seq(Commanded)
      /\ <<"disableClient", "confirm", "setClientPassword", "enableClient">> \in Seq(Commanded)
  BY DEF Commanded
<1>3. Commands(c, action) = CASE action = "revoke" -> <<"disableClient">>
        [] action = "rotate" -> <<"disableClient", "confirm", "setClientPassword", "enableClient">>
        [] OTHER -> w \o x \o y \o z \o v
  BY DEF Commands
<1> HIDE DEF w, x, y, z, v
<1>4. w \o x \o y \o z \o v \in Seq(Commanded)
  <2>1. w \o x \in Seq(Commanded)
    BY <1>1
  <2>2. w \o x \o y \in Seq(Commanded)
    BY <1>1, <2>1
  <2>3. w \o x \o y \o z \in Seq(Commanded)
    BY <1>1, <2>2
  <2> QED
    BY <1>1, <2>3
<1>5. CASE action = "revoke"
  BY <1>2, <1>3, <1>5
<1>6. CASE action = "rotate"
  BY <1>2, <1>3, <1>6
<1>7. CASE action \notin {"revoke", "rotate"}
  BY <1>3, <1>4, <1>7
<1> QED
  BY <1>5, <1>6, <1>7

LEMMA ExecuteSound ==
    ASSUME ServersSound, NEW s \in Servers,
           Baseline(s) \/ Mutate(s) \/ Verify(s) \/ Probe(s)
    PROVE  ServersSound'
<1>1. Sound(srv[s]) /\ srv[s] \in Server
  BY DEF ServersSound
<1>2. srv[s].pc \in {"baseline", "mutate", "verify", "probe"}
  BY DEF Baseline, Mutate, Verify, Probe
<1>3. srv[s].pc \in Working /\ srv[s].op \in Keys
  BY <1>1, <1>2 DEF Working, Sound
<1>4. Sound(Uncertain(s))
  BY <1>3, UncertainSound
<1>5. CASE Baseline(s)
  <2> DEFINE c == Commands(ram[GatewayOf(s)], ActionOf(s))
             m == [srv[s] EXCEPT !.pc = "mutate", !.todo = c]
             u == [srv[s] EXCEPT !.pc = "post", !.result = "recovery"]
             f == [srv[s] EXCEPT !.pc = "post"]
  <2>1. srv[s].pc = "baseline" /\ srv[s].result = "unchanged"
    BY <1>1, <1>5 DEF Baseline, Sound
  <2>2. \/ srv' = [srv EXCEPT ![s] = m]
        \/ srv' = [srv EXCEPT ![s] = u]
        \/ srv' = [srv EXCEPT ![s] = f]
    BY <1>5 DEF Baseline
  <2>3. c \in Seq(Commanded)
    BY CommandsTyped
  <2> HIDE DEF c
  <2>4. m \in Server /\ m.pc = "mutate" /\ m.op = srv[s].op
    BY <1>1, <2>3 DEF Server, Working
  <2>5. /\ u \in Server /\ u.pc = "post" /\ u.op = srv[s].op /\ u.result = "recovery"
        /\ f \in Server /\ f.pc = "post" /\ f.op = srv[s].op /\ f.result = "unchanged"
    BY <1>1, <2>1 DEF Server, Working, Outcomes
  <2>6. Sound(m)
    BY <2>4, <1>3 DEF Sound, Working
  <2>7. Sound(u) /\ Sound(f)
    BY <2>5, <1>3 DEF Sound, Working, Outcomes
  <2> QED
    BY <2>2, <2>6, <2>7, OneServer
<1>6. CASE Mutate(s)
  <2> DEFINE rest == Tail(srv[s].todo)
             n == [srv[s] EXCEPT !.todo = rest, !.pc = IF rest = <<>> THEN "verify" ELSE @]
  <2>1. srv[s].pc = "mutate" /\ srv[s].todo # <<>>
    BY <1>6 DEF Mutate
  <2>2. srv' = [srv EXCEPT ![s] = n] \/ srv' = [srv EXCEPT ![s] = Uncertain(s)]
    BY <1>6 DEF Mutate
  <2>3. rest \in Seq(Commanded)
    BY <1>1, <2>1 DEF Server
  <2> HIDE DEF rest
  <2>4. n \in Server /\ n.pc \in {"mutate", "verify"} /\ n.op = srv[s].op
    BY <1>1, <2>1, <2>3 DEF Server, Working
  <2>5. Sound(n)
    BY <2>4, <1>3 DEF Sound, Working
  <2> QED
    BY <2>2, <2>5, <1>4, OneServer
<1>7. CASE Verify(s)
  <2> DEFINE r == [srv[s] EXCEPT !.pc = "probe"]
  <2>1. srv' = [srv EXCEPT ![s] = r] \/ srv' = [srv EXCEPT ![s] = Uncertain(s)]
    BY <1>7 DEF Verify
  <2>2. r \in Server /\ r.pc = "probe" /\ r.op = srv[s].op
    BY <1>1 DEF Server, Working
  <2>3. Sound(r)
    BY <2>2, <1>3 DEF Sound, Working
  <2> QED
    BY <2>1, <2>3, <1>4, OneServer
<1>8. CASE Probe(s)
  <2> DEFINE r == [srv[s] EXCEPT !.pc = "post", !.result = "success"]
  <2>1. srv' = [srv EXCEPT ![s] = r] \/ srv' = [srv EXCEPT ![s] = Uncertain(s)]
    BY <1>8 DEF Probe
  <2>2. r \in Server /\ r.pc = "post" /\ r.op = srv[s].op /\ r.result = "success"
    BY <1>1 DEF Server, Working, Outcomes
  <2>3. Sound(r)
    BY <2>2, <1>3 DEF Sound, Working, Outcomes
  <2> QED
    BY <2>1, <2>3, <1>4, OneServer
<1> QED
  BY <1>5, <1>6, <1>7, <1>8

\* The ownership gate, and the steps that settle an operation.
LEMMA SettleSound ==
    ASSUME ServersSound, NEW s \in Servers,
           Gate(s) \/ Post(s) \/ Settle(s) \/ Finalize(s) \/ Readback(s)
    PROVE  ServersSound'
<1>1. Sound(srv[s]) /\ srv[s] \in Server /\ Sound(Idle(s)) /\ Sound(Poisoned(s))
  BY IdleSound DEF ServersSound
<1>2. srv[s].pc \in {"gate", "post", "settle", "finalize", "readback"}
  BY DEF Gate, Post, Settle, Finalize, Readback
<1>3. srv[s].pc \in Working /\ srv[s].op \in Keys
  BY <1>1, <1>2 DEF Working, Sound
<1>4. CASE Gate(s)
  <2> DEFINE b == [srv[s] EXCEPT !.pc = "baseline"]
             t == [srv[s] EXCEPT !.pc = "settle"]
  <2>1. srv' = [srv EXCEPT ![s] = b] \/ NotReady(s, t)
    BY <1>4 DEF Gate
  <2>2. srv[s].result = "unchanged"
    BY <1>1, <1>4 DEF Gate, Sound
  <2>3. /\ b \in Server /\ b.pc = "baseline" /\ b.op = srv[s].op /\ b.result = "unchanged"
        /\ t \in Server /\ t.pc = "settle" /\ t.op = srv[s].op /\ t.result = "unchanged"
    BY <1>1, <2>2 DEF Server, Working
  <2>4. Sound(b) /\ Sound(t)
    BY <2>3, <1>3 DEF Sound, Working
  <2> QED
    BY <2>1, <2>4, OneServer, NotReadySound
<1>5. CASE Post(s)
  <2> DEFINE p == IF srv[s].result = "success" THEN "finalize" ELSE "settle"
             b == [srv[s] EXCEPT !.pc = p]
             t == [Uncertain(s) EXCEPT !.pc = "settle"]
  <2>1. srv' = [srv EXCEPT ![s] = b] \/ NotReady(s, t)
    BY <1>5 DEF Post
  <2>2. srv[s].result \in Outcomes
    BY <1>1, <1>5 DEF Post, Sound
  <2>3. b \in Server /\ b.pc = p /\ b.op = srv[s].op /\ b.result = srv[s].result
    BY <1>1 DEF Server, Working
  <2>4. Uncertain(s) \in Server /\ Uncertain(s).op \in Keys /\ Uncertain(s).result = "recovery"
    BY <1>3, UncertainSound
  <2>5. t \in Server /\ t.pc = "settle" /\ t.op \in Keys /\ t.result = "recovery"
    BY <2>4 DEF Server, Working
  <2>6. Sound(b)
    BY <2>2, <2>3, <1>3 DEF Sound, Working, Outcomes
  <2>7. Sound(t)
    BY <2>5 DEF Sound, Working
  <2> QED
    BY <2>1, <2>6, <2>7, OneServer, NotReadySound
<1>6. CASE Settle(s)
  <2>1. srv' = [srv EXCEPT ![s] = Idle(s)] \/ srv' = [srv EXCEPT ![s] = Poisoned(s)]
    BY <1>6 DEF Settle
  <2> QED
    BY <2>1, <1>1, OneServer
<1>7. CASE Finalize(s)
  <2> DEFINE b == [srv[s] EXCEPT !.pc = "readback"]
             u == [srv[s] EXCEPT !.pc = "readback", !.result = "unfinished"]
  <2>1. srv' = [srv EXCEPT ![s] = b] \/ srv' = [srv EXCEPT ![s] = u]
    BY <1>7 DEF Finalize
  <2>2. /\ b \in Server /\ b.pc = "readback" /\ b.op = srv[s].op
        /\ u \in Server /\ u.pc = "readback" /\ u.op = srv[s].op
    BY <1>1 DEF Server, Working
  <2>3. Sound(b) /\ Sound(u)
    BY <2>2, <1>3 DEF Sound, Working
  <2> QED
    BY <2>1, <2>3, OneServer
<1>8. CASE Readback(s)
  <2>1. srv' = [srv EXCEPT ![s] = Idle(s)] \/ srv' = [srv EXCEPT ![s] = Poisoned(s)]
    BY <1>8 DEF Readback
  <2> QED
    BY <2>1, <1>1, OneServer
<1> QED
  BY <1>4, <1>5, <1>6, <1>7, <1>8

-----------------------------------------------------------------------------
\* What a step of the whole system does to the rows: one transaction of the
\* journal, or nothing.
CredentialInv == JournalInv /\ ServersSound

LEMMA ServerStepIsJournal ==
    ASSUME CredentialInv, NEW s \in Servers,
           \/ \E k \in Keys : ClassifyRow(s, k)
           \/ \E g \in Gateways, a \in Actions, k \in Keys :
                Begin(s, g, a, k) \/ BeginUnknown(s, g, a, k)
           \/ ResetBegin(s) \/ Settle(s) \/ Finalize(s)
    PROVE  [JournalNext]_journalVars
<1>1. Sound(srv[s])
  BY DEF CredentialInv, ServersSound
<1>2. ASSUME NEW k \in Keys, ClassifyRow(s, k) PROVE [JournalNext]_journalVars
  <2>1. Complete(k, "recovery") \/ UNCHANGED journalVars
    BY <1>2 DEF ClassifyRow
  <2>2. "recovery" \in Outcomes
    BY DEF Outcomes
  <2> QED
    BY <2>1, <2>2, CompleteIsJournal
<1>3. ASSUME NEW g \in Gateways, NEW a \in Actions, NEW k \in Keys,
             Begin(s, g, a, k) \/ BeginUnknown(s, g, a, k)
      PROVE  [JournalNext]_journalVars
  <2>1. BeginOperation(g, a, k) \/ UNCHANGED journalVars
    BY <1>3 DEF Begin, BeginUnknown
  <2> QED
    BY <2>1, BeginIsJournal
<1>4. CASE ResetBegin(s)
  <2>1. srv[s].reset \in ResetRequest
    BY <1>1, <1>4 DEF ResetBegin, Sound
  <2>2. \/ BeginReset(srv[s].reset.gateway, srv[s].reset.reason, srv[s].reset.key,
                      srv[s].reset.guard)
        \/ UNCHANGED journalVars
    BY <1>4 DEF ResetBegin
  <2> QED
    BY <2>1, <2>2, ResetIsJournal
<1>5. CASE Settle(s)
  <2>1. srv[s].op \in Keys /\ srv[s].result \in Outcomes
    BY <1>1, <1>5 DEF Settle, Sound, Working, Outcomes
  <2>2. Complete(srv[s].op, srv[s].result) \/ UNCHANGED journalVars
    BY <1>5 DEF Settle
  <2> QED
    BY <2>1, <2>2, CompleteIsJournal
<1>6. CASE Finalize(s)
  <2>1. srv[s].op \in Keys /\ "success" \in Outcomes
    BY <1>1, <1>6 DEF Finalize, Sound, Working, Outcomes
  <2>2. Complete(srv[s].op, "success") \/ UNCHANGED journalVars
    BY <1>6 DEF Finalize
  <2> QED
    BY <2>1, <2>2, CompleteIsJournal
<1> QED
  BY <1>2, <1>3, <1>4, <1>5, <1>6

LEMMA SystemStep ==
    CredentialInv /\ [Next]_vars => CredentialInv' /\ [JournalNext]_journalVars
<1> SUFFICES ASSUME CredentialInv, [Next]_vars
             PROVE  ServersSound' /\ [JournalNext]_journalVars
  BY JournalStep DEF CredentialInv
<1>1. JournalInv /\ ServersSound
  BY DEF CredentialInv
<1>2. ASSUME UNCHANGED <<srv, journalVars>> PROVE ServersSound' /\ [JournalNext]_journalVars
  <2>1. srv' = srv
    BY <1>2
  <2> QED
    BY <1>1, <1>2, <2>1 DEF ServersSound
<1>3. CASE UNCHANGED vars
  BY <1>2, <1>3 DEF vars
<1>4. ASSUME NEW g \in Gateways, BrokerFlush(g)
      PROVE  ServersSound' /\ [JournalNext]_journalVars
  BY <1>2, <1>4 DEF BrokerFlush
<1>5. CASE BrokerRestart
  BY <1>1, <1>5, BrokerRestartSound DEF BrokerRestart
<1>6. ASSUME NEW c \in late, BrokerLate(c)
      PROVE  ServersSound' /\ [JournalNext]_journalVars
  BY <1>2, <1>6 DEF BrokerLate
<1>7. ASSUME NEW s \in Servers, Start(s)
      PROVE  ServersSound' /\ [JournalNext]_journalVars
  BY <1>1, <1>7, StartSound DEF Start
<1>8. ASSUME NEW s \in Servers, ClassifyDone(s) \/ ClassifyFails(s)
      PROVE  ServersSound' /\ [JournalNext]_journalVars
  BY <1>1, <1>8, ClassifySound DEF ClassifyDone, ClassifyFails
<1>9. ASSUME NEW s \in Servers, \E k \in Keys : ClassifyRow(s, k)
      PROVE  ServersSound' /\ [JournalNext]_journalVars
  BY <1>1, <1>9, ClassifySound, ServerStepIsJournal
<1>10. ASSUME NEW s \in Servers, NEW g \in Gateways, NEW a \in Actions, NEW k \in Keys,
              Begin(s, g, a, k) \/ BeginUnknown(s, g, a, k)
       PROVE  ServersSound' /\ [JournalNext]_journalVars
  <2>1. ServersSound'
    BY <1>1, <1>10, RequestSound
  <2>2. [JournalNext]_journalVars
    BY <1>10, ServerStepIsJournal
  <2> QED
    BY <2>1, <2>2
<1>11. ASSUME NEW s \in Servers, NEW g \in Gateways, NEW a \in Actions, NEW k \in Keys,
              BeginRefused(s, g, a, k) \/ RevokeNoop(s, g, k)
       PROVE  ServersSound' /\ [JournalNext]_journalVars
  <2>1. ServersSound'
    BY <1>1, <1>11, RequestSound
  <2>2. UNCHANGED journalVars
    BY <1>11 DEF BeginRefused, RevokeNoop
  <2> QED
    BY <2>1, <2>2
<1>12. ASSUME NEW s \in Servers, NEW g \in Gateways, NEW r \in Reasons, NEW k \in Keys,
              ResetPrepare(s, g, r, k)
       PROVE  ServersSound' /\ [JournalNext]_journalVars
  <2>1. ServersSound'
    BY <1>1, <1>12, ResetSound
  <2>2. UNCHANGED journalVars
    BY <1>12 DEF ResetPrepare
  <2> QED
    BY <2>1, <2>2
<1>13. ASSUME NEW s \in Servers, ResetPrerequisite(s)
       PROVE  ServersSound' /\ [JournalNext]_journalVars
  BY <1>1, <1>13, ResetSound DEF ResetPrerequisite
<1>14. ASSUME NEW s \in Servers, ResetBegin(s)
       PROVE  ServersSound' /\ [JournalNext]_journalVars
  BY <1>1, <1>14, ResetSound, ServerStepIsJournal
<1>15. ASSUME NEW s \in Servers, Baseline(s) \/ Mutate(s) \/ Verify(s) \/ Probe(s)
       PROVE  ServersSound' /\ [JournalNext]_journalVars
  <2>1. ServersSound'
    BY <1>1, <1>15, ExecuteSound
  <2>2. UNCHANGED journalVars
    BY <1>15 DEF Baseline, Mutate, Verify, Probe
  <2> QED
    BY <2>1, <2>2
<1>16. ASSUME NEW s \in Servers, Gate(s) \/ Post(s) \/ Readback(s)
       PROVE  ServersSound' /\ [JournalNext]_journalVars
  <2>1. ServersSound'
    BY <1>1, <1>16, SettleSound
  <2>2. UNCHANGED journalVars
    BY <1>16 DEF Gate, Post, Readback
  <2> QED
    BY <2>1, <2>2
<1>17. ASSUME NEW s \in Servers, Settle(s) \/ Finalize(s)
       PROVE  ServersSound' /\ [JournalNext]_journalVars
  BY <1>1, <1>17, SettleSound, ServerStepIsJournal
<1>18. ASSUME NEW s \in Servers, LoseLock(s)
       PROVE  ServersSound' /\ [JournalNext]_journalVars
  BY <1>2, <1>18 DEF LoseLock
<1>19. ASSUME NEW s \in Servers, Drain(s) \/ Crash(s)
       PROVE  ServersSound' /\ [JournalNext]_journalVars
  <2>1. srv' = [srv EXCEPT ![s] = Stopped] /\ UNCHANGED journalVars
    BY <1>19 DEF Drain, Crash
  <2> QED
    BY <2>1, <1>1, StoppedSound, OneServer
<1>20. CASE \E s \in Servers :
              \/ \E g \in Gateways, k \in Keys : RevokeNoop(s, g, k)
              \/ \E g \in Gateways, a \in Actions, k \in Keys :
                    Begin(s, g, a, k) \/ BeginRefused(s, g, a, k) \/ BeginUnknown(s, g, a, k)
  <2>1. "revoke" \in Actions
    BY DEF Actions
  <2> QED
    BY <1>20, <1>10, <1>11, <2>1
<1>21. CASE Next
  BY <1>21, <1>4, <1>5, <1>6, <1>7, <1>8, <1>9, <1>12, <1>13, <1>14, <1>15, <1>16,
     <1>17, <1>18, <1>19, <1>20, ZenonT(60) DEF Next
<1> QED
  BY <1>3, <1>21

LEMMA SystemInit == Init => CredentialInv /\ JournalInit
<1> SUFFICES ASSUME Init PROVE CredentialInv /\ JournalInit
  OBVIOUS
<1>1. JournalInit /\ srv = [s \in Servers |-> Stopped]
  BY DEF Init
<1>2. Stopped \in Server /\ Sound(Stopped)
  BY StoppedSound DEF Sound
<1>3. ServersSound
  BY <1>1, <1>2 DEF ServersSound
<1> QED
  BY <1>1, <1>3, JournalInitially DEF CredentialInv

\* Whatever the servers, the lock, the broker and the faults do, the rows only
\* change by the transactions of the journal, one at a time.
THEOREM CredentialImplementsJournal == Spec => JournalSpec
BY SystemInit, SystemStep, PTL DEF Spec, JournalSpec

\* So any number of servers, with or without the lock, crashed, restarted or cut
\* off from the database, leave the rows in a state startup can classify, never
\* issue two passwords under one version, and strand a credential only by a
\* reset that failed without effect.
THEOREM CredentialSafety ==
    Spec => [](/\ JournalTypeOK /\ JournalConsistent /\ VersionNamesOneSecret
               /\ OnlyAFailedResetStrands)
BY CredentialImplementsJournal, JournalSafety, BlockedForAReason, PTL
=============================================================================
