-------------------------- MODULE Transport_proofs --------------------------
(***************************************************************************)
(* The transport for any number of lifetimes, publishers and slots: one     *)
(* socket, invocations on the newest lifetime only, a readiness that means  *)
(* an open connection, and a Close that leaves nothing behind.              *)
(***************************************************************************)
EXTENDS Transport, TLAPS

\* The steps of the supervisor before its lifetime can become current, the
\* teardown of one that never did included.
BeforeInstall == {"connecting", "subscribing", "subscribed", "install", "dropMark", "dropSocket"}

\* What holds of each lifetime.  All but the newest are closed, a closed one
\* never gets a socket again, and a socket that CONNACK used is given up only
\* after the lifetime was marked failed.
Lives ==
    \A l \in Lifetimes :
        /\ l > epoch => dial[l] = "none"
        /\ l < epoch => closed[l]
        /\ closed[l] => dial[l] # "attached"
        /\ dial[l] = "dialing" =>
               closed[l] \/ (l = epoch /\ sup \in {"connecting", "dropMark", "dropSocket"})
        /\ connected[l] => dial[l] \in {"attached", "over"}
        /\ connected[l] /\ ~failed[l] => dial[l] = "attached"
        /\ subscribed[l] => connected[l]
        /\ wake[l] => failed[l]
        /\ lost[l] # "no" => failed[l] /\ dial[l] = "over"

\* What the supervisor has done at each of its steps, and which lifetime can be
\* current then.
Supervised ==
    /\ sup = "off" <=> ~started
    /\ sup = "off" => epoch = 0
    /\ sup \notin {"off", "top", "exited"} => epoch \in Lifetimes
    /\ sup \in {"subscribing", "subscribed", "install", "select"} => connected[epoch]
    /\ sup = "install" => subscribed[epoch]
    /\ sup \in {"clear", "mark", "socket", "dropSocket", "ops"} => failed[epoch]
    /\ sup \in {"ops", "backoff", "top"} /\ epoch \in Lifetimes => closed[epoch]
    /\ current # NoLifetime =>
           current = epoch /\ sup \in {"select", "clear", "exited"} /\ subscribed[current]
    /\ sup \in {"select", "exited"} /\ epoch \in Lifetimes /\ Open(epoch) =>
           current = epoch \/ (close \in {"mark", "socket"} /\ closeLt = epoch)

\* A publisher's lifetime became current before, and its teardown goes field by
\* field.
Publishing ==
    \A p \in Publishers :
        /\ pub[p] \notin {"idle", "slot", "second"} => pubLt[p] \in Lifetimes
        /\ pub[p] \in {"socket", "clear", "wake", "grace"} => failed[pubLt[p]]
        /\ pub[p] \in {"clear", "wake", "grace"} => closed[pubLt[p]]
        /\ sup \in BeforeInstall => pubLt[p] # epoch

\* Slots and their callers.
Holding ==
    /\ \A p \in Publishers :
        /\ pub[p] \in {"idle", "slot"} => pubSlot[p] = NoSlot
        /\ pub[p] \in {"second", "begin"} => pubSlot[p] \in Slots /\ slot[pubSlot[p]] = "held"
        /\ pubSlot[p] \in Slots /\ pub[p] \notin {"second", "begin"} =>
               slot[pubSlot[p]] \in {"running", "posted"}
    /\ SlotsAreOwned

\* An invocation runs on the newest lifetime, after that was installed and until
\* its teardown has waited for it.
Invoking ==
    \A s \in Slots : slot[s] \in {"running", "posted"} =>
        slotLt[s] = epoch /\ sup \notin BeforeInstall \cup {"off", "top", "backoff"}

\* What Close has done at each of its steps.
Closing ==
    /\ close \in {"socket", "ops"} => failed[closeLt]
    /\ close \notin {"no", "wait"} /\ ~expired => SupervisorGone
    /\ close \in {"mark", "socket", "ops", "returned"} /\ ~expired => current = NoLifetime

TransportInv ==
    /\ TransportTypeOK
    /\ Lives
    /\ Supervised
    /\ Publishing
    /\ Holding
    /\ Invoking
    /\ Closing

\* The invariant and its parts.
LEMMA Parts ==
    TransportInv => /\ TransportTypeOK /\ Lives /\ Supervised /\ Publishing
                    /\ Holding /\ Invoking /\ Closing
BY DEF TransportInv

LEMMA Whole ==
    ASSUME TransportTypeOK', Lives', Supervised', Publishing', Holding', Invoking', Closing'
    PROVE  TransportInv'
BY DEF TransportInv

\* Only the fields of a lifetime, and which one is current, change.
LEMMA TypeFrame ==
    ASSUME TransportTypeOK,
           UNCHANGED <<coreVars, subscribed, closed, connected, supVars, pubVars, closeVars>>,
           current' = current \/ current' \in 0..epoch,
           failed' = failed \/ failed' \in [Lifetimes -> BOOLEAN],
           wake' = wake \/ wake' \in [Lifetimes -> BOOLEAN],
           dial' = dial \/ dial' \in [Lifetimes -> {"none", "dialing", "attached", "over"}],
           lost' = lost \/ lost' \in [Lifetimes -> {"no", "marked", "woken", "done"}]
    PROVE  TransportTypeOK'
BY DEF TransportTypeOK, coreVars, supVars, pubVars, closeVars

\* A conjunct of the invariant survives a step that leaves its variables alone.
LEMMA Frames ==
    ASSUME TransportInv
    PROVE  /\ UNCHANGED <<lifeVars, supVars>> => Lives'
           /\ UNCHANGED <<started, subscribed, failed, closed, dial, connected, supVars, current,
                          close, closeLt>> => Supervised'
           /\ UNCHANGED <<failed, closed, supVars, pub, pubLt>> => Publishing'
           /\ UNCHANGED <<pub, pubSlot, slot>> => Holding'
           /\ UNCHANGED <<slot, slotLt, supVars>> => Invoking'
           /\ UNCHANGED <<closeVars, supVars, current, failed>> => Closing'
<1>1. UNCHANGED <<lifeVars, supVars>> => Lives'
  BY DEF TransportInv, Lives, lifeVars, supVars
<1>2. UNCHANGED <<started, subscribed, failed, closed, dial, connected, supVars, current,
                  close, closeLt>> => Supervised'
  BY DEF TransportInv, Supervised, Open, supVars
<1>3. UNCHANGED <<failed, closed, supVars, pub, pubLt>> => Publishing'
  BY DEF TransportInv, Publishing, supVars
<1>4. UNCHANGED <<pub, pubSlot, slot>> => Holding'
  BY DEF TransportInv, Holding, SlotsAreOwned
<1>5. UNCHANGED <<slot, slotLt, supVars>> => Invoking'
  BY DEF TransportInv, Invoking, supVars
<1>6. UNCHANGED <<closeVars, supVars, current, failed>> => Closing'
  BY DEF TransportInv, Closing, SupervisorGone, closeVars, supVars
<1> QED
  BY <1>1, <1>2, <1>3, <1>4, <1>5, <1>6

\* What the steps of a publisher do to its slot.
TakesSlot(p, t) ==
    /\ slot[t] = "free"
    /\ slot' = [slot EXCEPT ![t] = "held"]
    /\ pubSlot' = [pubSlot EXCEPT ![p] = t]
    /\ PubGoTo(p, "second")
    /\ UNCHANGED <<pubLt, result, slotLt>>
Invokes(p) ==
    /\ slot' = [slot EXCEPT ![pubSlot[p]] = "running"]
    /\ slotLt' = [slotLt EXCEPT ![pubSlot[p]] = pubLt[p]]
    /\ PubGoTo(p, "waiting")
    /\ UNCHANGED <<pubLt, pubSlot, result>>

\* closeLifetime's close of the socket, for one lifetime among all.
LEMMA SocketCloses ==
    ASSUME TransportTypeOK, NEW l \in Lifetimes, CloseSocket(l)
    PROVE  /\ closed' \in [Lifetimes -> BOOLEAN]
           /\ dial' \in [Lifetimes -> {"none", "dialing", "attached", "over"}]
           /\ \A k \in Lifetimes : closed'[k] <=> closed[k] \/ k = l
           /\ \A k \in Lifetimes : dial'[k] = IF k = l /\ dial[k] = "attached" THEN "over" ELSE dial[k]
           /\ UNCHANGED <<subscribed, failed, wake, connected, lost>>
BY DEF CloseSocket, Open, TransportTypeOK

\* What the return of Publish does: to the types,
LEMMA ReturnTyped ==
    ASSUME TransportTypeOK, NEW p \in Publishers, Return(p),
           UNCHANGED <<coreVars, current, lifeVars, supVars, closeVars>>
    PROVE  TransportTypeOK'
<1>1. slot' \in [Slots -> {"free", "held", "running", "posted"}]
  BY DEF Return, GivenBack, TransportTypeOK
<1>2. /\ pub' = [pub EXCEPT ![p] = "idle"] /\ pubLt' = [pubLt EXCEPT ![p] = NoLifetime]
      /\ pubSlot' = [pubSlot EXCEPT ![p] = NoSlot] /\ result' = [result EXCEPT ![p] = "none"]
      /\ UNCHANGED slotLt
  BY DEF Return, PubGoTo
<1> QED
  BY <1>1, <1>2 DEF TransportTypeOK, NoLifetime, coreVars, lifeVars, supVars, closeVars

\* to the slots, of which the one held without an invocation is given back,
LEMMA ReturnHolds ==
    ASSUME TransportTypeOK, Holding, NEW p \in Publishers, Return(p)
    PROVE  Holding'
<1>1. /\ pub' = [pub EXCEPT ![p] = "idle"] /\ pubSlot' = [pubSlot EXCEPT ![p] = NoSlot]
      /\ slot' = GivenBack(p)
  BY DEF Return, PubGoTo
<1>2. /\ pub'[p] = "idle" /\ pubSlot'[p] = NoSlot
      /\ \A q \in Publishers \ {p} : pub'[q] = pub[q] /\ pubSlot'[q] = pubSlot[q]
  BY <1>1 DEF TransportTypeOK
<1>3. \A s \in Slots : slot'[s] = IF s = pubSlot[p] /\ slot[s] = "held" THEN "free" ELSE slot[s]
  BY <1>1 DEF GivenBack, TransportTypeOK
<1>4. \A q \in Publishers \ {p} : pubSlot[q] \in Slots => slot'[pubSlot[q]] = slot[pubSlot[q]]
  BY <1>3 DEF Holding, SlotsAreOwned
<1>5. \A q \in Publishers :
        /\ pub'[q] \in {"idle", "slot"} => pubSlot'[q] = NoSlot
        /\ pub'[q] \in {"second", "begin"} => pubSlot'[q] \in Slots /\ slot'[pubSlot'[q]] = "held"
        /\ pubSlot'[q] \in Slots /\ pub'[q] \notin {"second", "begin"} =>
               slot'[pubSlot'[q]] \in {"running", "posted"}
  BY <1>2, <1>4, TransportAssumption DEF Holding
<1>6. SlotsAreOwned'
  <2> SUFFICES ASSUME NEW s \in Slots
               PROVE  /\ slot'[s] = "held" =>
                           \E q \in Publishers : pubSlot'[q] = s /\ pub'[q] \in {"second", "begin"}
                      /\ \A q, r \in Publishers : pubSlot'[q] = s /\ pubSlot'[r] = s => q = r
    BY DEF SlotsAreOwned
  <2>1. ASSUME slot'[s] = "held"
        PROVE  \E q \in Publishers : pubSlot'[q] = s /\ pub'[q] \in {"second", "begin"}
    <3>1. slot[s] = "held" /\ s # pubSlot[p]
      BY <2>1, <1>3
    <3>2. PICK q \in Publishers : pubSlot[q] = s /\ pub[q] \in {"second", "begin"}
      BY <3>1 DEF Holding, SlotsAreOwned
    <3> QED
      BY <3>1, <3>2, <1>2
  <2>2. \A q, r \in Publishers : pubSlot'[q] = s /\ pubSlot'[r] = s => q = r
    BY <1>2, TransportAssumption DEF Holding, SlotsAreOwned
  <2> QED
    BY <2>1, <2>2
<1> QED
  BY <1>5, <1>6 DEF Holding

\* A step of one publisher leaves the others where they are.
LEMMA Moves ==
    ASSUME TransportTypeOK, NEW p \in Publishers, NEW step, PubGoTo(p, step)
    PROVE  pub'[p] = step /\ \A q \in Publishers \ {p} : pub'[q] = pub[q]
BY DEF PubGoTo, TransportTypeOK

\* A step of a publisher that neither takes nor gives back a slot.
LEMMA StepHolds ==
    ASSUME TransportTypeOK, Holding, NEW p \in Publishers, NEW step, PubGoTo(p, step),
           UNCHANGED <<pubSlot, slot>>,
           \/ pub[p] = "idle" /\ step = "slot"
           \/ pub[p] = "second" /\ step = "begin"
           \/ /\ pub[p] \notin {"idle", "slot", "second", "begin"}
              /\ step \notin {"idle", "slot", "second", "begin"}
    PROVE  Holding'
<1>1. pub'[p] = step /\ \A q \in Publishers \ {p} : pub'[q] = pub[q]
  BY Moves
<1>2. \A q \in Publishers : pub'[q] \in {"second", "begin"} <=> pub[q] \in {"second", "begin"}
  BY <1>1
<1>3. \A q \in Publishers : pub'[q] \in {"idle", "slot"} => pub[q] \in {"idle", "slot"}
  BY <1>1
<1>4. SlotsAreOwned'
  BY <1>2 DEF Holding, SlotsAreOwned
<1> QED
  BY <1>2, <1>3, <1>4 DEF Holding

\* to the invocations, which it leaves alone,
LEMMA ReturnInvokes ==
    ASSUME TransportTypeOK, Invoking, NEW p \in Publishers, Return(p), UNCHANGED supVars
    PROVE  Invoking'
<1>1. \A s \in Slots : slot'[s] \in {"running", "posted"} => slot[s] = slot'[s]
  BY DEF Return, GivenBack, TransportTypeOK
<1>2. UNCHANGED <<slotLt, sup, epoch>>
  BY DEF Return, supVars
<1> QED
  BY <1>1, <1>2 DEF Invoking

\* and to the teardowns of the other publishers.
LEMMA ReturnPublishes ==
    ASSUME TransportTypeOK, Publishing, Supervised, NEW p \in Publishers, Return(p),
           UNCHANGED <<lifeVars, supVars>>
    PROVE  Publishing'
<1>1. pub'[p] = "idle" /\ \A q \in Publishers \ {p} : pub'[q] = pub[q]
  BY Moves DEF Return
<1>2. pubLt'[p] = NoLifetime /\ \A q \in Publishers \ {p} : pubLt'[q] = pubLt[q]
  BY DEF Return, TransportTypeOK
<1>3. UNCHANGED <<failed, closed, sup, epoch>>
  BY DEF lifeVars, supVars
<1>4. sup \in BeforeInstall => epoch # NoLifetime
  BY DEF Supervised, BeforeInstall, Lifetimes, NoLifetime
<1> QED
  BY <1>1, <1>2, <1>3, <1>4 DEF Publishing

\* Publish returns, from whichever step.
LEMMA ReturnKeeps ==
    ASSUME TransportInv, NEW p \in Publishers, Return(p),
           UNCHANGED <<coreVars, current, lifeVars, supVars, closeVars>>
    PROVE  TransportInv'
<1> USE Parts
<1>1. TransportTypeOK' /\ Publishing'
  BY ReturnTyped, ReturnPublishes
<1>2. Holding' /\ Invoking'
  BY ReturnHolds, ReturnInvokes
<1> QED
  BY <1>1, <1>2, Frames, Whole DEF coreVars, lifeVars, supVars, closeVars

LEMMA PubSecondKeeps ==
    ASSUME TransportInv, NEW p \in Publishers, PubSecond(p)
    PROVE  TransportInv'
<1>1. CASE Return(p)
  BY <1>1, ReturnKeeps DEF PubSecond
<1>2. CASE /\ current # NoLifetime /\ pubLt' = [pubLt EXCEPT ![p] = current]
           /\ PubGoTo(p, "begin") /\ UNCHANGED <<pubSlot, result, slot, slotLt>>
  <2> USE Parts
  <2>1. UNCHANGED <<coreVars, current, lifeVars, supVars, closeVars>> /\ pub[p] = "second"
    BY DEF PubSecond
  <2>2. TransportTypeOK'
    BY <1>2, <2>1 DEF PubGoTo, TransportTypeOK, coreVars, lifeVars, supVars, closeVars
  <2>3. Publishing'
    <3>1. pub'[p] = "begin" /\ \A q \in Publishers \ {p} : pub'[q] = pub[q]
      BY <1>2, Moves
    <3>2. pubLt'[p] = current /\ \A q \in Publishers \ {p} : pubLt'[q] = pubLt[q]
      BY <1>2 DEF TransportTypeOK
    <3>3. current \in Lifetimes /\ sup \notin BeforeInstall
      BY <1>2, TransportAssumption DEF Supervised, BeforeInstall, TransportTypeOK,
         Lifetimes, NoLifetime
    <3> QED
      BY <2>1, <3>1, <3>2, <3>3 DEF Publishing, lifeVars, supVars
  <2>4. Holding'
    BY <1>2, <2>1, StepHolds
  <2> QED
    BY <1>2, <2>1, <2>2, <2>3, <2>4, Frames, Whole DEF coreVars, lifeVars, supVars, closeVars
<1> QED
  BY <1>1, <1>2 DEF PubSecond

LEMMA PubSlotKeeps ==
    ASSUME TransportInv, NEW p \in Publishers, PubSlot(p)
    PROVE  TransportInv'
<1>1. CASE Return(p)
  BY <1>1, ReturnKeeps DEF PubSlot
<1>2. CASE \E t \in Slots : TakesSlot(p, t)
  <2> USE Parts
  <2>1. PICK t \in Slots : TakesSlot(p, t)
    BY <1>2
  <2>2. /\ slot[t] = "free" /\ slot' = [slot EXCEPT ![t] = "held"]
        /\ pubSlot' = [pubSlot EXCEPT ![p] = t] /\ pub' = [pub EXCEPT ![p] = "second"]
        /\ UNCHANGED <<pubLt, result, slotLt>>
    BY <2>1 DEF TakesSlot, PubGoTo
  <2>3. UNCHANGED <<coreVars, current, lifeVars, supVars, closeVars>> /\ pub[p] = "slot"
    BY DEF PubSlot
  <2>4. TransportTypeOK'
    BY <2>2, <2>3 DEF TransportTypeOK, coreVars, lifeVars, supVars, closeVars
  <2>5. /\ pub'[p] = "second" /\ \A q \in Publishers \ {p} : pub'[q] = pub[q]
        /\ pubSlot'[p] = t /\ \A q \in Publishers \ {p} : pubSlot'[q] = pubSlot[q]
        /\ slot'[t] = "held" /\ \A u \in Slots \ {t} : slot'[u] = slot[u]
    BY <2>2 DEF TransportTypeOK
  <2>6. Publishing' /\ Invoking'
    BY <2>2, <2>3, <2>5 DEF Publishing, Invoking, lifeVars, supVars
  <2>7. Holding'
    <3>1. pubSlot[p] = NoSlot /\ \A q \in Publishers : pubSlot[q] # t
      BY <2>2, <2>3 DEF Holding
    <3>2. SlotsAreOwned'
      <4> SUFFICES ASSUME NEW u \in Slots
                   PROVE  /\ slot'[u] = "held" => \E q \in Publishers :
                                pubSlot'[q] = u /\ pub'[q] \in {"second", "begin"}
                          /\ \A q, r \in Publishers : pubSlot'[q] = u /\ pubSlot'[r] = u => q = r
        BY DEF SlotsAreOwned
      <4>1. CASE u = t
        BY <4>1, <2>5, <3>1
      <4>2. CASE u # t
        BY <4>2, <2>3, <2>5, <3>1, TransportAssumption DEF Holding, SlotsAreOwned
      <4> QED
        BY <4>1, <4>2
    <3> QED
      BY <2>5, <3>1, <3>2 DEF Holding
  <2> QED
    BY <2>3, <2>4, <2>6, <2>7, Frames, Whole DEF coreVars, lifeVars, supVars, closeVars
<1> QED
  BY <1>1, <1>2 DEF PubSlot, TakesSlot

LEMMA PubBeginKeeps ==
    ASSUME TransportInv, NEW p \in Publishers, PubBegin(p)
    PROVE  TransportInv'
<1>1. CASE Return(p)
  BY <1>1, ReturnKeeps DEF PubBegin
<1>2. CASE Invokes(p) /\ ~closed[pubLt[p]]
  <2> USE Parts
  <2>1. /\ UNCHANGED <<coreVars, current, lifeVars, supVars, closeVars>>
        /\ pub[p] = "begin" /\ pubLt[p] \in Lifetimes
    BY DEF PubBegin, Publishing
  <2>2. pubSlot[p] \in Slots /\ \A q \in Publishers : pubSlot[q] = pubSlot[p] => q = p
    BY <2>1 DEF Holding, SlotsAreOwned
  <2>3. /\ slot' = [slot EXCEPT ![pubSlot[p]] = "running"]
        /\ slotLt' = [slotLt EXCEPT ![pubSlot[p]] = pubLt[p]]
        /\ pub' = [pub EXCEPT ![p] = "waiting"] /\ UNCHANGED <<pubLt, pubSlot, result>>
    BY <1>2 DEF Invokes, PubGoTo
  <2>4. TransportTypeOK'
    <3>1. /\ slot' \in [Slots -> {"free", "held", "running", "posted"}]
          /\ slotLt' \in [Slots -> 0..epoch]
      BY <2>3 DEF TransportTypeOK
    <3> QED
      BY <2>1, <2>3, <3>1 DEF TransportTypeOK, coreVars, lifeVars, supVars, closeVars
  <2>5. Publishing'
    <3>1. pub'[p] = "waiting" /\ \A q \in Publishers \ {p} : pub'[q] = pub[q]
      BY <2>3 DEF TransportTypeOK
    <3> QED
      BY <2>1, <2>3, <3>1 DEF Publishing, lifeVars, supVars
  <2>6. Holding'
    BY <2>2, <2>3 DEF Holding, SlotsAreOwned, TransportTypeOK
  <2>7. Invoking'
    <3>1. pubLt[p] = epoch
      BY <1>2, <2>1, TransportAssumption DEF Lives, TransportTypeOK, Lifetimes
    <3>2. sup \notin BeforeInstall \cup {"off", "top", "backoff"}
      BY <1>2, <2>1, <3>1 DEF Publishing, Supervised, Lifetimes
    <3>3. /\ \A u \in Slots \ {pubSlot[p]} : slot'[u] = slot[u] /\ slotLt'[u] = slotLt[u]
          /\ slotLt'[pubSlot[p]] = epoch
      BY <2>2, <2>3, <3>1 DEF TransportTypeOK
    <3> QED
      BY <2>1, <3>2, <3>3 DEF Invoking, supVars
  <2> QED
    BY <2>1, <2>4, <2>5, <2>6, <2>7, Frames, Whole DEF coreVars, lifeVars, supVars, closeVars
<1> QED
  BY <1>1, <1>2 DEF PubBegin, Invokes

LEMMA PubMarkKeeps ==
    ASSUME TransportInv, NEW p \in Publishers, PubMark(p)
    PROVE  TransportInv'
<1> USE Parts
<1>1. TransportTypeOK'
  <2>1. failed' \in [Lifetimes -> BOOLEAN]
    BY DEF PubMark, MarkFailed, TransportTypeOK
  <2>2. dial' \in [Lifetimes -> {"none", "dialing", "attached", "over"}]
    BY DEF PubMark, MarkFailed, TransportTypeOK
  <2>3. pub' = [pub EXCEPT ![p] = "socket"]
    BY DEF PubMark, PubGoTo
  <2> QED
    BY <2>1, <2>2, <2>3 DEF PubMark, MarkFailed, TransportTypeOK, coreVars, supVars,
       closeVars
<1>2. Lives'
  BY TransportAssumption DEF Lives, PubMark, MarkFailed, PubGoTo, coreVars, supVars,
     closeVars, Lifetimes, NoLifetime
<1>3. Supervised'
  BY TransportAssumption DEF Supervised, Open, PubMark, MarkFailed, PubGoTo, coreVars,
     supVars, closeVars, Lifetimes, NoLifetime
<1>4. Publishing'
  BY TransportAssumption DEF Publishing, BeforeInstall, TransportTypeOK, PubMark,
     MarkFailed, PubGoTo, coreVars, supVars, closeVars, Lifetimes, NoLifetime
<1>5. Holding'
  BY StepHolds DEF PubMark
<1>6. Closing'
  BY TransportAssumption DEF Closing, SupervisorGone, PubMark, MarkFailed, PubGoTo,
     coreVars, supVars, closeVars, Lifetimes, NoLifetime
<1> QED
  BY <1>1, <1>2, <1>3, <1>4, <1>5, <1>6, Frames, Whole DEF PubMark, MarkFailed,
     PubGoTo, coreVars, supVars, closeVars

LEMMA PubSocketKeeps ==
    ASSUME TransportInv, NEW p \in Publishers, PubSocket(p)
    PROVE  TransportInv'
<1> USE Parts
<1>1. /\ pub[p] = "socket" /\ pubLt[p] \in Lifetimes /\ failed[pubLt[p]]
      /\ CloseSocket(pubLt[p]) /\ PubGoTo(p, "clear")
      /\ UNCHANGED <<coreVars, current, supVars, pubLt, pubSlot, result, slot, slotLt, closeVars>>
  BY DEF PubSocket, Publishing
<1>2. /\ closed' \in [Lifetimes -> BOOLEAN]
      /\ dial' \in [Lifetimes -> {"none", "dialing", "attached", "over"}]
      /\ \A k \in Lifetimes : closed'[k] <=> closed[k] \/ k = pubLt[p]
      /\ \A k \in Lifetimes : dial'[k] = IF k = pubLt[p] /\ dial[k] = "attached" THEN "over" ELSE dial[k]
      /\ UNCHANGED <<subscribed, failed, wake, connected, lost>>
  BY <1>1, SocketCloses
<1>3. TransportTypeOK'
  BY <1>1, <1>2 DEF TransportTypeOK, PubGoTo, coreVars, supVars, closeVars
<1>4. Lives'
  BY <1>1, <1>2 DEF Lives, supVars
<1>5. Supervised'
  BY <1>1, <1>2 DEF Supervised, Open, coreVars, supVars, closeVars
<1>6. Publishing'
  <2>1. pub'[p] = "clear" /\ \A q \in Publishers \ {p} : pub'[q] = pub[q]
    BY <1>1, Moves
  <2> QED
    BY <1>1, <1>2, <2>1 DEF Publishing, supVars
<1>7. Holding'
  BY <1>1, StepHolds
<1> QED
  BY <1>1, <1>2, <1>3, <1>4, <1>5, <1>6, <1>7, Frames, Whole

LEMMA PubWakeKeeps ==
    ASSUME TransportInv, NEW p \in Publishers, PubWake(p)
    PROVE  TransportInv'
<1> USE Parts
<1>1. TransportTypeOK'
  <2>1. wake' \in [Lifetimes -> BOOLEAN]
    BY DEF PubWake, SignalWake, TransportTypeOK
  <2>2. dial' \in [Lifetimes -> {"none", "dialing", "attached", "over"}]
    BY DEF PubWake, SignalWake, TransportTypeOK
  <2>3. pub' = [pub EXCEPT ![p] = "grace"]
    BY DEF PubWake, PubGoTo
  <2> QED
    BY <2>1, <2>2, <2>3 DEF PubWake, SignalWake, TransportTypeOK, coreVars, supVars,
       closeVars
<1>2. Lives'
  <2>1. pubLt[p] \in Lifetimes /\ failed[pubLt[p]]
    BY DEF PubWake, Publishing
  <2>2. /\ \A l \in Lifetimes : wake'[l] <=> wake[l] \/ l = pubLt[p]
        /\ UNCHANGED <<subscribed, failed, closed, dial, connected, lost, sup, epoch>>
    BY DEF PubWake, SignalWake, supVars, TransportTypeOK
  <2> QED
    BY <2>1, <2>2 DEF Lives
<1>3. Publishing'
  BY TransportAssumption DEF Publishing, BeforeInstall, PubWake, SignalWake, PubGoTo,
     coreVars, supVars, closeVars, Lifetimes, NoLifetime
<1>4. Holding'
  BY StepHolds DEF PubWake
<1> QED
  BY <1>1, <1>2, <1>3, <1>4, Frames, Whole DEF PubWake, SignalWake, PubGoTo,
     coreVars, supVars, closeVars

LEMMA PubClearKeeps ==
    ASSUME TransportInv, NEW p \in Publishers, PubClear(p)
    PROVE  TransportInv'
<1> USE Parts
<1>1. TransportTypeOK'
  BY TransportAssumption DEF TransportTypeOK, PubClear, ClearCurrent, PubGoTo, coreVars,
     lifeVars, supVars, closeVars, IsCurrent, NoLifetime, Lifetimes
<1>2. Supervised'
  <2>1. current' = (IF current = pubLt[p] THEN NoLifetime ELSE current)
    BY DEF PubClear, ClearCurrent, IsCurrent
  <2>2. UNCHANGED <<started, sup, epoch, connected, subscribed, failed, closed, dial, close, closeLt>>
    BY DEF PubClear, coreVars, lifeVars, supVars, closeVars
  <2>3. current = epoch /\ current = pubLt[p] => ~Open(epoch)
    BY DEF PubClear, Publishing, Lives, Open
  <2> QED
    BY <2>1, <2>2, <2>3 DEF Supervised, Open, NoLifetime
<1>3. Publishing'
  BY TransportAssumption DEF Publishing, BeforeInstall, PubClear, ClearCurrent, PubGoTo,
     coreVars, lifeVars, supVars, closeVars, IsCurrent, NoLifetime, Lifetimes
<1>4. Holding'
  BY StepHolds DEF PubClear
<1>5. Closing'
  BY TransportAssumption DEF Closing, SupervisorGone, PubClear, ClearCurrent, PubGoTo,
     coreVars, lifeVars, supVars, closeVars, IsCurrent, NoLifetime, Lifetimes
<1> QED
  BY <1>1, <1>2, <1>3, <1>4, <1>5, Frames, Whole DEF PubClear, ClearCurrent, PubGoTo,
     coreVars, lifeVars, supVars, closeVars, IsCurrent, NoLifetime

\* Publish keeps it, failCurrent field by field included.
LEMMA PubLookKeeps ==
    ASSUME TransportInv, NEW p \in Publishers, PubLook(p)
    PROVE  TransportInv'
<1> USE Parts
<1>1. TransportTypeOK'
  BY TransportAssumption DEF TransportTypeOK, PubLook, NoLifetime, Usable, PubGoTo,
     coreVars, lifeVars, supVars, closeVars, Lifetimes
<1>2. Publishing'
  <2>1. pub'[p] = "slot" /\ \A q \in Publishers \ {p} : pub'[q] = pub[q]
    BY Moves DEF PubLook
  <2>2. UNCHANGED <<failed, closed, sup, epoch, pubLt>>
    BY DEF PubLook, lifeVars, supVars
  <2> QED
    BY <2>1, <2>2 DEF PubLook, Publishing
<1>3. Holding'
  BY StepHolds DEF PubLook
<1> QED
  BY <1>1, <1>2, <1>3, Frames, Whole DEF PubLook, NoLifetime, Usable, PubGoTo,
     coreVars, lifeVars, supVars, closeVars

LEMMA PubFailsKeeps ==
    ASSUME TransportInv, NEW p \in Publishers, PubFails(p)
    PROVE  TransportInv'
<1> USE Parts
<1>1. TransportTypeOK'
  BY TransportAssumption DEF TransportTypeOK, PubFails, Breakable, PubGoTo, coreVars,
     lifeVars, supVars, closeVars, Lifetimes, NoLifetime
<1>2. Publishing'
  <2>1. pub'[p] = "mark" /\ \A q \in Publishers \ {p} : pub'[q] = pub[q]
    BY Moves DEF PubFails
  <2>2. UNCHANGED <<failed, closed, sup, epoch, pubLt>>
    BY DEF PubFails, lifeVars, supVars
  <2> QED
    BY <2>1, <2>2 DEF PubFails, Publishing
<1>3. Holding'
  BY StepHolds DEF PubFails
<1> QED
  BY <1>1, <1>2, <1>3, Frames, Whole DEF PubFails, Breakable, PubGoTo, coreVars,
     lifeVars, supVars, closeVars

LEMMA PublisherKeeps ==
    ASSUME TransportInv, NEW p \in Publishers,
           \/ PubLook(p) \/ PubSlot(p) \/ PubSecond(p) \/ PubBegin(p) \/ PubConfirmed(p) \/ PubFails(p)
           \/ PubMark(p) \/ PubSocket(p) \/ PubClear(p) \/ PubWake(p) \/ PubGrace(p)
    PROVE  TransportInv'
<1>1. CASE PubConfirmed(p) \/ PubGrace(p)
  BY <1>1, ReturnKeeps DEF PubConfirmed, PubGrace
<1> QED
  BY <1>1, PubLookKeeps, PubSlotKeeps, PubSecondKeeps, PubBeginKeeps, PubFailsKeeps,
     PubMarkKeeps, PubSocketKeeps, PubClearKeeps, PubWakeKeeps

LEMMA InvocationEndsKeeps ==
    ASSUME TransportInv, NEW s \in Slots, InvocationEnds(s)
    PROVE  TransportInv'
<1> USE Parts
<1>1. /\ slot' \in [Slots -> {"free", "held", "running", "posted"}]
      /\ slotLt' \in [Slots -> 0..epoch] /\ pubSlot' \in [Publishers -> Slots \cup {NoSlot}]
  BY DEF InvocationEnds, TransportTypeOK, NoLifetime
<1>2. /\ slot'[s] = "free" /\ \A u \in Slots \ {s} : slot'[u] = slot[u] /\ slotLt'[u] = slotLt[u]
      /\ \A q \in Publishers : pubSlot'[q] = IF pubSlot[q] = s THEN NoSlot ELSE pubSlot[q]
      /\ slot[s] = "posted"
  BY DEF InvocationEnds, TransportTypeOK
<1>3. UNCHANGED <<coreVars, current, lifeVars, supVars, pub, pubLt, result, closeVars>>
  BY DEF InvocationEnds
<1>4. TransportTypeOK'
  BY <1>1, <1>3 DEF TransportTypeOK, coreVars, lifeVars, supVars, closeVars
<1>5. Holding'
  <2>1. \A q \in Publishers : pub[q] \in {"second", "begin"} => pubSlot[q] # s
    BY <1>2 DEF Holding
  <2>2. SlotsAreOwned'
    BY <1>2, <1>3, <2>1, TransportAssumption DEF Holding, SlotsAreOwned
  <2>3. \A q \in Publishers : pubSlot[q] \in Slots /\ pubSlot[q] # s => slot'[pubSlot[q]] = slot[pubSlot[q]]
    BY <1>2
  <2> QED
    <3>1. \A q \in Publishers :
              /\ pub[q] \in {"idle", "slot"} => pubSlot'[q] = NoSlot
              /\ pub[q] \in {"second", "begin"} =>
                     pubSlot'[q] \in Slots /\ slot'[pubSlot'[q]] = "held"
      BY <1>2, <2>1, <2>3 DEF Holding
    <3>2. \A q \in Publishers :
              pubSlot'[q] \in Slots /\ pub[q] \notin {"second", "begin"} =>
                  slot'[pubSlot'[q]] \in {"running", "posted"}
      <4> TAKE q \in Publishers
      <4> HAVE pubSlot'[q] \in Slots /\ pub[q] \notin {"second", "begin"}
      <4>1. pubSlot'[q] = pubSlot[q] /\ pubSlot[q] \in Slots /\ pubSlot[q] # s
        BY <1>2, TransportAssumption
      <4>2. slot[pubSlot[q]] \in {"running", "posted"}
        BY <4>1, Zenon DEF Holding
      <4> QED
        BY <2>3, <4>1, <4>2, Zenon
    <3> QED
      BY <1>3, <2>2, <3>1, <3>2 DEF Holding
<1>6. Invoking'
  BY <1>2, <1>3 DEF Invoking, supVars
<1> QED
  BY <1>3, <1>4, <1>5, <1>6, Frames, Whole DEF coreVars, lifeVars, closeVars
LEMMA InvocationReturnsKeeps ==
    ASSUME TransportInv, NEW s \in Slots, (\E r \in {"ok", "failed"} : InvocationReturns(s, r))
    PROVE  TransportInv'
<1> USE Parts
<1>1. TransportTypeOK'
  <2>1. /\ slot' \in [Slots -> {"free", "held", "running", "posted"}]
        /\ result' \in [Publishers -> {"none", "ok", "failed"}]
    BY DEF InvocationReturns, TransportTypeOK
  <2>2. UNCHANGED <<coreVars, current, lifeVars, supVars, pub, pubLt, pubSlot, slotLt, closeVars>>
    BY Zenon DEF InvocationReturns
  <2> QED
    BY <2>1, <2>2 DEF TransportTypeOK, coreVars, lifeVars, supVars, closeVars
<1>2. /\ slot'[s] = "posted" /\ slot[s] = "running"
      /\ \A u \in Slots \ {s} : slot'[u] = slot[u]
      /\ UNCHANGED <<coreVars, current, lifeVars, supVars, pub, pubLt, pubSlot, slotLt, closeVars>>
  BY DEF InvocationReturns, TransportTypeOK
<1>3. Holding'
  <2>1. SlotsAreOwned'
    BY <1>2 DEF Holding, SlotsAreOwned
  <2> QED
    BY <1>2, <2>1 DEF Holding
<1>4. Invoking'
  BY <1>2 DEF Invoking, supVars
<1> QED
  BY <1>1, <1>2, <1>3, <1>4, Frames, Whole DEF coreVars, lifeVars, closeVars

LEMMA InvocationKeeps ==
    ASSUME TransportInv, NEW s \in Slots,
           \/ InvocationEnds(s) \/ (\E r \in {"ok", "failed"} : InvocationReturns(s, r))
    PROVE  TransportInv'
BY InvocationEndsKeeps, InvocationReturnsKeeps

-----------------------------------------------------------------------------
\* The steps of the supervisor that only move it on.
LEMMA SupMoves ==
    ASSUME TransportInv, NEW step, sup' = step, stuck' \in BOOLEAN,
           UNCHANGED <<started, stopping, epoch, current, lifeVars, pubVars, closeVars>>,
           \/ sup = "top" /\ step = "exited"
           \/ sup = "subscribing" /\ step = "subscribed"
           \/ sup \in {"connecting", "subscribing", "subscribed", "install"} /\ step = "dropMark"
           \/ sup \in {"select", "backoff"} /\ step = "exited"
           \/ sup = "select" /\ step = "clear" /\ wake[epoch]
           \/ sup = "ops" /\ step = "backoff" /\ OpsDone(epoch)
           \/ sup = "ops" /\ step = "exited"
           \/ sup = "backoff" /\ step = "top"
    PROVE  TransportInv'
<1> USE Parts
<1>1. TransportTypeOK'
  BY DEF TransportTypeOK, lifeVars, pubVars, closeVars
<1>2. Lives'
  BY DEF Lives, lifeVars
<1>3. Supervised'
  BY DEF Supervised, Open, Lives, NoLifetime, Lifetimes, lifeVars, closeVars
<1>4. Publishing'
  BY DEF Publishing, BeforeInstall, lifeVars, pubVars
<1>5. Invoking'
  BY DEF Invoking, OpsDone, BeforeInstall, pubVars
<1>6. Closing'
  BY DEF Closing, SupervisorGone, lifeVars, closeVars
<1> QED
  BY <1>1, <1>2, <1>3, <1>4, <1>5, <1>6, Frames, Whole DEF pubVars

LEMMA SupMovesKeep ==
    ASSUME TransportInv,
           \/ SupExit \/ SubAck \/ ConnectFails \/ SupStop \/ SupWake \/ SupClean
           \/ SupStuck \/ BackoffEnds
    PROVE  TransportInv'
<1>1. stuck \in BOOLEAN
  BY DEF TransportInv, TransportTypeOK
<1>2. CASE SupExit \/ SubAck \/ ConnectFails
  BY <1>1, <1>2, SupMoves DEF SupExit, SubAck, ConnectFails, SupGoTo, coreVars
<1>3. CASE SupStop \/ SupWake
  BY <1>1, <1>3, SupMoves DEF SupStop, HearsStop, SupWake, SupGoTo, coreVars
<1>4. CASE SupClean \/ BackoffEnds
  BY <1>1, <1>4, SupMoves DEF SupClean, BackoffEnds, SupGoTo, coreVars
<1>5. CASE SupStuck
  BY <1>5, SupMoves DEF SupStuck, SupGoTo
<1> QED
  BY <1>2, <1>3, <1>4, <1>5

\* The supervisor: connectOnce, installCurrent and the teardown keep the invariant.
LEMMA StartKeeps ==
    ASSUME TransportInv, Start
    PROVE  TransportInv'
<1> USE Parts
<1>1. TransportTypeOK'
  BY TransportAssumption DEF TransportTypeOK, Start, SupGoTo, lifeVars, pubVars, closeVars,
     Lifetimes, NoLifetime
<1>2. Lives'
  BY TransportAssumption DEF Lives, Supervised, Open, Start, SupGoTo, lifeVars, pubVars,
     closeVars, Lifetimes, NoLifetime
<1>3. Supervised'
  BY TransportAssumption DEF Supervised, Open, Start, SupGoTo, lifeVars, pubVars, closeVars,
     Lifetimes, NoLifetime
<1>4. Publishing'
  BY TransportAssumption DEF Publishing, BeforeInstall, Start, SupGoTo, lifeVars, pubVars,
     closeVars, Lifetimes, NoLifetime
<1>5. Invoking'
  BY TransportAssumption DEF Invoking, BeforeInstall, Supervised, Open, Start, SupGoTo,
     lifeVars, pubVars, closeVars, Lifetimes, NoLifetime
<1>6. Closing'
  BY TransportAssumption DEF Closing, SupervisorGone, Start, SupGoTo, lifeVars, pubVars,
     closeVars, Lifetimes, NoLifetime
<1> QED
  BY <1>1, <1>2, <1>3, <1>4, <1>5, <1>6, Frames, Whole DEF Start, SupGoTo, lifeVars,
     pubVars, closeVars

LEMMA SupConnectKeeps ==
    ASSUME TransportInv, SupConnect
    PROVE  TransportInv'
<1> USE Parts
<1>1. /\ sup = "top" /\ sup' = "connecting" /\ epoch' = epoch + 1 /\ epoch + 1 \in Lifetimes
      /\ epoch \in Nat /\ MaxLifetimes \in Nat /\ current = NoLifetime
      /\ UNCHANGED <<coreVars, current, subscribed, failed, closed, wake, connected, lost, pubVars,
                     closeVars>>
  BY TransportAssumption DEF SupConnect, TransportTypeOK, Lifetimes, Supervised
<1>2. /\ dial' \in [Lifetimes -> {"none", "dialing", "attached", "over"}]
      /\ dial'[epoch + 1] = "dialing" /\ \A k \in Lifetimes \ {epoch + 1} : dial'[k] = dial[k]
  BY <1>1 DEF SupConnect, TransportTypeOK
<1>3. TransportTypeOK'
  <2>1. /\ epoch' \in 0..MaxLifetimes /\ current' \in 0..epoch' /\ 0..epoch \subseteq 0..epoch'
    BY <1>1 DEF TransportTypeOK, Lifetimes
  <2> QED
    BY <1>1, <1>2, <2>1 DEF TransportTypeOK, coreVars, pubVars, closeVars
<1>4. Lives'
  <2>1. \A l \in Lifetimes : l \in Nat /\ (l < epoch' => l < epoch \/ l = epoch)
    BY <1>1 DEF Lifetimes
  <2>2. \A l \in Lifetimes : l < epoch' => closed[l]
    BY <1>1, <2>1 DEF Lives, Supervised
  <2> QED
    <3>1. ASSUME NEW l \in Lifetimes \ {epoch + 1}
          PROVE  /\ l > epoch' => dial'[l] = "none"
                 /\ closed[l] => dial'[l] # "attached"
                 /\ dial'[l] = "dialing" => closed[l]
                 /\ connected[l] => dial'[l] \in {"attached", "over"}
                 /\ connected[l] /\ ~failed[l] => dial'[l] = "attached"
                 /\ lost[l] # "no" => failed[l] /\ dial'[l] = "over"
      <4>1. dial'[l] = dial[l] /\ (l > epoch' => l > epoch) /\ (l = epoch => closed[l])
        BY <1>1, <1>2, <2>1, <2>2
      <4> QED
        BY <4>1 DEF Lives
    <3>2. /\ ~connected[epoch + 1] /\ lost[epoch + 1] = "no"
      BY <1>1 DEF Lives
    <3>3. ASSUME NEW l \in Lifetimes
          PROVE  /\ subscribed[l] => connected[l]
                 /\ wake[l] => failed[l]
                 /\ closed[epoch + 1] => dial'[epoch + 1] # "attached"
      BY <1>2 DEF Lives
    <3> QED
      BY <1>1, <1>2, <2>1, <2>2, <3>1, <3>2, <3>3 DEF Lives
<1>5. Supervised'
  BY <1>1 DEF Supervised, Open, coreVars, closeVars, NoLifetime
<1>6. Publishing' /\ Invoking' /\ Closing'
  <2>1. Publishing'
    BY <1>1 DEF Publishing, BeforeInstall, TransportTypeOK, pubVars
  <2>2. Invoking'
    BY <1>1 DEF Invoking, BeforeInstall, TransportTypeOK, pubVars
  <2>3. Closing'
    BY <1>1 DEF Closing, SupervisorGone, closeVars
  <2> QED
    BY <2>1, <2>2, <2>3
<1> QED
  BY <1>1, <1>3, <1>4, <1>5, <1>6, Frames, Whole DEF pubVars

LEMMA ConnAckKeeps ==
    ASSUME TransportInv, ConnAck
    PROVE  TransportInv'
<1> USE Parts
<1>1. TransportTypeOK'
  BY TransportAssumption DEF TransportTypeOK, Supervised, Open, ConnAck, SupGoTo, coreVars,
     pubVars, closeVars, Lifetimes, NoLifetime
<1>2. Lives'
  BY TransportAssumption DEF Lives, ConnAck, Open, SupGoTo, coreVars, pubVars, closeVars,
     Lifetimes, NoLifetime
<1>3. Supervised'
  BY TransportAssumption DEF Supervised, Open, TransportTypeOK, ConnAck, SupGoTo, coreVars,
     pubVars, closeVars, Lifetimes, NoLifetime
<1>4. Publishing'
  BY TransportAssumption DEF Publishing, BeforeInstall, ConnAck, Open, SupGoTo, coreVars,
     pubVars, closeVars, Lifetimes, NoLifetime
<1>5. Invoking'
  BY TransportAssumption DEF Invoking, BeforeInstall, ConnAck, Open, SupGoTo, coreVars,
     pubVars, closeVars, Lifetimes, NoLifetime
<1>6. Closing'
  BY TransportAssumption DEF Closing, SupervisorGone, ConnAck, Open, SupGoTo, coreVars,
     pubVars, closeVars, Lifetimes, NoLifetime
<1> QED
  BY <1>1, <1>2, <1>3, <1>4, <1>5, <1>6, Frames, Whole DEF ConnAck, Open, SupGoTo,
     coreVars, pubVars, closeVars

LEMMA SubscribedKeeps ==
    ASSUME TransportInv, Subscribed
    PROVE  TransportInv'
<1> USE Parts
<1>1. CASE failed[epoch]
  <2>1. stuck \in BOOLEAN
    BY DEF TransportTypeOK
  <2> QED
    BY <1>1, <2>1, SupMoves DEF Subscribed, SupGoTo, coreVars, lifeVars
<1>2. CASE ~failed[epoch]
  <2>1. /\ sup = "subscribed" /\ sup' = "install" /\ connected[epoch] /\ epoch \in Lifetimes
        /\ UNCHANGED <<coreVars, epoch, current, failed, closed, wake, dial, connected, lost, pubVars,
                       closeVars>>
    BY <1>2 DEF Subscribed, SupGoTo, Supervised
  <2>2. /\ subscribed' \in [Lifetimes -> BOOLEAN]
        /\ \A l \in Lifetimes : subscribed'[l] <=> subscribed[l] \/ l = epoch
    <3>1. subscribed' = [subscribed EXCEPT ![epoch] = TRUE]
      BY <1>2, Zenon DEF Subscribed
    <3>2. subscribed \in [Lifetimes -> BOOLEAN]
      BY Zenon DEF TransportTypeOK
    <3> QED
      BY <3>1, <3>2
  <2>3. TransportTypeOK'
    BY <2>1, <2>2 DEF TransportTypeOK, coreVars, pubVars, closeVars
  <2>4. Lives'
    BY <2>1, <2>2 DEF Lives
  <2>5. Supervised'
    BY <2>1, <2>2 DEF Supervised, Open, NoLifetime, Lifetimes, coreVars, closeVars
  <2>6. Publishing' /\ Invoking' /\ Closing'
    BY <2>1 DEF Publishing, Invoking, Closing, BeforeInstall, SupervisorGone, pubVars, closeVars
  <2> QED
    BY <2>1, <2>3, <2>4, <2>5, <2>6, Frames, Whole DEF pubVars
<1> QED
  BY <1>1, <1>2

LEMMA InstallKeeps ==
    ASSUME TransportInv, Install
    PROVE  TransportInv'
<1> USE Parts
<1>1. CASE ~Usable(epoch)
  <2>1. stuck \in BOOLEAN
    BY DEF TransportTypeOK
  <2> QED
    BY <1>1, <2>1, SupMoves DEF Install, SupGoTo, coreVars
<1>2. CASE Usable(epoch)
  <2>1. /\ sup = "install" /\ sup' = "select" /\ current' = epoch /\ epoch \in Lifetimes
        /\ connected[epoch] /\ subscribed[epoch]
        /\ UNCHANGED <<coreVars, epoch, lifeVars, pubVars, closeVars>>
    BY <1>2 DEF Install, SupGoTo, Supervised
  <2>2. TransportTypeOK'
    BY <2>1 DEF TransportTypeOK, Lifetimes, coreVars, lifeVars, pubVars, closeVars
  <2>3. Lives'
    BY <2>1 DEF Lives, lifeVars
  <2>4. Supervised'
    BY <2>1 DEF Supervised, Open, NoLifetime, Lifetimes, coreVars, lifeVars, closeVars
  <2>5. Publishing' /\ Invoking' /\ Closing'
    BY <2>1 DEF Publishing, Invoking, Closing, BeforeInstall, SupervisorGone, lifeVars,
       pubVars, closeVars
  <2> QED
    BY <2>1, <2>2, <2>3, <2>4, <2>5, Frames, Whole DEF pubVars
<1> QED
  BY <1>1, <1>2

LEMMA SupClearKeeps ==
    ASSUME TransportInv, SupClear
    PROVE  TransportInv'
<1> USE Parts
<1>0. /\ sup = "clear" /\ sup' = "mark" /\ epoch' = epoch
      /\ current' = IF current = epoch THEN NoLifetime ELSE current
      /\ UNCHANGED <<coreVars, lifeVars, pubVars, closeVars>>
  BY Zenon DEF SupClear, ClearCurrent, IsCurrent, SupGoTo
<1>1. TransportTypeOK'
  <2>1. current' \in 0..epoch
    BY <1>0 DEF TransportTypeOK, NoLifetime
  <2> QED
    BY <1>0, <2>1 DEF TransportTypeOK, coreVars, lifeVars, pubVars, closeVars
<1>2. Lives'
  BY <1>0 DEF Lives, lifeVars
<1>3. Supervised'
  BY <1>0 DEF Supervised, NoLifetime, coreVars, lifeVars
<1>4. Publishing'
  BY <1>0 DEF Publishing, BeforeInstall, lifeVars, pubVars
<1>5. Invoking'
  BY <1>0 DEF Invoking, BeforeInstall, pubVars
<1>6. Closing'
  BY <1>0 DEF Closing, SupervisorGone, lifeVars, closeVars
<1> QED
  BY <1>0, <1>1, <1>2, <1>3, <1>4, <1>5, <1>6, Frames, Whole DEF pubVars

LEMMA SupMarkKeeps ==
    ASSUME TransportInv, SupMark
    PROVE  TransportInv'
<1> USE Parts
<1>0. /\ \/ sup = "mark" /\ sup' = "socket"
         \/ sup = "dropMark" /\ sup' = "dropSocket"
      /\ epoch' = epoch /\ failed' = [failed EXCEPT ![epoch] = TRUE]
      /\ UNCHANGED <<coreVars, current, subscribed, closed, wake, dial, connected, lost,
                      pubVars, closeVars>>
  BY Zenon DEF SupMark, MarkFailed, SupGoTo
<1>1. /\ epoch \in Lifetimes /\ failed' \in [Lifetimes -> BOOLEAN]
      /\ \A l \in Lifetimes : failed'[l] <=> failed[l] \/ l = epoch
  <2>1. failed \in [Lifetimes -> BOOLEAN]
    BY Zenon DEF TransportTypeOK
  <2>2. epoch \in Lifetimes
    BY <1>0 DEF Supervised
  <2> QED
    BY <1>0, <2>1, <2>2
<1>2. TransportTypeOK'
  BY <1>0, <1>1 DEF TransportTypeOK, coreVars, pubVars, closeVars
<1>3. Lives'
  BY <1>0, <1>1 DEF Lives
<1>4. Supervised'
  BY <1>0, <1>1 DEF Supervised, NoLifetime, coreVars
<1>5. Publishing'
  BY <1>0, <1>1 DEF Publishing, BeforeInstall, pubVars
<1>6. Invoking'
  BY <1>0 DEF Invoking, BeforeInstall, pubVars
<1>7. Closing'
  BY <1>0, <1>1 DEF Closing, SupervisorGone, TransportTypeOK, closeVars
<1> QED
  BY <1>0, <1>2, <1>3, <1>4, <1>5, <1>6, <1>7, Frames, Whole DEF pubVars

LEMMA SupSocketKeeps ==
    ASSUME TransportInv, SupSocket
    PROVE  TransportInv'
<1> USE Parts
<1>1. /\ sup \in {"socket", "dropSocket"} /\ epoch \in Lifetimes /\ failed[epoch]
      /\ sup' = (IF sup = "socket" THEN "ops" ELSE "backoff") /\ CloseSocket(epoch)
      /\ UNCHANGED <<coreVars, epoch, current, pubVars, closeVars>>
  BY DEF SupSocket, SupGoTo, Supervised
<1>2. /\ closed' \in [Lifetimes -> BOOLEAN]
      /\ dial' \in [Lifetimes -> {"none", "dialing", "attached", "over"}]
      /\ \A k \in Lifetimes : closed'[k] <=> closed[k] \/ k = epoch
      /\ \A k \in Lifetimes : dial'[k] = IF k = epoch /\ dial[k] = "attached" THEN "over" ELSE dial[k]
      /\ UNCHANGED <<subscribed, failed, wake, connected, lost>>
  BY <1>1, SocketCloses
<1>3. TransportTypeOK'
  BY <1>1, <1>2 DEF TransportTypeOK, coreVars, pubVars, closeVars
<1>4. Lives'
  BY <1>1, <1>2 DEF Lives
<1>5. Supervised'
  BY <1>1, <1>2 DEF Supervised, Open, NoLifetime, coreVars, closeVars
<1>6. Publishing' /\ Invoking'
  BY <1>1, <1>2 DEF Publishing, Invoking, BeforeInstall, pubVars
<1>7. Closing'
  BY <1>1, <1>2 DEF Closing, SupervisorGone, closeVars
<1> QED
  BY <1>1, <1>3, <1>4, <1>5, <1>6, <1>7, Frames, Whole DEF pubVars

LEMMA SupervisorKeeps ==
    ASSUME TransportInv,
           \/ Start \/ SupExit \/ SupConnect \/ ConnAck \/ SubAck \/ ConnectFails
           \/ Subscribed \/ Install \/ SupStop \/ SupWake \/ SupClear \/ SupMark
           \/ SupSocket \/ SupClean \/ SupStuck \/ BackoffEnds
    PROVE  TransportInv'
BY SupMovesKeep, StartKeeps, SupConnectKeeps, ConnAckKeeps, SubscribedKeeps, InstallKeeps,
   SupClearKeeps, SupMarkKeeps, SupSocketKeeps

\* The steps of StopReconnect and Close that touch no lifetime.
LEMMA CloseMoves ==
    ASSUME TransportInv, NEW step, close' = step,
           stopping' \in BOOLEAN, stuck' \in BOOLEAN, expired' \in BOOLEAN,
           UNCHANGED <<started, current, closeLt, lifeVars, supVars, pubVars>>,
           \/ step = close /\ UNCHANGED expired
           \/ close = "no" /\ step = "wait"
           \/ close = "wait" /\ step = "take" /\ (SupervisorGone \/ expired')
           \/ close = "take" /\ step = "returned" /\ UNCHANGED expired /\ current = NoLifetime
           \/ close = "ops" /\ step = "returned" /\ UNCHANGED expired
    PROVE  TransportInv'
<1> USE Parts
<1>1. TransportTypeOK'
  BY DEF TransportTypeOK, lifeVars, supVars, pubVars
<1>2. Supervised'
  BY DEF Supervised, Open, lifeVars, supVars
<1>3. Closing'
  BY DEF Closing, SupervisorGone, lifeVars, supVars
<1> QED
  BY <1>1, <1>2, <1>3, Frames, Whole DEF lifeVars, pubVars

LEMMA CloseMovesKeep ==
    ASSUME TransportInv,
           StopReconnect \/ CloseBegin \/ CloseWaited \/ CloseExpires \/ CloseReturns
    PROVE  TransportInv'
<1>1. stopping \in BOOLEAN /\ stuck \in BOOLEAN /\ expired \in BOOLEAN
  BY DEF TransportInv, TransportTypeOK
<1>2. CASE StopReconnect
  BY <1>1, <1>2, CloseMoves DEF StopReconnect, closeVars
<1>3. CASE CloseBegin
  BY <1>1, <1>3, CloseMoves DEF CloseBegin, CloseGoTo
<1>4. CASE CloseWaited
  BY <1>1, <1>4, CloseMoves DEF CloseWaited, CloseGoTo, coreVars
<1>5. CASE CloseExpires
  BY <1>1, <1>5, CloseMoves DEF CloseExpires, coreVars
<1>6. CASE CloseReturns
  BY <1>1, <1>6, CloseMoves DEF CloseReturns, CloseGoTo
<1> QED
  BY <1>2, <1>3, <1>4, <1>5, <1>6

LEMMA CloseTakeKeeps ==
    ASSUME TransportInv, CloseTake
    PROVE  TransportInv'
<1> USE Parts
<1>1. /\ close = "take" /\ current' = NoLifetime
      /\ UNCHANGED <<coreVars, lifeVars, supVars, pubVars, expired>>
      /\ \/ current = NoLifetime /\ close' = "returned" /\ UNCHANGED closeLt
         \/ current # NoLifetime /\ close' = "mark" /\ closeLt' = current
  BY DEF CloseTake, NothingToTake
<1>2. TransportTypeOK'
  <2>1. current # NoLifetime => current \in Lifetimes
    BY TransportAssumption DEF TransportTypeOK, Lifetimes, NoLifetime
  <2>2. current' \in 0..epoch /\ closeLt' \in 0..epoch
    BY <1>1, TransportAssumption DEF TransportTypeOK, NoLifetime
  <2> QED
    BY <1>1, <2>1, <2>2 DEF TransportTypeOK, coreVars, lifeVars, supVars, pubVars
<1>3. Supervised'
  BY <1>1 DEF Supervised, Open, coreVars, lifeVars, supVars
<1>4. Closing'
  BY <1>1 DEF Closing, SupervisorGone, supVars, lifeVars
<1> QED
  BY <1>1, <1>2, <1>3, <1>4, Frames, Whole DEF lifeVars, pubVars

LEMMA CloseMarkKeeps ==
    ASSUME TransportInv, CloseMark
    PROVE  TransportInv'
<1> USE Parts
<1>0. /\ close = "mark" /\ close' = "socket" /\ UNCHANGED <<closeLt, expired>>
      /\ failed' = [failed EXCEPT ![closeLt] = TRUE]
      /\ UNCHANGED <<coreVars, current, subscribed, closed, wake, dial, connected, lost,
                      supVars, pubVars>>
  BY Zenon DEF CloseMark, MarkFailed, CloseGoTo
<1>1. /\ closeLt \in Lifetimes /\ failed' \in [Lifetimes -> BOOLEAN]
      /\ \A l \in Lifetimes : failed'[l] <=> failed[l] \/ l = closeLt
  <2>1. closeLt \in Lifetimes /\ failed \in [Lifetimes -> BOOLEAN]
    BY <1>0, Zenon DEF TransportTypeOK
  <2> QED
    BY <1>0, <2>1
<1>2. TransportTypeOK'
  BY <1>0, <1>1 DEF TransportTypeOK, coreVars, supVars, pubVars
<1>3. Lives'
  BY <1>0, <1>1 DEF Lives, supVars
<1>4. Supervised'
  BY <1>0, <1>1 DEF Supervised, Open, coreVars, supVars
<1>5. Publishing'
  BY <1>0, <1>1 DEF Publishing, supVars, pubVars
<1>6. Closing'
  BY <1>0, <1>1 DEF Closing, SupervisorGone, supVars
<1> QED
  BY <1>0, <1>2, <1>3, <1>4, <1>5, <1>6, Frames, Whole DEF pubVars

LEMMA CloseClosesKeeps ==
    ASSUME TransportInv, CloseCloses
    PROVE  TransportInv'
<1> USE Parts
<1>1. /\ close = "socket" /\ close' = "ops" /\ closeLt \in Lifetimes /\ failed[closeLt]
      /\ CloseSocket(closeLt)
      /\ UNCHANGED <<coreVars, current, supVars, pubVars, closeLt, expired>>
  BY DEF CloseCloses, CloseGoTo, Closing, TransportTypeOK
<1>2. /\ closed' \in [Lifetimes -> BOOLEAN]
      /\ dial' \in [Lifetimes -> {"none", "dialing", "attached", "over"}]
      /\ \A k \in Lifetimes : closed'[k] <=> closed[k] \/ k = closeLt
      /\ \A k \in Lifetimes : dial'[k] = IF k = closeLt /\ dial[k] = "attached" THEN "over" ELSE dial[k]
      /\ UNCHANGED <<subscribed, failed, wake, connected, lost>>
  BY <1>1, SocketCloses
<1>3. TransportTypeOK'
  BY <1>1, <1>2 DEF TransportTypeOK, coreVars, supVars, pubVars
<1>4. Lives'
  BY <1>1, <1>2 DEF Lives, supVars
<1>5. Supervised'
  BY <1>1, <1>2 DEF Supervised, Open, coreVars, supVars
<1>6. Publishing' /\ Closing'
  BY <1>1, <1>2 DEF Publishing, Closing, SupervisorGone, pubVars, supVars
<1> QED
  BY <1>1, <1>3, <1>4, <1>5, <1>6, Frames, Whole DEF pubVars

LEMMA CloseKeeps ==
    ASSUME TransportInv,
           \/ StopReconnect \/ CloseBegin \/ CloseWaited \/ CloseExpires \/ CloseTake \/ CloseMark
           \/ CloseCloses \/ CloseReturns
    PROVE  TransportInv'
BY CloseMovesKeep, CloseTakeKeeps, CloseMarkKeeps, CloseClosesKeeps

\* A dial that ends and onLost, which run in goroutines of Paho, keep it.
LEMMA DialDoneKeeps ==
    ASSUME TransportInv, NEW l \in Lifetimes, DialDone(l)
    PROVE  TransportInv'
<1> USE Parts
<1>1. /\ dial' \in [Lifetimes -> {"none", "dialing", "attached", "over"}]
      /\ \A k \in Lifetimes \ {l} : dial'[k] = dial[k]
      /\ dial[l] = "dialing" /\ (dial'[l] = "over" \/ (dial'[l] = "attached" /\ ~closed[l]))
  BY DEF DialDone, Attached, TransportTypeOK
<1>2. UNCHANGED <<coreVars, current, subscribed, failed, closed, wake, connected, lost, supVars,
                  pubVars, closeVars>>
  BY DEF DialDone
<1>3. TransportTypeOK'
  BY <1>1, <1>2, TypeFrame
<1>4. Lives'
  BY <1>1, <1>2 DEF Lives, supVars
<1>5. Supervised'
  <2>1. sup \in {"select", "exited"} /\ epoch \in Lifetimes /\ Open(epoch)' => Open(epoch)
    BY <1>1, <1>2 DEF Open, Lives, supVars
  <2> QED
    BY <1>2, <2>1 DEF Supervised, Open, coreVars, supVars, closeVars
<1> QED
  BY <1>2, <1>3, <1>4, <1>5, Frames, Whole DEF coreVars, pubVars
LEMMA LostMarkKeeps ==
    ASSUME TransportInv, NEW l \in Lifetimes, LostMark(l)
    PROVE  TransportInv'
<1> USE Parts
<1>1. /\ failed' \in [Lifetimes -> BOOLEAN]
      /\ dial' \in [Lifetimes -> {"none", "dialing", "attached", "over"}]
      /\ lost' \in [Lifetimes -> {"no", "marked", "woken", "done"}]
  BY DEF LostMark, TransportTypeOK
<1>2. /\ \A k \in Lifetimes : failed'[k] <=> failed[k] \/ k = l
      /\ \A k \in Lifetimes \ {l} : dial'[k] = dial[k] /\ lost'[k] = lost[k]
      /\ dial'[l] = "over" /\ lost'[l] = "marked" /\ connected[l]
  BY DEF LostMark, TransportTypeOK
<1>3. UNCHANGED <<coreVars, current, subscribed, closed, wake, connected, supVars, pubVars, closeVars>>
  BY DEF LostMark
<1>4. TransportTypeOK'
  BY <1>1, <1>3, TypeFrame
<1>5. Lives'
  BY <1>2, <1>3 DEF Lives, supVars
<1>6. Supervised'
  BY <1>2, <1>3 DEF Supervised, Open, coreVars, supVars, closeVars
<1>7. Publishing'
  BY <1>2, <1>3 DEF Publishing, supVars, pubVars
<1>8. Closing'
  BY <1>2, <1>3 DEF Closing, SupervisorGone, TransportTypeOK, supVars, closeVars
<1> QED
  BY <1>3, <1>4, <1>5, <1>6, <1>7, <1>8, Frames, Whole DEF pubVars

LEMMA LostWakeKeeps ==
    ASSUME TransportInv, NEW l \in Lifetimes, LostWake(l)
    PROVE  TransportInv'
<1> USE Parts
<1>0. /\ lost[l] = "marked" /\ wake' = [wake EXCEPT ![l] = TRUE]
      /\ lost' = [lost EXCEPT ![l] = "woken"]
      /\ UNCHANGED <<coreVars, current, subscribed, failed, closed, dial, connected, supVars,
                      pubVars, closeVars>>
  BY Zenon DEF LostWake, SignalWake
<1>1. /\ wake' \in [Lifetimes -> BOOLEAN]
      /\ lost' \in [Lifetimes -> {"no", "marked", "woken", "done"}]
      /\ \A k \in Lifetimes \ {l} : wake'[k] = wake[k] /\ lost'[k] = lost[k]
  BY <1>0 DEF TransportTypeOK
<1>2. TransportTypeOK'
  BY <1>0, <1>1, TypeFrame
<1>3. Lives'
  BY <1>0, <1>1 DEF Lives, supVars
<1> QED
  BY <1>0, <1>2, <1>3, Frames, Whole DEF coreVars, supVars, pubVars, closeVars

LEMMA LostClearKeeps ==
    ASSUME TransportInv, NEW l \in Lifetimes, LostClear(l)
    PROVE  TransportInv'
<1> USE Parts
<1>1. /\ lost' \in [Lifetimes -> {"no", "marked", "woken", "done"}]
      /\ \A k \in Lifetimes \ {l} : lost'[k] = lost[k]
      /\ lost[l] = "woken" /\ current' = (IF current = l THEN NoLifetime ELSE current)
  BY DEF LostClear, ClearCurrent, IsCurrent, TransportTypeOK
<1>2. UNCHANGED <<coreVars, subscribed, failed, closed, wake, dial, connected, supVars, pubVars,
                  closeVars>>
  BY DEF LostClear
<1>3. TransportTypeOK'
  <2>1. current' \in 0..epoch
    BY <1>1 DEF TransportTypeOK, NoLifetime
  <2> QED
    BY <1>1, <1>2, <2>1, TypeFrame
<1>4. Lives'
  BY <1>1, <1>2 DEF Lives, supVars
<1>5. Supervised'
  BY <1>1, <1>2 DEF Supervised, Open, Lives, NoLifetime, coreVars, supVars, closeVars
<1>6. Closing'
  BY <1>1, <1>2 DEF Closing, SupervisorGone, NoLifetime, supVars, closeVars
<1> QED
  BY <1>2, <1>3, <1>4, <1>5, <1>6, Frames, Whole DEF pubVars

LEMMA LifetimeKeeps ==
    ASSUME TransportInv, NEW l \in Lifetimes,
           \/ DialDone(l) \/ LostMark(l) \/ LostWake(l) \/ LostClear(l)
    PROVE  TransportInv'
BY DialDoneKeeps, LostMarkKeeps, LostWakeKeeps, LostClearKeeps

\* The invariant holds at the start ...
LEMMA TransportInitially == Init => TransportInv
<1> SUFFICES ASSUME Init PROVE TransportInv
  OBVIOUS
<1>1. /\ Lifetimes \subseteq Nat \ {0} /\ epoch = 0 /\ current = 0
      /\ \A l \in Lifetimes : l > epoch
  BY TransportAssumption DEF Init, Lifetimes, NoLifetime
<1>2. TransportTypeOK
  <2>1. /\ current \in 0..epoch /\ epoch \in 0..MaxLifetimes /\ closeLt \in 0..epoch
        /\ NoLifetime \in 0..epoch
    BY <1>1, TransportAssumption DEF Init, NoLifetime
  <2>2. /\ pubLt \in [Publishers -> 0..epoch] /\ slotLt \in [Slots -> 0..epoch]
        /\ pubSlot \in [Publishers -> Slots \cup {NoSlot}]
    BY <2>1 DEF Init
  <2> QED
    BY <2>1, <2>2 DEF Init, TransportTypeOK
<1>3. Lives /\ Supervised
  <2>1. Lives
    BY <1>1 DEF Init, Lives
  <2>2. Supervised
    BY <1>1 DEF Init, Supervised, NoLifetime
  <2> QED
    BY <2>1, <2>2
<1>4. Publishing /\ Holding /\ Invoking
  BY <1>1, TransportAssumption DEF Init, Publishing, Holding, SlotsAreOwned, Invoking,
     BeforeInstall, NoLifetime
<1>5. Closing
  BY DEF Init, Closing, SupervisorGone
<1> QED
  BY <1>2, <1>3, <1>4, <1>5 DEF TransportInv

\* ... and every step keeps it.
LEMMA TransportStep ==
    ASSUME TransportInv, [Next]_vars
    PROVE  TransportInv'
<1>1. CASE Start \/ Supervise
  BY <1>1, SupervisorKeeps DEF Supervise
<1>2. CASE StopReconnect \/ CloseBegin \/ Close
  BY <1>2, CloseKeeps DEF Close
<1>3. CASE \E l \in Lifetimes : DialDone(l) \/ LostMark(l) \/ OnLost(l)
  BY <1>3, LifetimeKeeps DEF OnLost
<1>4. CASE \E p \in Publishers : PubLook(p) \/ Publish(p)
  BY <1>4, PublisherKeeps DEF Publish
<1>5. CASE \E s \in Slots : InvocationEnds(s) \/ \E r \in {"ok", "failed"} : InvocationReturns(s, r)
  BY <1>5, InvocationKeeps
<1>6. CASE UNCHANGED vars
  <2>1. UNCHANGED <<coreVars, current, lifeVars, supVars, pubVars, closeVars>>
    BY <1>6 DEF vars
  <2>2. TransportTypeOK'
    BY <2>1, TypeFrame DEF TransportInv, lifeVars
  <2> QED
    BY <2>1, <2>2, Frames DEF TransportInv, coreVars, lifeVars, supVars, pubVars, closeVars
<1> QED
  BY <1>1, <1>2, <1>3, <1>4, <1>5, <1>6 DEF Next

LEMMA TransportInvariance == Spec => []TransportInv
<1>1. TransportInv /\ [Next]_vars => TransportInv'
  BY TransportStep
<1> QED
  BY TransportInitially, <1>1, PTL DEF Spec

\* The state keeps its type: an epoch never passes MaxLifetimes, a caller, an
\* invocation and Close refer to lifetimes that were begun.
THEOREM TransportTypeCorrect == Spec => []TransportTypeOK
<1>1. TransportInv => TransportTypeOK
  BY DEF TransportInv
<1> QED
  BY TransportInvariance, <1>1, PTL

\* "Exactly one client lifetime is active at a time" (transport.go): however
\* many lifetimes, publishers and late dials there are, an open socket belongs
\* to the newest lifetime.
THEOREM SocketIsUnique == Spec => []OneSocket
<1>1. TransportInv => OneSocket
  <2> SUFFICES ASSUME TransportInv, NEW l \in Lifetimes, Open(l)
               PROVE  l = epoch
    BY DEF OneSocket
  <2>1. l \in Nat /\ epoch \in Nat
    BY TransportAssumption DEF TransportInv, TransportTypeOK, Lifetimes
  <2>2. ~(l > epoch) /\ ~(l < epoch)
    BY DEF TransportInv, Lives, Open
  <2> QED
    BY <2>1, <2>2
<1> QED
  BY TransportInvariance, <1>1, PTL

\* Invocations of Publish run on the newest lifetime only: the teardown has
\* waited for those of the one before, or there is no next one (waitOps,
\* markStuck).
THEOREM InvocationsBelongToTheNewest == Spec => []InvocationsAreNewest
<1>1. TransportInv => InvocationsAreNewest
  BY DEF TransportInv, Invoking, InvocationsAreNewest
<1> QED
  BY TransportInvariance, <1>1, PTL

\* A Close that saw the supervisor go leaves no current lifetime and no socket.
THEOREM ClosedIsClosed == Spec => []CloseLeavesNothing
<1>1. TransportInv => CloseLeavesNothing
  <2> SUFFICES ASSUME TransportInv, close = "returned", ~expired
               PROVE  current = NoLifetime /\ \A l \in Lifetimes : ~Open(l)
    BY DEF CloseLeavesNothing
  <2>1. current = NoLifetime /\ sup \in {"off", "exited"}
    BY DEF TransportInv, Closing, SupervisorGone
  <2>2. ASSUME NEW l \in Lifetimes, Open(l) PROVE FALSE
    <3>1. l \in Nat \ {0} /\ epoch \in Nat
      BY TransportAssumption DEF TransportInv, TransportTypeOK, Lifetimes
    <3>2. ~(l > epoch) /\ ~(l < epoch)
      BY <2>2 DEF TransportInv, Lives, Open
    <3>3. l = epoch /\ epoch # 0
      BY <3>1, <3>2
    <3>4. sup = "exited"
      BY <2>1, <3>3 DEF TransportInv, Supervised
    <3> QED
      BY <2>1, <2>2, <3>3, <3>4 DEF TransportInv, Supervised, NoLifetime
  <2> QED
    BY <2>1, <2>2
<1> QED
  BY TransportInvariance, <1>1, PTL

\* A transport that reports itself ready has an open, subscribed connection,
\* although readyLocked looks at neither the socket nor the closed flag.
THEOREM ReadinessIsReal == Spec => []ReadyIsLive
<1>1. TransportInv => ReadyIsLive
  <2> SUFFICES ASSUME TransportInv, Ready
               PROVE  Open(current) /\ connected[current]
    BY DEF ReadyIsLive
  <2>1. current \in Lifetimes
    BY TransportAssumption DEF TransportInv, TransportTypeOK, Ready, Lifetimes, NoLifetime
  <2> QED
    BY <2>1 DEF TransportInv, Lives, Ready, Usable, Open
<1> QED
  BY TransportInvariance, <1>1, PTL

\* No refusal leaks a slot: one that is held without an invocation has exactly
\* one caller, which is on its way to beginOp.
THEOREM NoSlotLeaks == Spec => []SlotsAreOwned
<1>1. TransportInv => SlotsAreOwned
  BY DEF TransportInv, Holding
<1> QED
  BY TransportInvariance, <1>1, PTL

\* A stale callback or a late publisher cannot take down the replacement of its
\* lifetime: what clearCurrent takes away had failed, and installCurrent finds
\* nothing in its place.
THEOREM ReplacementIsSafe == Spec => OnlyFailedIsCleared
<1>1. TransportInv /\ [Next]_vars =>
      [current # NoLifetime /\ current' # current =>
           /\ current' = NoLifetime
           /\ failed[current] \/ close = "take"]_vars
  <2> SUFFICES ASSUME TransportInv, Next, current # NoLifetime, current' # current
               PROVE  current' = NoLifetime /\ (failed[current] \/ close = "take")
    OBVIOUS
  <2>0. /\ Supervised /\ Lives /\ Publishing /\ current \in Lifetimes
    BY TransportAssumption DEF TransportInv, TransportTypeOK, Lifetimes, NoLifetime
  <2>1. CASE Install
    BY <2>0, <2>1 DEF Install, Supervised
  <2>2. CASE SupClear
    BY <2>0, <2>2 DEF SupClear, ClearCurrent, IsCurrent, Supervised
  <2>3. CASE \E l \in Lifetimes : LostClear(l)
    BY <2>0, <2>3 DEF LostClear, ClearCurrent, IsCurrent, Lives
  <2>4. CASE \E p \in Publishers : PubClear(p)
    BY <2>0, <2>4 DEF PubClear, ClearCurrent, IsCurrent, Publishing
  <2>5. CASE CloseTake
    BY <2>5 DEF CloseTake
  <2>6. CASE Start \/ StopReconnect \/ CloseBegin
    BY <2>6 DEF Start, StopReconnect, CloseBegin
  <2>7. CASE Supervise /\ ~Install /\ ~SupClear
    BY <2>7 DEF Supervise, SupExit, SupConnect, ConnAck, SubAck, ConnectFails, Subscribed,
       SupStop, SupWake, SupMark, SupSocket, SupClean, SupStuck, BackoffEnds
  <2>8. CASE Close /\ ~CloseTake
    BY <2>8 DEF Close, CloseWaited, CloseExpires, CloseMark, CloseCloses, CloseReturns
  <2>9. CASE \E l \in Lifetimes : DialDone(l) \/ LostMark(l) \/ LostWake(l)
    BY <2>9 DEF DialDone, LostMark, LostWake
  <2>10. CASE \E p \in Publishers : PubLook(p) \/ (Publish(p) /\ ~PubClear(p))
    BY <2>10 DEF Publish, PubLook, PubSlot, PubSecond, PubBegin, PubConfirmed, PubFails,
       PubMark, PubSocket, PubWake, PubGrace
  <2>11. CASE \E s \in Slots :
                 InvocationEnds(s) \/ \E r \in {"ok", "failed"} : InvocationReturns(s, r)
    BY <2>11 DEF InvocationEnds, InvocationReturns
  <2> QED
    BY <2>1, <2>2, <2>3, <2>4, <2>5, <2>6, <2>7, <2>8, <2>9, <2>10, <2>11
       DEF Next, OnLost
<1> QED
  BY TransportInvariance, <1>1, PTL DEF Spec, OnlyFailedIsCleared
=============================================================================
