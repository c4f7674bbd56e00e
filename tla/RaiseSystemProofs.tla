-------------------------- MODULE RaiseSystemProofs --------------------------
(***************************************************************************)
(* The raise manager with its app threads, for every set of apps, windows  *)
(* and requests: it implements RaiseManager, whose invariants it therefore *)
(* has, and no two apps raise windows at the same time.                    *)
(***************************************************************************)
EXTENDS RaiseSystem, FiniteSetTheorems, TLAPS

-----------------------------------------------------------------------------
(* The manager alone, and an environment that may answer anything: it is    *)
(* never stuck between messages, the active token is never cancelled, and   *)
(* a timed out sequence always has its timeout on the way.                  *)

(* Cancelled tokens are all older than the active one. *)
TokensBehind ==
  /\ active # NoSequence => active.id < nextId
  /\ \A t \in cancelled :
       /\ t[1] < nextId
       /\ active # NoSequence =>
            t[1] < active.id \/ (t[1] = active.id /\ t[2] < active.token)

(* Relayed timeouts are in the order of their sequences, one for each. *)
TimeoutsOrdered ==
  /\ \A i \in DOMAIN timeouts :
       /\ timeouts[i].id < nextId
       /\ active # NoSequence => timeouts[i].id <= active.id
  /\ \A i, j \in DOMAIN timeouts : i < j => timeouts[i].id < timeouts[j].id

IInv == TypeOK /\ NeverStuck /\ TokensBehind /\ TimeoutsOrdered /\ TimeoutInFlight

-----------------------------------------------------------------------------
(* A finite set listed as a sequence is a sequence over the set. *)
LEMMA SetToSeqType ==
  ASSUME NEW S, IsFiniteSet(S)
  PROVE  SetToSeq(S) \in Seq(S)
<1>1. ExistsBijection(1..Cardinality(S), S) /\ Cardinality(S) \in Nat
  BY FS_CardinalityType
<1>2. PICK f \in [1..Cardinality(S) -> S] : IsInjective(f)
  BY <1>1 DEF ExistsBijection, Bijection, Injection, Surjection, IsInjective
<1>3. SetToSeq(S) \in [1..Cardinality(S) -> S]
  BY <1>2 DEF SetToSeq
<1>. QED  BY <1>1, <1>3

(* Moving the focus window to the end of its batch gives a batch. *)
LEMMA SwapLastType ==
  ASSUME NEW b \in Seq(Window), NEW w \in ToSet(b)
  PROVE  SwapLast(b, w) \in Seq(Window) /\ SwapLast(b, w) # << >>
<1>1. \E i \in DOMAIN b : b[i] = w
  BY DEF ToSet
<1>. DEFINE i == CHOOSE i \in DOMAIN b : b[i] = w
<1>2. i \in DOMAIN b /\ b[i] = w
  BY <1>1
<1>. HIDE DEF i
<1>3. Len(b) \in DOMAIN b /\ b[Len(b)] \in Window
  BY <1>2
<1>4. w \in Window
  BY <1>2
<1>5. [b EXCEPT ![i] = b[Len(b)], ![Len(b)] = w] \in [1..Len(b) -> Window]
  BY <1>2, <1>3, <1>4
<1>6. SwapLast(b, w) = [b EXCEPT ![i] = b[Len(b)], ![Len(b)] = w]
  BY DEF SwapLast, i
<1>7. Len(b) \in Nat /\ Len(b) > 0
  BY <1>2
<1>8. SwapLast(b, w) \in [1..Len(b) -> Window]
  BY <1>5, <1>6
<1>. HIDE DEF i
<1>9. ASSUME NEW s \in [1..Len(b) -> Window]
      PROVE  s \in Seq(Window) /\ s # << >>
  BY <1>7, <1>9
<1>. QED  BY <1>8, <1>9

(* The focus batch of a request. *)
LEMMA FocusBatchType ==
  ASSUME NEW r \in Requests
  PROVE  FocusBatch(r) \in Seq(Window)
<1>1. r \in RaiseRequest
  BY RequestsAssumption
<1>2. CASE ~HasFocus(r)
  BY <1>2 DEF FocusBatch
<1>3. CASE HasFocus(r) /\ FocusBatches(r) = {}
  <2>1. r.focus \in Window
    BY <1>1, <1>3 DEF RaiseRequest, HasFocus
  <2>. QED  BY <1>3, <2>1 DEF FocusBatch
<1>4. CASE HasFocus(r) /\ FocusBatches(r) # {}
  <2>. DEFINE b == CHOOSE b \in FocusBatches(r) : TRUE
  <2>1. b \in FocusBatches(r)
    BY <1>4
  <2>2. b \in Seq(Window) /\ r.focus \in ToSet(b)
    BY <1>1, <2>1 DEF FocusBatches, RaiseRequest
  <2>. HIDE DEF b
  <2>3. SwapLast(b, r.focus) \in Seq(Window)
    BY <2>2, SwapLastType
  <2>. QED  BY <1>4, <2>3 DEF FocusBatch, b
<1>. QED  BY <1>2, <1>3, <1>4

(* The raises a new sequence sends to an app, and the sequence itself. *)
LEMMA SentToType ==
  ASSUME NEW r \in Requests, NEW a \in App, NEW id \in Nat
  PROVE  SentTo(r, a, id) \in Seq(Raise)
<1>. DEFINE S == {b \in Sent(r) : Owner[Head(b)] = a}
            bs == SetToSeq(S)
<1>1. r \in RaiseRequest /\ IsFiniteSet(r.raise)
  BY RequestsAssumption
<1>2. S \subseteq r.raise /\ S \subseteq Seq(Window)
  BY <1>1 DEF Sent, RaiseRequest
<1>3. IsFiniteSet(S)
  BY <1>1, <1>2, FS_Subset
<1>4. bs \in Seq(S)
  BY <1>3, SetToSeqType
<1>. HIDE DEF bs, S
<1>5. \A i \in DOMAIN bs : RaiseOf(bs[i], id) \in Raise
  BY <1>2, <1>4 DEF RaiseOf, Raise
<1>6. [i \in DOMAIN bs |-> RaiseOf(bs[i], id)] \in Seq(Raise)
  BY <1>4, <1>5
<1>. QED  BY <1>6 DEF SentTo, bs, S

(* A new sequence has the type of an active one. *)
LEMMA NewSequenceType ==
  ASSUME NEW r \in Requests, nextId \in Nat
  PROVE  NewSequence(r) \in ActiveSequence
<1>1. r \in RaiseRequest
  BY RequestsAssumption
<1>2. UNION {ToSet(b) : b \in Sent(r)} \subseteq Window
  BY <1>1 DEF Sent, RaiseRequest, ToSet
<1>3. FocusBatch(r) \in Seq(Window)
  BY FocusBatchType
<1>. QED  BY <1>1, <1>2, <1>3 DEF NewSequence, ActiveSequence, RaiseRequest

-----------------------------------------------------------------------------
(* The initial state satisfies the invariant. *)
LEMMA InitIInv == Init => IInv
<1>. SUFFICES ASSUME Init PROVE IInv
  OBVIOUS
<1>1. timeouts = << >> /\ DOMAIN timeouts = {} /\ timeouts \in Seq(RaiseTimeout)
  BY DEF Init, RMInit
<1>2. appQ \in [App -> Seq(Raise)]
  <2>1. << >> \in Seq(Raise)
    OBVIOUS
  <2>. QED  BY <2>1 DEF Init
<1>3. queued \in Seq(Requests)
  BY DEF Init, RMInit
<1>4. TypeOK
  <2>1. active \in ActiveSequence \cup {NoSequence} /\ open \subseteq App
    BY DEF Init, RMInit
  <2>2. nextId \in Nat \ {0} /\ warped \in Nat
    BY DEF Init, RMInit
  <2>4. settling \in BOOLEAN
    BY DEF Init, RMInit
  <2>3. cancelled \subseteq Nat \X Nat
    BY DEF Init, RMInit
  <2>. QED  BY <1>1, <1>2, <1>3, <2>1, <2>2, <2>3, <2>4 DEF TypeOK
<1>5. active = NoSequence /\ cancelled = {} /\ queued = << >>
  BY DEF Init, RMInit
<1>. QED
  BY <1>1, <1>4, <1>5
     DEF IInv, NeverStuck, TokensBehind, TimeoutsOrdered, TimeoutInFlight

(* Queueing a request preserves the invariant. *)
LEMMA RequestStep ==
  ASSUME IInv, NEW r \in Requests, HandleRaiseRequest(r)
  PROVE  IInv'
<1>1. queued' \in Seq(Requests)
  BY DEF IInv, TypeOK, HandleRaiseRequest
<1>2. TypeOK'
  BY <1>1 DEF IInv, TypeOK, HandleRaiseRequest
<1>. QED
  BY <1>2 DEF IInv, HandleRaiseRequest, NeverStuck, TokensBehind, TimeoutsOrdered,
              TimeoutInFlight

(* So does an answer, of whatever sequence. *)
LEMMA AnsweredStep ==
  ASSUME IInv, NEW ws \in SUBSET Window, NEW id, Answered(ws, id)
  PROVE  IInv'
<1>1. CASE IsActive(id)
  <2>1. active \in ActiveSequence /\ active # NoSequence
    BY <1>1 DEF IInv, TypeOK, IsActive
  <2>2. active' = [active EXCEPT !.pending = @ \ ws]
    BY <1>1 DEF Answered
  <2>3. active' \in ActiveSequence /\ active' # NoSequence
    BY <2>1, <2>2, ConstantsAssumption DEF ActiveSequence
  <2>4. active'.id = active.id /\ active'.token = active.token
        /\ active'.timedOut = active.timedOut
    BY <2>1, <2>2 DEF ActiveSequence
  <2>. QED
    BY <2>1, <2>3, <2>4
       DEF Answered, IInv, TypeOK, NeverStuck, TokensBehind, TimeoutsOrdered, TimeoutInFlight
<1>2. CASE ~IsActive(id)
  BY <1>2 DEF Answered, IInv, TypeOK, NeverStuck, TokensBehind, TimeoutsOrdered,
              TimeoutInFlight
<1>. QED  BY <1>1, <1>2

(* What a relayed timeout leaves on its way. *)
LEMMA TimeoutTail ==
  ASSUME IInv, timeouts # << >>
  PROVE  /\ Tail(timeouts) \in Seq(RaiseTimeout)
         /\ DOMAIN Tail(timeouts) = 1..(Len(timeouts) - 1)
         /\ \A i \in DOMAIN Tail(timeouts) :
              Tail(timeouts)[i] = timeouts[i + 1] /\ i + 1 \in DOMAIN timeouts
         /\ Head(timeouts) = timeouts[1] /\ 1 \in DOMAIN timeouts
         /\ \A i \in DOMAIN timeouts : i # 1 => i - 1 \in DOMAIN Tail(timeouts)
BY DEF IInv, TypeOK

(* A relayed timeout renews the token of the sequence it belongs to. *)
LEMMA TimeoutStep ==
  ASSUME IInv, HandleRaiseTimeout
  PROVE  IInv'
<1>. DEFINE h == Head(timeouts)
<1>1. timeouts # << >> /\ timeouts' = Tail(timeouts)
  BY DEF HandleRaiseTimeout
<1>2. timeouts \in Seq(RaiseTimeout)
  BY DEF IInv, TypeOK
<1>3. TimeoutsOrdered /\ TimeoutInFlight /\ TokensBehind
  BY DEF IInv
<1>4. \A i \in DOMAIN timeouts' : timeouts'[i] = timeouts[i + 1] /\ i + 1 \in DOMAIN timeouts
  BY <1>1, TimeoutTail
<1>5. \A i \in DOMAIN timeouts' : i \in Nat /\ timeouts[i + 1].id > h.id
  <2>1. h = timeouts[1] /\ 1 \in DOMAIN timeouts
    BY <1>1, TimeoutTail
  <2>2. DOMAIN timeouts' = 1..(Len(timeouts) - 1) /\ Len(timeouts) \in Nat
    BY <1>1, <1>2, TimeoutTail
  <2>3. \A i \in DOMAIN timeouts : timeouts[i].id \in Nat
    <3>1. \A i \in DOMAIN timeouts : timeouts[i] \in RaiseTimeout
      BY <1>2
    <3>. QED  BY <3>1 DEF RaiseTimeout
  <2>. QED  BY <1>3, <1>4, <2>1, <2>2, <2>3 DEF TimeoutsOrdered
<1>6. \A i, j \in DOMAIN timeouts' : i < j => timeouts'[i].id < timeouts'[j].id
  BY <1>3, <1>4, <1>5 DEF TimeoutsOrdered
<1>7. CASE IsActive(h.id)
  <2>1. active \in ActiveSequence /\ active # NoSequence /\ active.id = h.id
    BY <1>7 DEF IInv, TypeOK, IsActive
  <2>2. active' = [active EXCEPT !.pending = {}, !.token = @ + 1, !.timedOut = FALSE]
        /\ cancelled' = cancelled \cup {TokenOf(active)}
        /\ settling' = TRUE /\ nextId' = nextId
    BY <1>7 DEF HandleRaiseTimeout
  <2>3. active' \in ActiveSequence /\ active' # NoSequence
    <3>1. active.token + 1 \in Nat /\ {} \in SUBSET Window
      BY <2>1 DEF ActiveSequence
    <3>. QED  BY <2>1, <2>2, <3>1, ConstantsAssumption DEF ActiveSequence
  <2>4. active'.id = active.id /\ active'.token = active.token + 1 /\ active'.timedOut = FALSE
        /\ active.id \in Nat /\ active.token \in Nat
    BY <2>1, <2>2 DEF ActiveSequence
  <2>5. cancelled' \subseteq Nat \X Nat
    BY <2>2, <2>4 DEF IInv, TypeOK, TokenOf
  <2>6. TypeOK'
    BY <1>1, <2>2, <2>3, <2>5, TimeoutTail DEF IInv, TypeOK, HandleRaiseTimeout
  <2>7. TokensBehind'
    <3>1. active'.id < nextId'
      BY <1>3, <2>1, <2>2, <2>4 DEF TokensBehind
    <3>2. ASSUME NEW t \in cancelled'
          PROVE  /\ t[1] < nextId'
                 /\ t[1] < active'.id \/ (t[1] = active'.id /\ t[2] < active'.token)
      <4>1. CASE t \in cancelled
        <5>1. t[2] \in Nat
          BY <4>1 DEF IInv, TypeOK
        <5>. QED  BY <1>3, <2>1, <2>2, <2>4, <4>1, <5>1 DEF TokensBehind
      <4>2. CASE t = TokenOf(active)
        BY <1>3, <2>1, <2>2, <2>4, <4>2 DEF TokensBehind, TokenOf
      <4>. QED  BY <2>2, <3>2, <4>1, <4>2
    <3>. QED  BY <3>1, <3>2 DEF TokensBehind
  <2>8. TimeoutsOrdered'
    BY <1>3, <1>4, <1>6, <2>1, <2>2, <2>4 DEF TimeoutsOrdered
  <2>9. TimeoutInFlight'
    BY <1>4, <1>5, <2>1, <2>4 DEF TimeoutInFlight
  <2>. QED  BY <2>2, <2>6, <2>7, <2>8, <2>9 DEF IInv, NeverStuck
<1>8. CASE ~IsActive(h.id)
  <2>1. UNCHANGED <<active, cancelled, nextId>> /\ settling' = TRUE
    BY <1>8 DEF HandleRaiseTimeout
  <2>2. TypeOK'
    BY <1>1, <2>1, TimeoutTail DEF IInv, TypeOK, HandleRaiseTimeout
  <2>3. TokensBehind'
    BY <1>3, <2>1 DEF TokensBehind
  <2>4. TimeoutsOrdered'
    BY <1>3, <1>4, <1>6, <2>1 DEF TimeoutsOrdered
  <2>5. TimeoutInFlight'
    <3>1. \A i \in DOMAIN timeouts : timeouts[i].id = active.id /\ active # NoSequence =>
            i - 1 \in DOMAIN timeouts' /\ i = (i - 1) + 1
      <4>1. h = timeouts[1]
        BY <1>1, TimeoutTail
      <4>2. DOMAIN timeouts = 1..Len(timeouts) /\ Len(timeouts) \in Nat
        BY <1>2
      <4>. QED  BY <1>1, <1>8, <4>1, <4>2, TimeoutTail DEF IsActive
    <3>. QED  BY <1>3, <1>4, <2>1, <3>1 DEF TimeoutInFlight
  <2>. QED  BY <2>1, <2>2, <2>3, <2>4, <2>5 DEF IInv, NeverStuck
<1>. QED  BY <1>7, <1>8

(* Taking a request from the queue starts a sequence with a fresh id. *)
LEMMA QueuedStep ==
  ASSUME IInv, ProcessQueuedResponses
  PROVE  IInv'
<1>. DEFINE r == Head(queued)
<1>1. nextId \in Nat /\ nextId # 0 /\ queued \in Seq(Requests) /\ queued # << >>
      /\ timeouts \in Seq(RaiseTimeout)
  BY DEF IInv, TypeOK, ProcessQueuedResponses
<1>2. r \in Requests /\ Tail(queued) \in Seq(Requests)
  BY <1>1
<1>3. NewSequence(r) \in ActiveSequence
  BY <1>1, <1>2, NewSequenceType
<1>4. NewSequence(r).id = nextId /\ NewSequence(r).timedOut = FALSE
  BY DEF NewSequence
<1>. HIDE DEF r
<1>5. /\ active' = NewSequence(r) \/ active' = NoSequence
      /\ appQ' = [a \in App |-> appQ[a] \o SentTo(r, a, nextId)]
      /\ queued' = Tail(queued) /\ nextId' = nextId + 1 /\ settling
      /\ UNCHANGED <<settling, cancelled, timeouts, warped, open>>
  BY DEF ProcessQueuedResponses, r
<1>6. active' \in ActiveSequence \cup {NoSequence}
  BY <1>3, <1>5
<1>7. active' # NoSequence => active'.id = nextId /\ active'.timedOut = FALSE
  BY <1>4, <1>5
<1>8. appQ' \in [App -> Seq(Raise)]
  <2>1. \A a \in App : appQ[a] \in Seq(Raise) /\ SentTo(r, a, nextId) \in Seq(Raise)
    BY <1>1, <1>2, SentToType DEF IInv, TypeOK
  <2>2. \A a \in App : appQ[a] \o SentTo(r, a, nextId) \in Seq(Raise)
    BY <2>1
  <2>. QED  BY <1>5, <2>2
<1>9. nextId' \in Nat \ {0}
  BY <1>1, <1>5
<1>10. TypeOK'
  BY <1>2, <1>5, <1>6, <1>8, <1>9 DEF IInv, TypeOK
<1>11. TokensBehind'
  <2>1. \A t \in cancelled : t[1] \in Nat /\ t[1] < nextId
    BY DEF IInv, TypeOK, TokensBehind
  <2>. QED  BY <1>1, <1>5, <1>7, <2>1 DEF TokensBehind
<1>12. \A i \in DOMAIN timeouts : timeouts[i].id \in Nat /\ timeouts[i].id < nextId
  <2>1. \A i \in DOMAIN timeouts : timeouts[i] \in RaiseTimeout
    BY <1>1
  <2>. QED  BY <2>1 DEF IInv, TimeoutsOrdered, RaiseTimeout
<1>13. TimeoutsOrdered'
  BY <1>1, <1>5, <1>7, <1>12 DEF IInv, TimeoutsOrdered
<1>14. TimeoutInFlight'
  BY <1>1, <1>5, <1>7, <1>12 DEF TimeoutInFlight
<1>. QED  BY <1>5, <1>10, <1>11, <1>13, <1>14 DEF IInv, NeverStuck

(* Sending the focus raise leaves the sequence, or ends it. *)
LEMMA FocusStep ==
  ASSUME IInv, SendFocus
  PROVE  IInv'
<1>. DEFINE a == Owner[Head(active.focus)]
<1>1. active \in ActiveSequence /\ active # NoSequence /\ active.focus # << >>
  BY DEF IInv, TypeOK, SendFocus, FocusDue
<1>2. /\ active.focus \in Seq(Window) /\ ToSet(active.focus) \subseteq Window
      /\ active.id \in Nat /\ active.token \in Nat
  BY <1>1 DEF ActiveSequence, ToSet
<1>3. a \in App
  BY <1>1, <1>2, ConstantsAssumption
<1>4. settling /\ UNCHANGED <<queued, nextId, settling, cancelled, timeouts, open>>
  BY DEF SendFocus
<1>5. warped' \in Nat
  BY <1>2 DEF IInv, TypeOK, SendFocus
<1>6. CASE Reachable(active, a)
  <2>1. active' = [active EXCEPT !.pending = ToSet(active.focus), !.focus = << >>]
        /\ appQ' = [appQ EXCEPT ![a] = Append(@, FocusRaise)]
    BY <1>6 DEF SendFocus
  <2>2. active' \in ActiveSequence /\ active' # NoSequence
    <3>1. << >> \in Seq(Window)
      OBVIOUS
    <3>. QED  BY <1>1, <1>2, <2>1, <3>1, ConstantsAssumption DEF ActiveSequence
  <2>3. active'.id = active.id /\ active'.token = active.token
        /\ active'.timedOut = active.timedOut
    BY <1>1, <2>1 DEF ActiveSequence
  <2>4. FocusRaise \in Raise
    BY <1>2 DEF FocusRaise, Raise, TokenOf
  <2>5. appQ' \in [App -> Seq(Raise)]
    <3>1. appQ \in [App -> Seq(Raise)] /\ Append(appQ[a], FocusRaise) \in Seq(Raise)
      BY <1>3, <2>4 DEF IInv, TypeOK
    <3>. QED  BY <1>3, <2>1, <3>1
  <2>6. TypeOK'
    BY <1>4, <1>5, <2>2, <2>5 DEF IInv, TypeOK
  <2>. QED
    BY <1>1, <1>4, <2>2, <2>3, <2>6
       DEF IInv, NeverStuck, TokensBehind, TimeoutsOrdered, TimeoutInFlight
<1>7. CASE ~Reachable(active, a)
  <2>1. active' = NoSequence /\ appQ' = appQ
    BY <1>7 DEF SendFocus
  <2>2. TypeOK'
    BY <1>4, <1>5, <2>1 DEF IInv, TypeOK
  <2>. QED
    BY <1>4, <2>1, <2>2
       DEF IInv, NeverStuck, TokensBehind, TimeoutsOrdered, TimeoutInFlight
<1>. QED  BY <1>6, <1>7

(* Ending a sequence leaves nothing to wait for. *)
LEMMA EndStep ==
  ASSUME IInv, EndSequence
  PROVE  IInv'
BY DEF EndSequence, IInv, TypeOK, NeverStuck, TokensBehind, TimeoutsOrdered, TimeoutInFlight

(* The loop ends only when the manager is not stuck. *)
LEMMA SettledStep ==
  ASSUME IInv, Settled
  PROVE  IInv'
BY DEF Settled, IInv, TypeOK, NeverStuck, TokensBehind, TimeoutsOrdered, TimeoutInFlight

(* A timeout joins the others behind, and is the only one of its sequence. *)
LEMMA TimerStep ==
  ASSUME IInv, TimerFires
  PROVE  IInv'
<1>. DEFINE e == [id |-> active.id]
<1>1. active \in ActiveSequence /\ active # NoSequence /\ ~active.timedOut
  BY DEF IInv, TypeOK, TimerFires
<1>2. active' = [active EXCEPT !.timedOut = TRUE] /\ timeouts' = Append(timeouts, e)
      /\ UNCHANGED <<queued, nextId, settling, cancelled, warped, appQ, open>>
  BY DEF TimerFires
<1>3. active' \in ActiveSequence /\ active' # NoSequence
  BY <1>1, <1>2, ConstantsAssumption DEF ActiveSequence
<1>4. active'.id = active.id /\ active'.token = active.token /\ active'.timedOut
      /\ active'.pending = active.pending /\ active.id \in Nat
  BY <1>1, <1>2 DEF ActiveSequence
<1>5. timeouts \in Seq(RaiseTimeout) /\ e \in RaiseTimeout /\ e.id = active.id
  BY <1>1 DEF IInv, TypeOK, RaiseTimeout, ActiveSequence
<1>. HIDE DEF e
<1>6. /\ timeouts' \in Seq(RaiseTimeout) /\ Len(timeouts) \in Nat
      /\ DOMAIN timeouts = 1..Len(timeouts)
      /\ DOMAIN timeouts' = 1..(Len(timeouts) + 1)
      /\ \A i \in DOMAIN timeouts : timeouts'[i] = timeouts[i]
      /\ timeouts'[Len(timeouts) + 1] = e
  BY <1>2, <1>5
<1>7. \A i \in DOMAIN timeouts : timeouts[i].id \in Nat /\ timeouts[i].id < active.id
  <2>1. \A i \in DOMAIN timeouts : timeouts[i] \in RaiseTimeout
    BY <1>5
  <2>2. \A i \in DOMAIN timeouts : timeouts[i].id \in Nat
    BY <2>1 DEF RaiseTimeout
  <2>3. \A i \in DOMAIN timeouts : timeouts[i].id <= active.id
    BY <1>1 DEF IInv, TimeoutsOrdered
  <2>4. \A i \in DOMAIN timeouts : timeouts[i].id # active.id
    BY <1>1 DEF IInv, TimeoutInFlight
  <2>. QED  BY <1>4, <2>2, <2>3, <2>4
<1>8. TypeOK'
  BY <1>2, <1>3, <1>6 DEF IInv, TypeOK
<1>9. NeverStuck'
  BY <1>1, <1>2, <1>3, <1>4 DEF IInv, NeverStuck
<1>10. TokensBehind'
  BY <1>1, <1>2, <1>3, <1>4 DEF IInv, TokensBehind
<1>11. TimeoutsOrdered'
  <2>1. active.id < nextId /\ nextId' = nextId
    BY <1>1, <1>2 DEF IInv, TokensBehind
  <2>2. ASSUME NEW i \in DOMAIN timeouts'
        PROVE  timeouts'[i].id < nextId' /\ timeouts'[i].id <= active'.id
    <3>1. CASE i \in DOMAIN timeouts
      <4>1. timeouts'[i].id \in Nat /\ timeouts'[i].id < active.id
        BY <1>6, <1>7, <3>1
      <4>2. timeouts'[i].id < nextId
        BY <1>6, <3>1 DEF IInv, TimeoutsOrdered
      <4>. QED  BY <1>4, <2>1, <4>1, <4>2
    <3>2. CASE i = Len(timeouts) + 1
      BY <1>4, <1>5, <1>6, <2>1, <3>2
    <3>. QED  BY <1>6, <2>2, <3>1, <3>2
  <2>3. ASSUME NEW i \in DOMAIN timeouts', NEW j \in DOMAIN timeouts', i < j
        PROVE  timeouts'[i].id < timeouts'[j].id
    <3>1. i \in DOMAIN timeouts
      BY <1>6, <2>3
    <3>2. CASE j \in DOMAIN timeouts
      BY <1>6, <2>3, <3>1, <3>2 DEF IInv, TimeoutsOrdered
    <3>3. CASE j = Len(timeouts) + 1
      BY <1>4, <1>5, <1>6, <1>7, <3>1, <3>3
    <3>. QED  BY <1>6, <2>3, <3>2, <3>3
  <2>. QED  BY <2>2, <2>3 DEF TimeoutsOrdered
<1>12. TimeoutInFlight'
  <2>1. Len(timeouts) + 1 \in DOMAIN timeouts'
        /\ timeouts'[Len(timeouts) + 1].id = active'.id
    BY <1>4, <1>5, <1>6
  <2>. QED  BY <1>4, <2>1 DEF TimeoutInFlight
<1>. QED  BY <1>8, <1>9, <1>10, <1>11, <1>12 DEF IInv

(* Nothing an app does concerns the manager's state. *)
LEMMA AppStep ==
  ASSUME IInv, NEW a \in App, AppTakes(a) \/ AppExits(a)
  PROVE  IInv'
<1>1. UNCHANGED rmVars
  BY DEF AppTakes, AppExits
<1>2. appQ \in [App -> Seq(Raise)]
  BY DEF IInv, TypeOK
<1>3. appQ' \in [App -> Seq(Raise)] /\ open' \subseteq App
  <2>1. CASE AppTakes(a)
    <3>1. appQ[a] \in Seq(Raise) /\ appQ[a] # << >>
      BY <1>2, <2>1 DEF AppTakes
    <3>2. Tail(appQ[a]) \in Seq(Raise)
      BY <3>1
    <3>. QED  BY <1>2, <2>1, <3>2 DEF AppTakes, IInv, TypeOK
  <2>2. CASE AppExits(a)
    <3>1. << >> \in Seq(Raise)
      OBVIOUS
    <3>. QED  BY <1>2, <2>2, <3>1 DEF AppExits, IInv, TypeOK
  <2>. QED  BY <2>1, <2>2
<1>. QED
  BY <1>1, <1>3
     DEF rmVars, IInv, TypeOK, NeverStuck, TokensBehind, TimeoutsOrdered, TimeoutInFlight

-----------------------------------------------------------------------------
(* The invariant is inductive. *)
LEMMA NextIInv == IInv /\ [Next]_vars => IInv'
<1>. SUFFICES ASSUME IInv, [Next]_vars PROVE IInv'
  OBVIOUS
<1>1. ASSUME NEW r \in Requests, HandleRaiseRequest(r) PROVE IInv'
  BY <1>1, RequestStep
<1>2. ASSUME NEW w \in Window, NEW id \in 1..MaxSeq, HandleRaiseCompleted(w, id) PROVE IInv'
  BY <1>2, AnsweredStep DEF HandleRaiseCompleted
<1>3. ASSUME NEW ws \in SUBSET Window, NEW id \in 1..MaxSeq, HandleRaiseRequestFailed(ws, id)
      PROVE  IInv'
  BY <1>3, AnsweredStep DEF HandleRaiseRequestFailed
<1>4. CASE HandleRaiseTimeout
  BY <1>4, TimeoutStep
<1>5. CASE Settle
  BY <1>5, FocusStep, EndStep, QueuedStep, SettledStep DEF Settle, ProcessActiveSequence
<1>6. CASE TimerFires
  BY <1>6, TimerStep
<1>7. ASSUME NEW a \in App, AppTakes(a) \/ AppExits(a) PROVE IInv'
  BY <1>7, AppStep
<1>8. CASE UNCHANGED vars
  BY <1>8 DEF vars, rmVars, IInv, TypeOK, NeverStuck, TokensBehind, TimeoutsOrdered,
              TimeoutInFlight
<1>. QED  BY <1>1, <1>2, <1>3, <1>4, <1>5, <1>6, <1>7, <1>8 DEF Next

(* The inductive invariant holds of every reachable state of the manager. *)
THEOREM InductiveInvariant == Spec => []IInv
BY InitIInv, NextIInv, PTL DEF Spec

(* Every variable of the raise manager keeps its type. *)
THEOREM TypeCorrect == Spec => []TypeOK
<1>1. IInv => TypeOK
  BY DEF IInv
<1>. QED  BY <1>1, InductiveInvariant, PTL

(* The loop of handle_message never leaves the manager with work it could  *)
(* do and nothing to wake it.                                              *)
THEOREM NeverStuckHolds == Spec => []NeverStuck
<1>1. IInv => NeverStuck
  BY DEF IInv
<1>. QED  BY <1>1, InductiveInvariant, PTL

(* The focus raise never goes out with a cancelled token. *)
THEOREM LiveTokenHolds == Spec => []LiveToken
<1>1. IInv => LiveToken
  <2>. SUFFICES ASSUME IInv, active # NoSequence PROVE TokenOf(active) \notin cancelled
    BY DEF LiveToken
  <2>1. active \in ActiveSequence
    BY DEF IInv, TypeOK
  <2>2. active.id \in Nat /\ active.token \in Nat
    BY <2>1 DEF ActiveSequence
  <2>. QED  BY <2>2 DEF IInv, TokensBehind, TokenOf
<1>. QED  BY <1>1, InductiveInvariant, PTL

(* A sequence whose timer was disarmed has its timeout on the way. *)
THEOREM TimeoutInFlightHolds == Spec => []TimeoutInFlight
<1>1. IInv => TimeoutInFlight
  BY DEF IInv
<1>. QED  BY <1>1, InductiveInvariant, PTL

(* The manager always waits for something that comes. *)
THEOREM ManagerSoundHolds == Spec => []ManagerSound
<1>1. NeverStuck /\ LiveToken /\ TimeoutInFlight => ManagerSound
  BY DEF ManagerSound
<1>. QED  BY <1>1, NeverStuckHolds, LiveTokenHolds, TimeoutInFlightHolds, PTL

-----------------------------------------------------------------------------
(* With its app threads. *)

(* A raise that has windows, of a sequence within the bound. *)
GoodRaise == {r \in Raise : r.wids # << >> /\ r.seq \in 1..MaxSeq}

GoodReport == [wids : SUBSET Window, seq : 1..MaxSeq, failed : BOOLEAN]

(* Ids in use are within the bound. *)
SeqBound ==
  /\ nextId + Len(queued) <= MaxSeq + 1
  /\ active # NoSequence => active.id \in 1..MaxSeq

(* Channels hold raises and reports that some request asked for. *)
Channels ==
  /\ appQ \in [App -> Seq(GoodRaise)]
  /\ raises \in [App -> Seq(GoodRaise)]
  /\ reports \in Seq(GoodReport)

(* What the raise task of an app has in hand. *)
TaskOK(a) ==
  /\ pc[a] = "idle" => at[a] = 1 /\ cur[a] = NoRaise
  /\ pc[a] # "idle" => cur[a] \in GoodRaise /\ at[a] \in DOMAIN cur[a].wids
  /\ pc[a] \in {"key", "waiting", "raising"} => Holds(a)

Tasks ==
  /\ pc \in [App -> {"idle", "warm", "warmed", "locking", "key", "waiting", "raising"}]
  /\ cur \in [App -> GoodRaise \cup {NoRaise}]
  /\ at \in [App -> Nat]
  /\ woken \in [App -> BOOLEAN]
  /\ lockQ \in Seq(App)
  /\ \A a \in App : TaskOK(a)

History == key \in [seq : Nat, quiet : BOOLEAN] /\ disturbed \in BOOLEAN

SInv == IInv /\ SeqBound /\ Channels /\ Tasks /\ History

-----------------------------------------------------------------------------
(* The initial state satisfies the invariant. *)
LEMMA SysInitSInv == SysInit => SInv
<1>. SUFFICES ASSUME SysInit PROVE SInv
  OBVIOUS
<1>1. Init
  BY DEF SysInit
<1>2. IInv
  BY <1>1, InitIInv
<1>3. SeqBound
  BY <1>1, ConstantsAssumption DEF Init, RMInit, SeqBound
<1>4. Channels
  <2>1. << >> \in Seq(GoodRaise) /\ << >> \in Seq(GoodReport)
    OBVIOUS
  <2>2. appQ \in [App -> Seq(GoodRaise)]
    BY <1>1, <2>1 DEF Init
  <2>3. raises \in [App -> Seq(GoodRaise)] /\ reports \in Seq(GoodReport)
    BY <2>1 DEF SysInit
  <2>. QED  BY <2>2, <2>3 DEF Channels
<1>5. Tasks
  <2>1. \A a \in App : pc[a] = "idle" /\ at[a] = 1 /\ cur[a] = NoRaise
    BY DEF SysInit
  <2>2. \A a \in App : TaskOK(a)
    BY <2>1 DEF TaskOK
  <2>3. pc \in [App -> {"idle"}] /\ cur \in [App -> {NoRaise}] /\ at \in [App -> {1}]
        /\ woken \in [App -> {FALSE}]
    BY DEF SysInit
  <2>4. lockQ \in Seq(App)
    BY DEF SysInit
  <2>5. pc \in [App -> {"idle", "warm", "warmed", "locking", "key", "waiting", "raising"}]
    BY <2>3
  <2>6. cur \in [App -> GoodRaise \cup {NoRaise}]
    BY <2>3
  <2>7. at \in [App -> Nat]
    BY <2>3
  <2>8. woken \in [App -> BOOLEAN]
    BY <2>3, Zenon
  <2>. QED  BY <2>2, <2>4, <2>5, <2>6, <2>7, <2>8 DEF Tasks
<1>6. History
  BY DEF SysInit, History
<1>. QED  BY <1>2, <1>3, <1>4, <1>5, <1>6 DEF SInv

-----------------------------------------------------------------------------
(* The raises a request sends to an app have windows. *)
LEMMA SentToGood ==
  ASSUME NEW r \in Requests, NEW a \in App, NEW id \in 1..MaxSeq
  PROVE  SentTo(r, a, id) \in Seq(GoodRaise)
<1>. DEFINE S == {b \in Sent(r) : Owner[Head(b)] = a}
            bs == SetToSeq(S)
<1>1. r \in RaiseRequest /\ IsFiniteSet(r.raise) /\ \A b \in r.raise : b # << >>
  BY RequestsAssumption
<1>2. S \subseteq r.raise /\ S \subseteq Seq(Window)
  BY <1>1 DEF Sent, RaiseRequest
<1>3. IsFiniteSet(S)
  BY <1>1, <1>2, FS_Subset
<1>4. bs \in Seq(S)
  BY <1>3, SetToSeqType
<1>5. \A b \in S : b \in Seq(Window) /\ b # << >>
  BY <1>1, <1>2
<1>. HIDE DEF bs, S
<1>6. \A i \in DOMAIN bs : bs[i] \in S
  BY <1>4
<1>7. id \in Nat
  BY ConstantsAssumption
<1>8. \A i \in DOMAIN bs : RaiseOf(bs[i], id) \in GoodRaise
  BY <1>5, <1>6, <1>7 DEF RaiseOf, Raise, GoodRaise
<1>9. [i \in DOMAIN bs |-> RaiseOf(bs[i], id)] \in Seq(GoodRaise)
  BY <1>4, <1>8
<1>. QED  BY <1>9 DEF SentTo, bs, S

(* What the manager does keeps ids within the bound and sends good raises. *)
LEMMA ManagerStep ==
  ASSUME IInv, SeqBound, appQ \in [App -> Seq(GoodRaise)],
         \/ \E r \in Requests : HandleRaiseRequest(r)
         \/ \E ws, id : Answered(ws, id)
         \/ HandleRaiseTimeout
         \/ Settle
         \/ TimerFires
  PROVE  SeqBound' /\ appQ' \in [App -> Seq(GoodRaise)]
<1>1. /\ queued \in Seq(Requests) /\ nextId \in Nat \ {0} /\ MaxSeq \in Nat
      /\ active \in ActiveSequence \cup {NoSequence}
      /\ Len(queued) \in Nat
  BY ConstantsAssumption DEF IInv, TypeOK
<1>2. ASSUME NEW r \in Requests, HandleRaiseRequest(r)
      PROVE  SeqBound' /\ appQ' \in [App -> Seq(GoodRaise)]
  <2>1. nextId + Len(queued) <= MaxSeq /\ UNCHANGED <<nextId, active, appQ>>
    BY <1>2 DEF HandleRaiseRequest
  <2>2. Len(queued') <= Len(queued) + 1 /\ Len(queued') \in Nat
    BY <1>1, <1>2 DEF HandleRaiseRequest
  <2>. QED  BY <1>1, <2>1, <2>2 DEF SeqBound
<1>3. ASSUME active # NoSequence, active'.id = active.id,
             UNCHANGED <<nextId, queued, appQ>>
      PROVE  SeqBound' /\ appQ' \in [App -> Seq(GoodRaise)]
  BY <1>3 DEF SeqBound
<1>4. ASSUME active' = NoSequence \/ active' = active, UNCHANGED <<nextId, queued, appQ>>
      PROVE  SeqBound' /\ appQ' \in [App -> Seq(GoodRaise)]
  BY <1>4 DEF SeqBound
<1>5. ASSUME NEW ws, NEW id, Answered(ws, id)
      PROVE  SeqBound' /\ appQ' \in [App -> Seq(GoodRaise)]
  <2>1. UNCHANGED <<nextId, queued, appQ>>
    BY <1>5 DEF Answered
  <2>2. CASE IsActive(id)
    <3>1. active' = [active EXCEPT !.pending = @ \ ws] /\ active # NoSequence
      BY <1>5, <2>2 DEF Answered, IsActive
    <3>2. active'.id = active.id
      BY <1>1, <3>1 DEF ActiveSequence
    <3>. QED  BY <1>3, <2>1, <3>1, <3>2
  <2>3. CASE ~IsActive(id)
    BY <1>4, <1>5, <2>1, <2>3 DEF Answered
  <2>. QED  BY <2>2, <2>3
<1>6. CASE HandleRaiseTimeout
  <2>1. UNCHANGED <<nextId, queued, appQ>>
    BY <1>6 DEF HandleRaiseTimeout
  <2>2. CASE IsActive(Head(timeouts).id)
    <3>1. active' = [active EXCEPT !.pending = {}, !.token = @ + 1, !.timedOut = FALSE]
          /\ active # NoSequence
      BY <1>6, <2>2 DEF HandleRaiseTimeout, IsActive
    <3>2. active'.id = active.id
      BY <1>1, <3>1 DEF ActiveSequence
    <3>. QED  BY <1>3, <2>1, <3>1, <3>2
  <2>3. CASE ~IsActive(Head(timeouts).id)
    BY <1>4, <1>6, <2>1, <2>3 DEF HandleRaiseTimeout
  <2>. QED  BY <2>2, <2>3
<1>7. CASE TimerFires
  <2>1. active' = [active EXCEPT !.timedOut = TRUE] /\ active # NoSequence
        /\ UNCHANGED <<nextId, queued, appQ>>
    BY <1>7 DEF TimerFires
  <2>2. active'.id = active.id
    BY <1>1, <2>1 DEF ActiveSequence
  <2>. QED  BY <1>3, <2>1, <2>2
<1>8. CASE ProcessQueuedResponses
  <2>. DEFINE r == Head(queued)
  <2>1. queued # << >> /\ queued' = Tail(queued) /\ nextId' = nextId + 1
        /\ appQ' = [a \in App |-> appQ[a] \o SentTo(r, a, nextId)]
        /\ (active' = NewSequence(r) \/ active' = NoSequence)
    BY <1>8 DEF ProcessQueuedResponses
  <2>2. Len(queued) > 0 /\ Len(queued') = Len(queued) - 1 /\ r \in Requests
    BY <1>1, <2>1
  <2>3. nextId \in 1..MaxSeq
    BY <1>1, <2>2 DEF SeqBound
  <2>4. NewSequence(r).id = nextId
    BY DEF NewSequence
  <2>. HIDE DEF r
  <2>5. SeqBound'
    BY <1>1, <2>1, <2>2, <2>3, <2>4 DEF SeqBound
  <2>6. \A a \in App : appQ[a] \o SentTo(r, a, nextId) \in Seq(GoodRaise)
    <3>1. \A a \in App : appQ[a] \in Seq(GoodRaise) /\ SentTo(r, a, nextId) \in Seq(GoodRaise)
      BY <2>2, <2>3, SentToGood
    <3>. QED  BY <3>1
  <2>. QED  BY <2>1, <2>5, <2>6
<1>9. CASE SendFocus
  <2>. DEFINE a == Owner[Head(active.focus)]
  <2>1. active \in ActiveSequence /\ active # NoSequence /\ active.focus # << >>
        /\ UNCHANGED <<nextId, queued>>
    BY <1>1, <1>9 DEF SendFocus, FocusDue
  <2>2. CASE Reachable(active, a)
    <3>1. active' = [active EXCEPT !.pending = ToSet(active.focus), !.focus = << >>]
          /\ appQ' = [appQ EXCEPT ![a] = Append(@, FocusRaise)]
      BY <1>9, <2>2 DEF SendFocus
    <3>2. active'.id = active.id /\ active.id \in 1..MaxSeq /\ active.id \in Nat
      BY <2>1, <3>1 DEF ActiveSequence, SeqBound
    <3>3. active.focus \in Seq(Window) /\ active.token \in Nat
      BY <2>1 DEF ActiveSequence
    <3>4. FocusRaise \in GoodRaise
      BY <2>1, <3>2, <3>3 DEF FocusRaise, GoodRaise, Raise, TokenOf
    <3>5. a \in App
      BY <2>1, <3>3, ConstantsAssumption
    <3>6. Append(appQ[a], FocusRaise) \in Seq(GoodRaise)
      BY <3>4, <3>5
    <3>7. appQ' \in [App -> Seq(GoodRaise)]
      BY <3>1, <3>5, <3>6
    <3>8. SeqBound'
      BY <2>1, <3>2 DEF SeqBound
    <3>. QED  BY <3>7, <3>8
  <2>3. CASE ~Reachable(active, a)
    BY <1>4, <1>9, <2>1, <2>3 DEF SendFocus
  <2>. QED  BY <2>2, <2>3
<1>10. CASE EndSequence \/ Settled
  BY <1>4, <1>10 DEF EndSequence, Settled
<1>. QED
  BY <1>2, <1>5, <1>6, <1>7, <1>8, <1>9, <1>10 DEF Settle, ProcessActiveSequence

-----------------------------------------------------------------------------
(* Joining a line leaves its head in place. *)
LEMMA AppendHead ==
  ASSUME NEW S, NEW q \in Seq(S), NEW e \in S
  PROVE  /\ Append(q, e) \in Seq(S) /\ Append(q, e) # << >>
         /\ q # << >> => Head(Append(q, e)) = Head(q)
<1>1. Append(q, e) \in Seq(S) /\ Len(Append(q, e)) = Len(q) + 1 /\ Len(q) \in Nat
  OBVIOUS
<1>2. ASSUME q # << >> PROVE Head(Append(q, e)) = Head(q)
  <2>1. 1 \in 1..Len(q) /\ Append(q, e)[1] = q[1]
    BY <1>2
  <2>. QED  BY <1>1, <1>2, <2>1
<1>3. Append(q, e) # << >>
  BY <1>1
<1>. QED  BY <1>1, <1>2, <1>3

PC == {"idle", "warm", "warmed", "locking", "key", "waiting", "raising"}

(* A step of one raise task concerns that task only, and others keep the   *)
(* lock they hold.                                                         *)
LEMMA TasksStep ==
  ASSUME Tasks, NEW a \in App,
         pc' \in [App -> PC],
         cur' \in [App -> GoodRaise \cup {NoRaise}],
         at' \in [App -> Nat],
         woken' \in [App -> BOOLEAN],
         \A b \in App \ {a} : pc'[b] = pc[b] /\ cur'[b] = cur[b] /\ at'[b] = at[b],
         \/ lockQ' = lockQ
         \/ lockQ' = Append(lockQ, a)
         \/ Holds(a) /\ lockQ' = Tail(lockQ),
         TaskOK(a)'
  PROVE  Tasks'
<1>1. lockQ \in Seq(App)
  BY DEF Tasks
<1>2. lockQ' \in Seq(App)
  <2>1. CASE lockQ' = Append(lockQ, a)
    BY <1>1, <2>1, AppendHead
  <2>2. CASE Holds(a) /\ lockQ' = Tail(lockQ)
    BY <1>1, <2>2 DEF Holds
  <2>. QED  BY <1>1, <2>1, <2>2
<1>3. ASSUME NEW b \in App \ {a}, Holds(b) PROVE Holds(b)'
  <2>1. lockQ # << >> /\ Head(lockQ) = b /\ ~Holds(a)
    BY <1>3 DEF Holds
  <2>2. CASE lockQ' = Append(lockQ, a)
    BY <1>1, <2>1, <2>2, AppendHead DEF Holds
  <2>. QED  BY <2>1, <2>2 DEF Holds
<1>4. ASSUME NEW b \in App \ {a} PROVE TaskOK(b)'
  <2>1. TaskOK(b)
    BY DEF Tasks
  <2>. QED  BY <1>3, <2>1 DEF TaskOK
<1>. QED  BY <1>2, <1>4 DEF Tasks, PC

(* A task that returns has nothing in hand and does not hold the lock. *)
LEMMA ReturnStep ==
  ASSUME Tasks, NEW a \in App, Return(a)
  PROVE  Tasks'
<1>1. /\ pc' = [pc EXCEPT ![a] = "idle"]
      /\ cur' = [cur EXCEPT ![a] = NoRaise]
      /\ at' = [at EXCEPT ![a] = 1]
      /\ woken' = [woken EXCEPT ![a] = FALSE]
  BY DEF Return, Goto
<1>2. pc \in [App -> PC] /\ cur \in [App -> GoodRaise \cup {NoRaise}]
      /\ at \in [App -> Nat] /\ woken \in [App -> BOOLEAN]
  BY DEF Tasks, PC
<1>3. pc' \in [App -> PC] /\ cur' \in [App -> GoodRaise \cup {NoRaise}]
      /\ at' \in [App -> Nat] /\ woken' \in [App -> BOOLEAN]
  BY <1>1, <1>2 DEF PC
<1>4. lockQ' = lockQ \/ (Holds(a) /\ lockQ' = Tail(lockQ))
  BY DEF Return, Release
<1>5. pc'[a] = "idle" /\ cur'[a] = NoRaise /\ at'[a] = 1
  BY <1>1, <1>2
<1>6. TaskOK(a)'
  BY <1>5 DEF TaskOK
<1>7. \A b \in App \ {a} : pc'[b] = pc[b] /\ cur'[b] = cur[b] /\ at'[b] = at[b]
  BY <1>1, <1>2
<1>. QED  BY <1>3, <1>4, <1>6, <1>7, TasksStep

(* So does a task that only moves on, if it holds the lock where it must. *)
LEMMA GotoStep ==
  ASSUME Tasks, NEW a \in App, NEW l \in PC \ {"idle"}, Goto(a, l),
         pc[a] # "idle", UNCHANGED <<cur, at, woken>>,
         lockQ' = lockQ \/ lockQ' = Append(lockQ, a),
         l \in {"key", "waiting", "raising"} => Holds(a)
  PROVE  Tasks'
<1>1. pc \in [App -> PC] /\ cur \in [App -> GoodRaise \cup {NoRaise}]
      /\ at \in [App -> Nat] /\ woken \in [App -> BOOLEAN] /\ TaskOK(a) /\ lockQ \in Seq(App)
  BY DEF Tasks, PC
<1>2. pc' = [pc EXCEPT ![a] = l]
  BY DEF Goto
<1>3. pc' \in [App -> PC] /\ pc'[a] = l
  BY <1>1, <1>2
<1>4. Holds(a) => Holds(a)'
  <2>1. CASE lockQ' = Append(lockQ, a)
    BY <1>1, <2>1, AppendHead DEF Holds
  <2>. QED  BY <2>1 DEF Holds
<1>5. TaskOK(a)'
  BY <1>1, <1>3, <1>4 DEF TaskOK
<1>. QED  BY <1>1, <1>2, <1>3, <1>5, TasksStep

(* Reporting one window, or the failure of all, makes a good report. *)
LEMMA ReportStep ==
  ASSUME Tasks, reports \in Seq(GoodReport), NEW a \in App, pc[a] # "idle",
         Completed(a) \/ Fail(a)
  PROVE  reports' \in Seq(GoodReport)
<1>1. cur[a] \in GoodRaise /\ at[a] \in DOMAIN cur[a].wids
  BY DEF Tasks, TaskOK
<1>2. cur[a].wids \in Seq(Window) /\ cur[a].seq \in 1..MaxSeq
  BY <1>1 DEF GoodRaise, Raise
<1>3. {cur[a].wids[at[a]]} \in SUBSET Window /\ ToSet(cur[a].wids) \in SUBSET Window
  BY <1>1, <1>2 DEF ToSet
<1>4. \E r \in GoodReport : reports' = Append(reports, r)
  <2>1. CASE Completed(a)
    BY <1>2, <1>3, <2>1 DEF Completed, GoodReport
  <2>2. CASE Fail(a)
    BY <1>2, <1>3, <2>2 DEF Fail, GoodReport
  <2>. QED  BY <2>1, <2>2
<1>. QED  BY <1>4, AppendHead

-----------------------------------------------------------------------------
(* Every step of the system is a step of the raise manager, or none.       *)
LEMMA StepSimulation ==
  ASSUME SInv, [SysNext]_sysVars
  PROVE  [Next]_vars
<1>1. CASE Manager
  BY <1>1 DEF Manager, Next
<1>2. CASE TakeReport
  <2>. DEFINE e == Head(reports)
  <2>1. reports \in Seq(GoodReport) /\ reports # << >> /\ Report(e)
    BY <1>2 DEF SInv, Channels, TakeReport
  <2>2. e \in GoodReport
    BY <2>1
  <2>. HIDE DEF e
  <2>3. e.seq \in 1..MaxSeq /\ e.wids \in SUBSET Window
    BY <2>2 DEF GoodReport
  <2>4. CASE e.failed
    BY <2>1, <2>3, <2>4 DEF Report, Next
  <2>5. CASE ~e.failed
    BY <2>1, <2>3, <2>5 DEF Report, Next
  <2>. QED  BY <2>4, <2>5
<1>3. CASE TimeOut
  BY <1>3 DEF TimeOut, Next
<1>4. ASSUME NEW a \in App, PassRaise(a) \/ EndIncoming(a) PROVE Next
  BY <1>4 DEF PassRaise, EndIncoming, Next
<1>5. ASSUME NEW a \in App, Activation(a) \/ RaiseTask(a) PROVE UNCHANGED vars
  BY <1>5 DEF Activation, RaiseTask, StartRaise, WarmUp, GetInLine, Locked, MakeKey,
              WaitForActivation, RaiseWindow
<1>6. CASE UNCHANGED sysVars
  BY <1>6 DEF sysVars
<1>. QED  BY <1>1, <1>2, <1>3, <1>4, <1>5, <1>6 DEF SysNext

(* Steps of the manager, and those that only pass a request on. *)
LEMMA ManagerSInv ==
  ASSUME SInv, IInv',
         \/ Manager \/ TakeReport \/ TimeOut
  PROVE  SInv'
<1>1. IInv /\ SeqBound /\ appQ \in [App -> Seq(GoodRaise)] /\ reports \in Seq(GoodReport)
  BY DEF SInv, Channels
<1>2. UNCHANGED appVars /\ disturbed' \in BOOLEAN
  BY DEF Manager, TakeReport, TimeOut, SInv, History
<1>3. reports' \in Seq(GoodReport)
  BY <1>1 DEF Manager, TakeReport, TimeOut
<1>4. SeqBound' /\ appQ' \in [App -> Seq(GoodRaise)]
  <2>1. CASE Manager
    BY <1>1, <2>1, ManagerStep DEF Manager
  <2>2. CASE TakeReport
    <3>1. \E ws, id : Answered(ws, id)
      BY <2>2 DEF TakeReport, Report, HandleRaiseCompleted, HandleRaiseRequestFailed
    <3>. QED  BY <1>1, <3>1, ManagerStep
  <2>3. CASE TimeOut
    BY <1>1, <2>3, ManagerStep DEF TimeOut
  <2>. QED  BY <2>1, <2>2, <2>3
<1>5. Channels'
  BY <1>2, <1>3, <1>4 DEF SInv, Channels, appVars
<1>6. Tasks'
  BY <1>2 DEF SInv, Tasks, TaskOK, Holds, appVars
<1>7. History'
  BY <1>2 DEF SInv, History, appVars
<1>. QED  BY <1>4, <1>5, <1>6, <1>7 DEF SInv

(* The incoming task hands on what it was sent, or ends. *)
LEMMA IncomingSInv ==
  ASSUME SInv, IInv', NEW a \in App, PassRaise(a) \/ EndIncoming(a) \/ Activation(a)
  PROVE  SInv'
<1>1. UNCHANGED <<active, nextId, queued, pc, cur, at, lockQ, reports, key>>
  BY DEF PassRaise, EndIncoming, Activation, AppTakes, AppExits, rmVars, vars, appVars
<1>2. disturbed' \in BOOLEAN
  BY DEF PassRaise, EndIncoming, Activation, SInv, History
<1>3. appQ \in [App -> Seq(GoodRaise)] /\ raises \in [App -> Seq(GoodRaise)]
      /\ woken \in [App -> BOOLEAN]
  BY DEF SInv, Channels, Tasks
<1>4. appQ' \in [App -> Seq(GoodRaise)] /\ raises' \in [App -> Seq(GoodRaise)]
  <2>1. CASE PassRaise(a)
    <3>1. appQ[a] \in Seq(GoodRaise) /\ appQ[a] # << >> /\ raises[a] \in Seq(GoodRaise)
      BY <1>3, <2>1 DEF PassRaise, AppTakes
    <3>2. Tail(appQ[a]) \in Seq(GoodRaise) /\ Append(raises[a], Head(appQ[a])) \in Seq(GoodRaise)
      BY <3>1
    <3>. QED  BY <1>3, <2>1, <3>2 DEF PassRaise, AppTakes
  <2>2. CASE EndIncoming(a)
    <3>1. << >> \in Seq(GoodRaise)
      OBVIOUS
    <3>. QED  BY <1>3, <2>2, <3>1 DEF EndIncoming, AppExits, appVars
  <2>3. CASE Activation(a)
    BY <1>3, <2>3 DEF Activation, vars
  <2>. QED  BY <2>1, <2>2, <2>3
<1>5. woken' \in [App -> BOOLEAN]
  <2>1. CASE Activation(a)
    <3>1. woken' = [woken EXCEPT ![a] = TRUE]
      BY <2>1 DEF Activation
    <3>. QED  BY <1>3, <3>1, Zenon
  <2>2. CASE ~Activation(a)
    BY <1>3, <2>2 DEF PassRaise, EndIncoming, appVars
  <2>. QED  BY <2>1, <2>2
<1>6. Tasks'
  BY <1>1, <1>5 DEF SInv, Tasks, TaskOK, Holds
<1>. QED  BY <1>1, <1>2, <1>4, <1>6 DEF SInv, SeqBound, Channels, History

(* Taking a request puts it in hand, with its first window to raise first. *)
LEMMA StartTasks ==
  ASSUME SInv, NEW a \in App, StartRaise(a)
  PROVE  Tasks' /\ raises' \in [App -> Seq(GoodRaise)]
<1>. DEFINE r == Head(raises[a])
<1>1. raises \in [App -> Seq(GoodRaise)] /\ raises[a] # << >>
  BY DEF SInv, Channels, StartRaise
<1>2. r \in GoodRaise /\ Tail(raises[a]) \in Seq(GoodRaise)
  BY <1>1
<1>3. Tasks /\ TaskOK(a) /\ pc[a] = "idle" /\ at[a] = 1
  BY DEF SInv, Tasks, StartRaise, TaskOK
<1>4. pc \in [App -> PC] /\ cur \in [App -> GoodRaise \cup {NoRaise}]
      /\ at \in [App -> Nat] /\ woken \in [App -> BOOLEAN]
  BY <1>3 DEF Tasks, PC
<1>5. raises' = [raises EXCEPT ![a] = Tail(raises[a])] /\ UNCHANGED <<at, woken, lockQ>>
      /\ \/ UNCHANGED <<pc, cur>>
         \/ cur' = [cur EXCEPT ![a] = r] /\ pc' = [pc EXCEPT ![a] = "warm"]
  BY DEF StartRaise, Goto
<1>6. 1 \in DOMAIN r.wids
  <2>1. r.wids \in Seq(Window) /\ r.wids # << >>
    BY <1>2 DEF GoodRaise, Raise
  <2>. QED  BY <2>1
<1>. HIDE DEF r
<1>7. CASE UNCHANGED <<pc, cur>>
  <2>1. UNCHANGED <<pc, cur, at, woken, lockQ>>
    BY <1>5, <1>7
  <2>2. Tasks'
    BY <1>3, <2>1 DEF Tasks, TaskOK, Holds
  <2>. QED  BY <1>1, <1>2, <1>5, <2>2
<1>8. CASE cur' = [cur EXCEPT ![a] = r] /\ pc' = [pc EXCEPT ![a] = "warm"]
  <2>1. pc' \in [App -> PC] /\ cur' \in [App -> GoodRaise \cup {NoRaise}]
    BY <1>2, <1>4, <1>8 DEF PC
  <2>2. pc'[a] = "warm" /\ cur'[a] = r /\ at'[a] = 1
    BY <1>3, <1>4, <1>5, <1>8
  <2>3. TaskOK(a)'
    BY <1>2, <1>6, <2>2 DEF TaskOK
  <2>4. \A b \in App \ {a} : pc'[b] = pc[b] /\ cur'[b] = cur[b] /\ at'[b] = at[b]
    BY <1>4, <1>5, <1>8
  <2>5. at' \in [App -> Nat] /\ woken' \in [App -> BOOLEAN] /\ lockQ' = lockQ
    BY <1>4, <1>5
  <2>6. Tasks'
    BY <1>3, <2>1, <2>3, <2>4, <2>5, TasksStep
  <2>. QED  BY <1>1, <1>2, <1>5, <2>6
<1>9. raises' \in [App -> Seq(GoodRaise)]
  BY <1>1, <1>2, <1>5
<1>. QED  BY <1>5, <1>7, <1>8, <1>9

(* Every other step of the raise task, from the warm-up to the last window. *)
LEMMA TaskTasks ==
  ASSUME SInv, NEW a \in App,
         \/ WarmUp(a) \/ GetInLine(a) \/ Locked(a)
         \/ MakeKey(a) \/ WaitForActivation(a) \/ RaiseWindow(a)
  PROVE  Tasks' /\ reports' \in Seq(GoodReport)
<1>1. Tasks /\ TaskOK(a) /\ reports \in Seq(GoodReport)
  BY DEF SInv, Tasks, Channels
<1>2. pc[a] # "idle"
  BY DEF WarmUp, GetInLine, Locked, MakeKey, WaitForActivation, RaiseWindow
<1>3. CASE GiveUp(a)
  BY <1>1, <1>3, ReturnStep DEF GiveUp
<1>4. CASE Fail(a)
  BY <1>1, <1>2, <1>4, ReturnStep, ReportStep DEF Fail
<1>5. ASSUME NEW l \in PC \ {"idle"}, Goto(a, l), UNCHANGED <<cur, at, woken, reports>>,
             lockQ' = lockQ \/ lockQ' = Append(lockQ, a),
             l \in {"key", "waiting", "raising"} => Holds(a)
      PROVE  Tasks' /\ reports' \in Seq(GoodReport)
  BY <1>1, <1>2, <1>5, GotoStep
<1>6. CASE WarmUp(a)
  <2>1. CASE Goto(a, "warmed") /\ UNCHANGED <<cur, at, woken, lockQ, reports>>
    BY <1>5, <2>1 DEF PC
  <2>. QED  BY <1>3, <1>4, <1>6, <2>1 DEF WarmUp
<1>7. CASE GetInLine(a)
  BY <1>5, <1>7 DEF GetInLine, PC
<1>8. CASE Locked(a)
  <2>1. CASE Goto(a, "key") /\ UNCHANGED <<cur, at, woken, lockQ, reports>>
    BY <1>5, <1>8, <2>1 DEF Locked, PC
  <2>. QED  BY <1>3, <1>8, <2>1 DEF Locked
<1>9. CASE MakeKey(a)
  <2>1. Holds(a)
    BY <1>1, <1>9 DEF MakeKey, TaskOK
  <2>2. ASSUME NEW l \in {"waiting", "raising"}, Goto(a, l),
               UNCHANGED <<cur, at, woken, lockQ, reports>>
        PROVE  Tasks' /\ reports' \in Seq(GoodReport)
    BY <1>5, <2>1, <2>2 DEF PC
  <2>. QED  BY <1>4, <1>9, <2>2 DEF MakeKey
<1>10. CASE WaitForActivation(a)
  <2>1. Holds(a)
    BY <1>1, <1>10 DEF WaitForActivation, TaskOK
  <2>2. CASE Goto(a, "raising") /\ UNCHANGED <<cur, at, woken, lockQ, reports>>
    BY <1>5, <2>1, <2>2 DEF PC
  <2>. QED  BY <1>3, <1>10, <2>2 DEF WaitForActivation
<1>11. CASE RaiseWindow(a)
  <2>1. CASE Completed(a) /\ at[a] = Len(cur[a].wids) /\ Return(a)
    BY <1>1, <1>2, <2>1, ReturnStep, ReportStep
  <2>2. CASE Completed(a) /\ at[a] # Len(cur[a].wids)
             /\ at' = [at EXCEPT ![a] = @ + 1] /\ UNCHANGED <<pc, cur, woken, lockQ>>
    <3>1. reports' \in Seq(GoodReport)
      BY <1>1, <1>2, <2>2, ReportStep
    <3>2. at \in [App -> Nat] /\ cur[a] \in GoodRaise /\ at[a] \in DOMAIN cur[a].wids
      BY <1>1, <1>2 DEF Tasks, TaskOK
    <3>3. cur[a].wids \in Seq(Window)
      BY <3>2 DEF GoodRaise, Raise
    <3>4. at'[a] \in DOMAIN cur[a].wids /\ at' \in [App -> Nat]
      BY <2>2, <3>2, <3>3
    <3>5. TaskOK(a)'
      BY <1>1, <1>2, <2>2, <3>2, <3>4 DEF TaskOK, Holds
    <3>6. \A b \in App \ {a} : at'[b] = at[b]
      BY <2>2, <3>2
    <3>7. pc' \in [App -> PC] /\ cur' \in [App -> GoodRaise \cup {NoRaise}]
          /\ woken' \in [App -> BOOLEAN]
      BY <1>1, <2>2 DEF Tasks, PC
    <3>. QED  BY <1>1, <2>2, <3>1, <3>4, <3>5, <3>6, <3>7, TasksStep
  <2>. QED  BY <1>4, <1>11, <2>1, <2>2 DEF RaiseWindow
<1>. QED  BY <1>6, <1>7, <1>8, <1>9, <1>10, <1>11

(* The raise task keeps the invariant. *)
LEMMA TaskSInv ==
  ASSUME SInv, IInv', NEW a \in App, RaiseTask(a)
  PROVE  SInv'
<1>1. UNCHANGED vars
  BY DEF RaiseTask, StartRaise, WarmUp, GetInLine, Locked, MakeKey, WaitForActivation, RaiseWindow
<1>2. UNCHANGED <<active, nextId, queued, appQ>>
  BY <1>1 DEF vars, rmVars
<1>3. SeqBound'
  BY <1>2 DEF SInv, SeqBound
<1>4. Tasks' /\ raises' \in [App -> Seq(GoodRaise)] /\ reports' \in Seq(GoodReport)
  <2>1. CASE StartRaise(a)
    BY <2>1, StartTasks DEF SInv, Channels, StartRaise
  <2>2. CASE ~StartRaise(a)
    <3>1. UNCHANGED raises
      BY <2>2 DEF RaiseTask, WarmUp, GetInLine, Locked, MakeKey, WaitForActivation, RaiseWindow
    <3>. QED  BY <2>2, <3>1, TaskTasks DEF RaiseTask, SInv, Channels
  <2>. QED  BY <2>1, <2>2
<1>5. Channels'
  BY <1>2, <1>4 DEF SInv, Channels
<1>6. disturbed' \in BOOLEAN
  BY DEF RaiseTask, StartRaise, WarmUp, GetInLine, Locked, MakeKey, WaitForActivation,
         RaiseWindow, Fail, GiveUp, SInv, History
<1>7. key' \in [seq : Nat, quiet : BOOLEAN]
  <2>1. CASE key' = key
    BY <2>1 DEF SInv, History
  <2>2. CASE pc[a] = "key" /\ key' = [seq |-> cur[a].seq, quiet |-> cur[a].quiet]
    <3>1. cur[a] \in Raise
      BY <2>2 DEF SInv, Tasks, TaskOK, GoodRaise
    <3>. QED  BY <2>2, <3>1 DEF Raise
  <2>. QED
    BY <2>1, <2>2 DEF RaiseTask, StartRaise, WarmUp, GetInLine, Locked, MakeKey,
                      WaitForActivation, RaiseWindow
<1>. QED  BY <1>3, <1>4, <1>5, <1>6, <1>7 DEF SInv, History

-----------------------------------------------------------------------------
(* The invariant is inductive. *)
LEMMA NextSInv == SInv /\ [SysNext]_sysVars => SInv'
<1>. SUFFICES ASSUME SInv, [SysNext]_sysVars PROVE SInv'
  OBVIOUS
<1>1. IInv'
  BY StepSimulation, NextIInv DEF SInv
<1>2. CASE Manager \/ TakeReport \/ TimeOut
  BY <1>1, <1>2, ManagerSInv
<1>3. ASSUME NEW a \in App, PassRaise(a) \/ EndIncoming(a) \/ Activation(a) PROVE SInv'
  BY <1>1, <1>3, IncomingSInv
<1>4. ASSUME NEW a \in App, RaiseTask(a) PROVE SInv'
  BY <1>1, <1>4, TaskSInv
<1>5. CASE UNCHANGED sysVars
  BY <1>1, <1>5 DEF sysVars, appVars, vars, rmVars, SInv, SeqBound, Channels, Tasks, TaskOK,
                    Holds, History
<1>. QED  BY <1>2, <1>3, <1>4, <1>5 DEF SysNext

(* The inductive invariant holds of every reachable state of the system. *)
THEOREM SystemInvariant == SysSpec => []SInv
BY SysInitSInv, NextSInv, PTL DEF SysSpec

(* The app threads do nothing to the manager that its most general         *)
(* environment could not: the system implements RaiseManager.              *)
THEOREM ImplementsRaiseManager == SysSpec => Spec
<1>1. SysInit => Init
  BY DEF SysInit
<1>2. SInv /\ [SysNext]_sysVars => [Next]_vars
  BY StepSimulation
<1>. QED  BY <1>1, <1>2, SystemInvariant, PTL DEF SysSpec, Spec

(* The index of the window to raise next never runs past the request's     *)
(* windows, and the other variables of the app threads keep their types.   *)
THEOREM SystemTypeCorrect == SysSpec => []SysTypeOK
<1>1. SInv => SysTypeOK
  <2>. SUFFICES ASSUME SInv PROVE SysTypeOK
    OBVIOUS
  <2>1. GoodRaise \subseteq Raise /\ NoRaise \in Raise
    BY DEF GoodRaise, Raise, NoRaise
  <2>2. raises \in [App -> Seq(Raise)]
    BY <2>1 DEF SInv, Channels
  <2>3. cur \in [App -> Raise]
    BY <2>1 DEF SInv, Tasks
  <2>4. GoodReport \subseteq [wids : SUBSET Window, seq : Nat, failed : BOOLEAN]
    BY ConstantsAssumption DEF GoodReport
  <2>5. reports \in Seq([wids : SUBSET Window, seq : Nat, failed : BOOLEAN])
    <3>1. reports \in Seq(GoodReport)
      BY DEF SInv, Channels
    <3>2. ASSUME NEW S, NEW T, S \subseteq T, NEW s \in Seq(S) PROVE s \in Seq(T)
      BY <3>2
    <3>. QED  BY <2>4, <3>1, <3>2
  <2>6. \A a \in App : pc[a] # "idle" => at[a] \in DOMAIN cur[a].wids
    BY DEF SInv, Tasks, TaskOK
  <2>. QED  BY <2>2, <2>3, <2>5, <2>6 DEF SInv, Tasks, History, SysTypeOK
<1>. QED  BY <1>1, SystemInvariant, PTL

(* Only the app at the head of the line raises windows: while it does, no  *)
(* other app makes one key.                                                *)
THEOREM RaisesExclusivelyHolds == SysSpec => []RaisesExclusively
<1>1. SInv => RaisesExclusively
  BY DEF SInv, Tasks, TaskOK, Holds, RaisesExclusively
<1>. QED  BY <1>1, SystemInvariant, PTL

-----------------------------------------------------------------------------
(* In which order the app threads carry raises out: the focus goes where   *)
(* the last request wants it, and whatever the manager waits for is on its *)
(* way.  The raises an app has to carry out stand in one line, which moves *)
(* through the channel of its incoming task, that of its raise task and    *)
(* the raise in hand.  The rest is said of these lines.                    *)

InHand(a) == IF pc[a] = "idle" THEN << >> ELSE <<cur[a]>>
Line(a) == (InHand(a) \o raises[a]) \o appQ[a]

(* The raise has not yet made its first window key. *)
Unkeyed(a, i) == i > 1 \/ pc[a] \notin {"waiting", "raising"}

(* The windows of a raise that are not yet raised. *)
Rest(a, i) ==
  {Line(a)[i].wids[k] : k \in (IF i = 1 THEN at[a] ELSE 1)..Len(Line(a)[i].wids)}

(* Raises are with the app of their windows; ids are of the past. *)
Placed ==
  /\ \A a \in App : \A i \in DOMAIN Line(a) :
       /\ \A w \in ToSet(Line(a)[i].wids) : Owner[w] = a
       /\ Line(a)[i].seq < nextId
  /\ \A e \in ToSet(reports) :
       /\ e.seq < nextId
       /\ e.failed \/ \E w \in Window : e.wids = {w}
  /\ key.seq < nextId
  /\ active # NoSequence =>
       /\ active.id = nextId - 1
       /\ \A w \in ToSet(active.focus) : Owner[w] = Owner[Head(active.focus)]

(* No window is in two raises of a sequence, nor is it reported before its *)
(* raise has begun.                                                        *)
Disjoint ==
  \A a \in App : \A i \in DOMAIN Line(a) :
    /\ \A j \in DOMAIN Line(a) :
         i < j /\ Line(a)[i].seq = Line(a)[j].seq =>
           ToSet(Line(a)[i].wids) \cap ToSet(Line(a)[j].wids) = {}
    /\ \A e \in ToSet(reports) :
         Unkeyed(a, i) /\ Line(a)[i].seq = e.seq =>
           ToSet(Line(a)[i].wids) \cap e.wids = {}

(* Until the focus raise is sent, its sequence has other windows only. *)
FocusApart ==
  active # NoSequence /\ active.focus # << >> =>
    /\ \A a \in App : \A i \in DOMAIN Line(a) :
         Line(a)[i].seq = active.id =>
           Line(a)[i].quiet /\ ToSet(Line(a)[i].wids) \cap ToSet(active.focus) = {}
    /\ \A e \in ToSet(reports) :
         e.seq = active.id => e.wids \cap ToSet(active.focus) = {}
    /\ key.seq = active.id => key.quiet

(* A raise that has yet to begin is waited for, unless it was cancelled. *)
Live ==
  \A a \in App : \A i \in DOMAIN Line(a) :
    Unkeyed(a, i) /\ Line(a)[i].token \notin cancelled =>
      /\ active # NoSequence
      /\ Line(a)[i].token = TokenOf(active) /\ Line(a)[i].seq = active.id
      /\ ToSet(Line(a)[i].wids) \subseteq active.pending

(* Once the focus raise of a sequence is sent, no quiet one has yet to     *)
(* begin that is not cancelled.                                            *)
QuietFirst ==
  \A a \in App : \A i \in DOMAIN Line(a) :
    Unkeyed(a, i) /\ Line(a)[i].token \notin cancelled /\ Line(a)[i].quiet =>
      /\ \A b \in App : \A j \in DOMAIN Line(b) :
           Line(b)[j].seq = Line(a)[i].seq => Line(b)[j].quiet
      /\ key.seq = Line(a)[i].seq => key.quiet

(* Whoever is about to make a window key comes after the last that did,    *)
(* even if it was cancelled since it looked.                               *)
KeyInOrder == \A a \in App : pc[a] = "key" => Before(key, cur[a])

Ordered == Placed /\ Disjoint /\ FocusApart /\ Live /\ QuietFirst /\ KeyInOrder

-----------------------------------------------------------------------------
(* Moving the next raise from one queue to the end of the other. *)
LEMMA MoveHead ==
  \A h, s, t \in Seq(GoodRaise) :
    t # << >> => (h \o Append(s, Head(t))) \o Tail(t) = (h \o s) \o t
<1>. SUFFICES ASSUME NEW h \in Seq(GoodRaise), NEW s \in Seq(GoodRaise),
                     NEW t \in Seq(GoodRaise), t # << >>
              PROVE  (h \o Append(s, Head(t))) \o Tail(t) = (h \o s) \o t
  OBVIOUS
<1>1. /\ Append(s, Head(t)) \in Seq(GoodRaise) /\ Tail(t) \in Seq(GoodRaise)
      /\ Len(Tail(t)) = Len(t) - 1
  OBVIOUS
<1>. DEFINE l == (h \o Append(s, Head(t))) \o Tail(t)
            r == (h \o s) \o t
<1>2. l \in Seq(GoodRaise) /\ r \in Seq(GoodRaise)
  BY <1>1
<1>3. Len(l) = Len(r)
  BY <1>1
<1>4. ASSUME NEW i \in 1..Len(r) PROVE l[i] = r[i]
  <2>1. CASE i <= Len(h) + Len(s)
    BY <1>1, <1>4, <2>1
  <2>2. CASE i = Len(h) + Len(s) + 1
    BY <1>1, <1>4, <2>2
  <2>3. CASE i > Len(h) + Len(s) + 1
    BY <1>1, <1>4, <2>3
  <2>. QED  BY <1>4, <2>1, <2>2, <2>3
<1>. HIDE DEF l, r
<1>5. l = r
  BY <1>2, <1>3, <1>4
<1>. QED  BY <1>5 DEF l, r

(* Taking the first raise in hand, or dropping it. *)
LEMMA TakeHead ==
  \A s, t \in Seq(GoodRaise) : s # << >> =>
    /\ (<<Head(s)>> \o Tail(s)) \o t = (<< >> \o s) \o t
    /\ (<< >> \o Tail(s)) \o t = Tail((<< >> \o s) \o t)
    /\ ((<< >> \o s) \o t)[1] = Head(s)
    /\ (<< >> \o s) \o t # << >>
OBVIOUS

(* The raise in hand is first in line, and leaves the rest behind. *)
LEMMA DropFirst ==
  \A e \in GoodRaise : \A s, t \in Seq(GoodRaise) :
    /\ (<< >> \o s) \o t = Tail((<<e>> \o s) \o t)
    /\ ((<<e>> \o s) \o t)[1] = e
    /\ (<<e>> \o s) \o t # << >>
OBVIOUS

(* What is not in the last queue is not moved when that is emptied. *)
LEMMA CutLast ==
  \A h, s, t \in Seq(GoodRaise) :
    /\ DOMAIN ((h \o s) \o << >>) \subseteq DOMAIN ((h \o s) \o t)
    /\ \A i \in DOMAIN ((h \o s) \o << >>) : ((h \o s) \o << >>)[i] = ((h \o s) \o t)[i]
OBVIOUS

LEMMA LineType ==
  ASSUME SInv, NEW a \in App
  PROVE  /\ Line(a) \in Seq(GoodRaise)
         /\ pc[a] # "idle" => /\ Line(a) # << >> /\ Line(a)[1] = cur[a]
                              /\ cur[a] \in GoodRaise /\ at[a] \in DOMAIN cur[a].wids
         /\ pc[a] = "idle" => at[a] = 1
<1>1. raises[a] \in Seq(GoodRaise) /\ appQ[a] \in Seq(GoodRaise) /\ TaskOK(a)
  BY DEF SInv, Channels, Tasks
<1>2. CASE pc[a] = "idle"
  BY <1>1, <1>2 DEF Line, InHand, TaskOK
<1>3. CASE pc[a] # "idle"
  <2>1. cur[a] \in GoodRaise /\ at[a] \in DOMAIN cur[a].wids
    BY <1>1, <1>3 DEF TaskOK
  <2>2. Line(a) = (<<cur[a]>> \o raises[a]) \o appQ[a]
    BY <1>3 DEF Line, InHand
  <2>. DEFINE l == (<<cur[a]>> \o raises[a]) \o appQ[a]
  <2>3. l # << >> /\ l[1] = cur[a]
    BY <1>1, <2>1, DropFirst
  <2>4. Line(a) \in Seq(GoodRaise)
    BY <1>1, <2>1, <2>2
  <2>. QED  BY <1>3, <2>1, <2>2, <2>3, <2>4
<1>. QED  BY <1>2, <1>3

-----------------------------------------------------------------------------
(* How each step moves the lines. *)

LEMMA SameLines ==
  ASSUME UNCHANGED <<pc, cur, raises, appQ>>
  PROVE  \A b \in App : Line(b)' = Line(b)
BY DEF Line, InHand

LEMMA PassLines ==
  ASSUME SInv, NEW a \in App, PassRaise(a)
  PROVE  \A b \in App : Line(b)' = Line(b)
<1>1. raises \in [App -> Seq(GoodRaise)] /\ appQ \in [App -> Seq(GoodRaise)]
  BY DEF SInv, Channels
<1>2. /\ appQ[a] # << >> /\ appQ' = [appQ EXCEPT ![a] = Tail(@)]
      /\ raises' = [raises EXCEPT ![a] = Append(@, Head(appQ[a]))]
      /\ UNCHANGED <<pc, cur>>
  BY DEF PassRaise, AppTakes
<1>3. InHand(a) \in Seq(GoodRaise)
  BY DEF SInv, Tasks, TaskOK, InHand
<1>4. (InHand(a) \o Append(raises[a], Head(appQ[a]))) \o Tail(appQ[a]) = Line(a)
  <2>1. raises[a] \in Seq(GoodRaise) /\ appQ[a] \in Seq(GoodRaise)
    BY <1>1
  <2>2. (InHand(a) \o Append(raises[a], Head(appQ[a]))) \o Tail(appQ[a])
          = (InHand(a) \o raises[a]) \o appQ[a]
    BY <1>2, <1>3, <2>1, MoveHead
  <2>. QED  BY <2>2 DEF Line
<1>5. Line(a)' = Line(a)
  BY <1>1, <1>2, <1>4 DEF Line, InHand
<1>6. \A b \in App \ {a} : Line(b)' = Line(b)
  BY <1>1, <1>2 DEF Line, InHand
<1>. QED  BY <1>5, <1>6

LEMMA StartLines ==
  ASSUME SInv, NEW a \in App, StartRaise(a)
  PROVE  /\ \A b \in App \ {a} : Line(b)' = Line(b)
         /\ \/ Line(a)' = Line(a) /\ pc'[a] = "warm"
            \/ /\ Line(a) # << >> /\ Line(a)' = Tail(Line(a))
               /\ Line(a)[1].token \in cancelled
               /\ UNCHANGED pc
<1>1. /\ raises \in [App -> Seq(GoodRaise)] /\ appQ \in [App -> Seq(GoodRaise)]
      /\ pc \in [App -> PC] /\ cur \in [App -> GoodRaise \cup {NoRaise}]
  BY DEF SInv, Channels, Tasks, PC
<1>2. /\ pc[a] = "idle" /\ raises[a] # << >> /\ UNCHANGED appQ
      /\ raises' = [raises EXCEPT ![a] = Tail(@)]
  BY DEF StartRaise, vars
<1>3. /\ Line(a) = (<< >> \o raises[a]) \o appQ[a]
      /\ Line(a)[1] = Head(raises[a]) /\ Line(a) # << >>
  BY <1>1, <1>2, TakeHead DEF Line, InHand
<1>4. CASE UNCHANGED <<pc, cur>> /\ Head(raises[a]).token \in cancelled
  <2>1. Line(a)' = (<< >> \o Tail(raises[a])) \o appQ[a]
    BY <1>1, <1>2, <1>4 DEF Line, InHand
  <2>2. Line(a)' = Tail(Line(a))
    BY <1>1, <1>2, <1>3, <2>1, TakeHead
  <2>3. \A b \in App \ {a} : Line(b)' = Line(b)
    BY <1>1, <1>2, <1>4 DEF Line, InHand
  <2>. QED  BY <1>3, <1>4, <2>2, <2>3
<1>5. CASE cur' = [cur EXCEPT ![a] = Head(raises[a])] /\ Goto(a, "warm")
  <2>1. cur'[a] = Head(raises[a]) /\ pc'[a] = "warm"
    BY <1>1, <1>5 DEF Goto
  <2>2. Line(a)' = (<<Head(raises[a])>> \o Tail(raises[a])) \o appQ[a]
    BY <1>1, <1>2, <2>1 DEF Line, InHand
  <2>3. Line(a)' = Line(a)
    BY <1>1, <1>2, <1>3, <2>2, TakeHead
  <2>4. \A b \in App \ {a} : Line(b)' = Line(b)
    BY <1>1, <1>2, <1>5 DEF Line, InHand, Goto
  <2>. QED  BY <2>1, <2>3, <2>4
<1>. QED  BY <1>4, <1>5 DEF StartRaise

LEMMA ReturnLines ==
  ASSUME SInv, NEW a \in App, Return(a), pc[a] # "idle", UNCHANGED <<raises, appQ>>
  PROVE  /\ \A b \in App \ {a} : Line(b)' = Line(b)
         /\ Line(a)' = Tail(Line(a))
         /\ pc'[a] = "idle" /\ at'[a] = 1
<1>1. /\ raises \in [App -> Seq(GoodRaise)] /\ appQ \in [App -> Seq(GoodRaise)]
      /\ pc \in [App -> PC] /\ cur \in [App -> GoodRaise \cup {NoRaise}]
      /\ at \in [App -> Nat] /\ cur[a] \in GoodRaise
  BY DEF SInv, Channels, Tasks, PC, TaskOK
<1>2. pc'[a] = "idle" /\ at'[a] = 1
  BY <1>1 DEF Return, Goto
<1>3. Line(a)' = (<< >> \o raises[a]) \o appQ[a] /\ Line(a) = (<<cur[a]>> \o raises[a]) \o appQ[a]
  BY <1>2 DEF Line, InHand
<1>4. Line(a)' = Tail(Line(a))
  BY <1>1, <1>3, DropFirst
<1>5. \A b \in App \ {a} : Line(b)' = Line(b)
  BY <1>1 DEF Line, InHand, Return, Goto
<1>. QED  BY <1>2, <1>4, <1>5

LEMMA GotoLines ==
  ASSUME SInv, NEW a \in App, NEW l \in PC \ {"idle"}, Goto(a, l), pc[a] # "idle",
         UNCHANGED <<cur, raises, appQ>>
  PROVE  \A b \in App : Line(b)' = Line(b)
<1>1. pc \in [App -> PC]
  BY DEF SInv, Tasks, PC
<1>. QED  BY <1>1 DEF Line, InHand, Goto

LEMMA EndLines ==
  ASSUME SInv, NEW a \in App, EndIncoming(a)
  PROVE  /\ \A b \in App \ {a} : Line(b)' = Line(b)
         /\ DOMAIN Line(a)' \subseteq DOMAIN Line(a)
         /\ \A i \in DOMAIN Line(a)' : Line(a)'[i] = Line(a)[i]
<1>1. raises \in [App -> Seq(GoodRaise)] /\ appQ \in [App -> Seq(GoodRaise)]
  BY DEF SInv, Channels
<1>2. appQ' = [appQ EXCEPT ![a] = << >>] /\ UNCHANGED <<pc, cur, raises>>
  BY DEF EndIncoming, AppExits, appVars
<1>3. InHand(a) \in Seq(GoodRaise)
  BY DEF SInv, Tasks, TaskOK, InHand
<1>4. Line(a)' = (InHand(a) \o raises[a]) \o << >>
  BY <1>1, <1>2 DEF Line, InHand
<1>5. raises[a] \in Seq(GoodRaise) /\ appQ[a] \in Seq(GoodRaise)
  BY <1>1
<1>6. /\ DOMAIN Line(a)' \subseteq DOMAIN Line(a)
      /\ \A i \in DOMAIN Line(a)' : Line(a)'[i] = Line(a)[i]
  <2>. DEFINE l == (InHand(a) \o raises[a]) \o << >>
             m == (InHand(a) \o raises[a]) \o appQ[a]
  <2>1. DOMAIN l \subseteq DOMAIN m /\ \A i \in DOMAIN l : l[i] = m[i]
    BY <1>3, <1>5, CutLast
  <2>. QED  BY <1>4, <2>1 DEF Line
<1>7. \A b \in App \ {a} : Line(b)' = Line(b)
  BY <1>1, <1>2 DEF Line, InHand
<1>. QED  BY <1>6, <1>7

-----------------------------------------------------------------------------
(* The lines when raises only leave them or move on. *)

(* Each raise in a line was there before, if it has yet to begin not begun. *)
Shifts(b) ==
  \E d \in {0, 1} : \A i \in DOMAIN Line(b)' :
    /\ i \in Nat /\ i + d \in DOMAIN Line(b) /\ Line(b)'[i] = Line(b)[i + d]
    /\ Unkeyed(b, i)' => Unkeyed(b, i + d)

(* The raise in hand is reported on: it has begun, or ends here. *)
Reporting(a) ==
  /\ pc[a] # "idle"
  /\ \E e \in GoodReport :
       /\ e.seq = cur[a].seq /\ e.wids \subseteq ToSet(cur[a].wids)
       /\ e.failed \/ \E w \in Window : e.wids = {w}
       /\ reports' = Append(reports, e)
  /\ \A i \in DOMAIN Line(a)' : Unkeyed(a, i)' =>
       \E k \in DOMAIN Line(a) : k > 1 /\ Line(a)'[i] = Line(a)[k]

MakesKey(a) == pc[a] = "key" /\ key' = [seq |-> cur[a].seq, quiet |-> cur[a].quiet]

LEMMA AppendSet ==
  ASSUME NEW S, NEW s \in Seq(S), NEW e \in S
  PROVE  ToSet(Append(s, e)) = ToSet(s) \cup {e}
<1>1. DOMAIN Append(s, e) = DOMAIN s \cup {Len(s) + 1}
      /\ Append(s, e)[Len(s) + 1] = e /\ \A i \in DOMAIN s : Append(s, e)[i] = s[i]
  OBVIOUS
<1>. QED  BY <1>1 DEF ToSet

LEMMA TailSet ==
  ASSUME NEW S, NEW s \in Seq(S), s # << >>
  PROVE  ToSet(Tail(s)) \subseteq ToSet(s) /\ Head(s) \in ToSet(s)
         /\ ToSet(s) = ToSet(Tail(s)) \cup {Head(s)}
<1>1. DOMAIN Tail(s) = 1..Len(s) - 1 /\ \A i \in DOMAIN Tail(s) : Tail(s)[i] = s[i + 1]
  OBVIOUS
<1>2. DOMAIN s = 1..Len(s) /\ Head(s) = s[1] /\ Len(s) \in Nat \ {0}
  OBVIOUS
<1>3. ASSUME NEW i \in DOMAIN s, i # 1 PROVE i - 1 \in DOMAIN Tail(s) /\ Tail(s)[i - 1] = s[i]
  BY <1>1, <1>2, <1>3
<1>4. ASSUME NEW i \in DOMAIN Tail(s) PROVE i + 1 \in DOMAIN s /\ Tail(s)[i] = s[i + 1]
  BY <1>1, <1>2
<1>5. 1 \in DOMAIN s
  BY <1>2
<1>6. ToSet(Tail(s)) \subseteq ToSet(s)
  BY <1>4 DEF ToSet
<1>7. Head(s) \in ToSet(s)
  BY <1>2, <1>5 DEF ToSet
<1>8. ASSUME NEW x \in ToSet(s) PROVE x \in ToSet(Tail(s)) \cup {Head(s)}
  <2>1. PICK i \in DOMAIN s : x = s[i]
    BY DEF ToSet
  <2>. QED  BY <1>2, <1>3, <2>1 DEF ToSet
<1>. QED  BY <1>6, <1>7, <1>8

LEMMA TaskOrdered ==
  ASSUME SInv, Ordered, NEW a \in App,
         \A b \in App : Shifts(b),
         UNCHANGED <<active, nextId, cancelled>>,
         reports' = reports \/ Reporting(a),
         key' = key \/ MakesKey(a),
         KeyInOrder'
  PROVE  Ordered'
<1>1. /\ \A b \in App : Line(b) \in Seq(GoodRaise)
      /\ pc[a] # "idle" => Line(a) # << >> /\ Line(a)[1] = cur[a]
  BY LineType
<1>2. reports \in Seq(GoodReport)
  BY DEF SInv, Channels
<1>3. pc[a] # "idle" => 1 \in DOMAIN Line(a)
  BY <1>1
(* What is new in the reports is about the raise in hand. *)
<1>4. ASSUME NEW e \in ToSet(reports)', e \notin ToSet(reports)
      PROVE  /\ Reporting(a) /\ pc[a] # "idle"
             /\ e.seq = cur[a].seq /\ e.wids \subseteq ToSet(cur[a].wids)
             /\ e.failed \/ \E w \in Window : e.wids = {w}
  <2>1. Reporting(a)
    BY <1>4
  <2>2. PICK f \in GoodReport :
               /\ f.seq = cur[a].seq /\ f.wids \subseteq ToSet(cur[a].wids)
               /\ f.failed \/ \E w \in Window : f.wids = {w}
               /\ reports' = Append(reports, f)
    BY <2>1 DEF Reporting
  <2>3. ToSet(reports)' = ToSet(reports) \cup {f}
    BY <1>2, <2>2, AppendSet
  <2>4. e = f
    BY <1>4, <2>3
  <2>. QED  BY <2>1, <2>2, <2>4 DEF Reporting
<1>5. ASSUME NEW b \in App, NEW i \in DOMAIN Line(b)'
      PROVE  \E k \in DOMAIN Line(b) : Line(b)'[i] = Line(b)[k] /\ (Unkeyed(b, i)' => Unkeyed(b, k))
  <2>1. Shifts(b)
    OBVIOUS
  <2>. QED  BY <1>5, <2>1 DEF Shifts
<1>6. Placed'
  <2>1. ASSUME NEW b \in App, NEW i \in DOMAIN Line(b)'
        PROVE  (\A w \in ToSet(Line(b)'[i].wids) : Owner[w] = b) /\ Line(b)'[i].seq < nextId'
    BY <1>5 DEF Ordered, Placed
  <2>2. ASSUME NEW e \in ToSet(reports)'
        PROVE  e.seq < nextId' /\ (e.failed \/ \E w \in Window : e.wids = {w})
    <3>1. CASE e \in ToSet(reports)
      BY <3>1 DEF Ordered, Placed
    <3>2. CASE e \notin ToSet(reports)
      BY <1>1, <1>3, <1>4, <3>2 DEF Ordered, Placed
    <3>. QED  BY <3>1, <3>2
  <2>3. key'.seq < nextId'
    <3>1. CASE MakesKey(a)
      BY <1>1, <1>3, <3>1 DEF MakesKey, Ordered, Placed
    <3>. QED  BY <3>1 DEF Ordered, Placed
  <2>. QED  BY <2>1, <2>2, <2>3 DEF Ordered, Placed
<1>7. Disjoint'
  <2>1. ASSUME NEW b \in App, NEW i \in DOMAIN Line(b)', NEW j \in DOMAIN Line(b)',
               i < j, Line(b)'[i].seq = Line(b)'[j].seq
        PROVE  ToSet(Line(b)'[i].wids) \cap ToSet(Line(b)'[j].wids) = {}
    <3>1. PICK d \in {0, 1} : \A k \in DOMAIN Line(b)' :
                 k \in Nat /\ k + d \in DOMAIN Line(b) /\ Line(b)'[k] = Line(b)[k + d]
      BY DEF Shifts
    <3>2. i + d \in DOMAIN Line(b) /\ j + d \in DOMAIN Line(b)
          /\ Line(b)'[i] = Line(b)[i + d] /\ Line(b)'[j] = Line(b)[j + d]
      BY <3>1
    <3>3. i + d < j + d
      BY <2>1, <3>1
    <3>. QED  BY <2>1, <3>2, <3>3 DEF Ordered, Disjoint
  <2>2. ASSUME NEW b \in App, NEW i \in DOMAIN Line(b)', NEW e \in ToSet(reports)',
               Unkeyed(b, i)', Line(b)'[i].seq = e.seq
        PROVE  ToSet(Line(b)'[i].wids) \cap e.wids = {}
    <3>1. CASE e \in ToSet(reports)
      BY <1>5, <2>2, <3>1 DEF Ordered, Disjoint
    <3>2. CASE e \notin ToSet(reports) /\ b = a
      <4>1. PICK k \in DOMAIN Line(a) : k > 1 /\ Line(a)'[i] = Line(a)[k]
        BY <1>4, <2>2, <3>2 DEF Reporting
      <4>2. e.seq = cur[a].seq /\ e.wids \subseteq ToSet(cur[a].wids) /\ Line(a)[1] = cur[a]
            /\ 1 \in DOMAIN Line(a)
        BY <1>1, <1>3, <1>4, <3>2
      <4>3. ToSet(Line(a)[1].wids) \cap ToSet(Line(a)[k].wids) = {}
        BY <2>2, <3>2, <4>1, <4>2 DEF Ordered, Disjoint
      <4>. QED  BY <3>2, <4>1, <4>2, <4>3
    <3>3. CASE e \notin ToSet(reports) /\ b # a
      <4>1. \A w \in ToSet(Line(b)'[i].wids) : Owner[w] = b
        BY <1>6 DEF Placed
      <4>2. \A w \in e.wids : Owner[w] = a
        BY <1>1, <1>3, <1>4, <3>3 DEF Ordered, Placed
      <4>. QED  BY <3>3, <4>1, <4>2
    <3>. QED  BY <3>1, <3>2, <3>3
  <2>. QED  BY <2>1, <2>2 DEF Disjoint
<1>8. FocusApart'
  <2>. SUFFICES ASSUME active # NoSequence, active.focus # << >> PROVE FocusApart'
    BY DEF FocusApart
  <2>1. ASSUME NEW b \in App, NEW i \in DOMAIN Line(b)', Line(b)'[i].seq = active.id
        PROVE  Line(b)'[i].quiet /\ ToSet(Line(b)'[i].wids) \cap ToSet(active.focus) = {}
    BY <1>5, <2>1 DEF Ordered, FocusApart
  <2>2. pc[a] # "idle" /\ cur[a].seq = active.id =>
          cur[a].quiet /\ ToSet(cur[a].wids) \cap ToSet(active.focus) = {}
    BY <1>1, <1>3 DEF Ordered, FocusApart
  <2>3. ASSUME NEW e \in ToSet(reports)', e.seq = active.id
        PROVE  e.wids \cap ToSet(active.focus) = {}
    BY <1>4, <2>2, <2>3 DEF Ordered, FocusApart
  <2>4. key'.seq = active.id => key'.quiet
    BY <2>2 DEF Ordered, FocusApart, MakesKey
  <2>. QED  BY <2>1, <2>3, <2>4 DEF FocusApart
<1>9. Live'
  BY <1>5 DEF Ordered, Live, TokenOf
<1>10. QuietFirst'
  <2>. SUFFICES ASSUME NEW b \in App, NEW i \in DOMAIN Line(b)', Unkeyed(b, i)',
                       Line(b)'[i].token \notin cancelled, Line(b)'[i].quiet
                PROVE  /\ \A c \in App : \A j \in DOMAIN Line(c)' :
                            Line(c)'[j].seq = Line(b)'[i].seq => Line(c)'[j].quiet
                       /\ key'.seq = Line(b)'[i].seq => key'.quiet
    BY DEF QuietFirst
  <2>1. PICK k \in DOMAIN Line(b) : Line(b)'[i] = Line(b)[k] /\ Unkeyed(b, k)
    BY <1>5
  <2>2. /\ \A c \in App : \A j \in DOMAIN Line(c) :
             Line(c)[j].seq = Line(b)'[i].seq => Line(c)[j].quiet
        /\ key.seq = Line(b)'[i].seq => key.quiet
    BY <2>1 DEF Ordered, QuietFirst
  <2>3. pc[a] # "idle" /\ cur[a].seq = Line(b)'[i].seq => cur[a].quiet
    BY <1>1, <1>3, <2>2
  <2>4. key'.seq = Line(b)'[i].seq => key'.quiet
    BY <2>2, <2>3 DEF MakesKey
  <2>. QED  BY <1>5, <2>2, <2>4
<1>. QED  BY <1>6, <1>7, <1>8, <1>9, <1>10 DEF Ordered

-----------------------------------------------------------------------------
(* The steps of an app thread. *)

LEMMA SameShifts ==
  ASSUME SInv, NEW b \in App, Line(b)' = Line(b), Unkeyed(b, 1)' => Unkeyed(b, 1)
  PROVE  Shifts(b)
<1>1. DOMAIN Line(b) \subseteq Nat
  BY LineType
<1>2. \A i \in DOMAIN Line(b)' : i \in Nat /\ i + 0 = i
  BY <1>1
<1>3. \A i \in DOMAIN Line(b)' : Unkeyed(b, i)' => Unkeyed(b, i + 0)
  BY <1>2 DEF Unkeyed
<1>. QED  BY <1>2, <1>3 DEF Shifts

LEMMA TailShifts ==
  ASSUME SInv, NEW b \in App, Line(b) # << >>, Line(b)' = Tail(Line(b))
  PROVE  /\ Shifts(b)
         /\ \A i \in DOMAIN Line(b)' : \E k \in DOMAIN Line(b) : k > 1 /\ Line(b)'[i] = Line(b)[k]
<1>1. Line(b) \in Seq(GoodRaise)
  BY LineType
<1>2. \A i \in DOMAIN Tail(Line(b)) :
        i \in Nat /\ i + 1 \in DOMAIN Line(b) /\ i + 1 > 1 /\ Tail(Line(b))[i] = Line(b)[i + 1]
  BY <1>1
<1>. QED  BY <1>2 DEF Shifts, Unkeyed

LEMMA CutShifts ==
  ASSUME SInv, NEW b \in App, DOMAIN Line(b)' \subseteq DOMAIN Line(b), UNCHANGED pc,
         \A i \in DOMAIN Line(b)' : Line(b)'[i] = Line(b)[i]
  PROVE  Shifts(b)
<1>1. DOMAIN Line(b) \subseteq Nat
  BY LineType
<1>2. \A i \in DOMAIN Line(b)' : i \in Nat /\ i + 0 = i
  BY <1>1
<1>3. \A i \in DOMAIN Line(b)' : Unkeyed(b, i)' => Unkeyed(b, i + 0)
  BY <1>2 DEF Unkeyed
<1>. QED  BY <1>2, <1>3 DEF Shifts

(* The order in which windows are made key, if it is not about to be made. *)
LEMMA KeepsOrder ==
  ASSUME SInv, KeyInOrder, NEW a \in App, UNCHANGED key, pc'[a] # "key" \/ pc'[a] = pc[a],
         \A b \in App \ {a} : pc'[b] = pc[b] /\ cur'[b] = cur[b],
         pc[a] = "key" => UNCHANGED <<pc, cur>> \/ pc'[a] # "key"
  PROVE  KeyInOrder'
BY DEF KeyInOrder, Before

(* The incoming task, and the activation the raise task waits for. *)
LEMMA IncomingOrdered ==
  ASSUME SInv, Ordered, NEW a \in App, PassRaise(a) \/ EndIncoming(a) \/ Activation(a)
  PROVE  Ordered'
<1>1. UNCHANGED <<active, nextId, cancelled, pc, cur, reports, key>>
  BY DEF PassRaise, EndIncoming, Activation, AppTakes, AppExits, rmVars, vars, appVars
<1>2. \A b \in App : Line(b)' = Line(b) => Shifts(b)
  BY <1>1, SameShifts DEF Unkeyed
<1>3. \A b \in App : Shifts(b)
  <2>1. CASE PassRaise(a)
    BY <1>2, <2>1, PassLines
  <2>2. CASE Activation(a)
    <3>1. UNCHANGED <<pc, cur, raises, appQ>>
      BY <2>2 DEF Activation, vars
    <3>. QED  BY <1>2, <3>1, SameLines
  <2>3. CASE EndIncoming(a)
    <3>1. Shifts(a)
      BY <1>1, <2>3, EndLines, CutShifts
    <3>2. \A b \in App \ {a} : Shifts(b)
      BY <1>2, <2>3, EndLines
    <3>. QED  BY <3>1, <3>2
  <2>. QED  BY <2>1, <2>2, <2>3
<1>4. KeyInOrder'
  BY <1>1 DEF Ordered, KeyInOrder, Before
<1>. QED  BY <1>1, <1>3, <1>4, TaskOrdered

LEMMA StartOrdered ==
  ASSUME SInv, Ordered, NEW a \in App, StartRaise(a)
  PROVE  Ordered'
<1>1. UNCHANGED <<active, nextId, cancelled, reports, key>> /\ pc[a] = "idle"
  BY DEF StartRaise, vars, rmVars
<1>2. pc \in [App -> PC] /\ cur \in [App -> GoodRaise \cup {NoRaise}]
  BY DEF SInv, Tasks, PC
<1>3. \A b \in App \ {a} : pc'[b] = pc[b] /\ cur'[b] = cur[b]
  BY <1>2 DEF StartRaise, Goto
<1>4. pc'[a] \in {"idle", "warm"}
  BY <1>1, <1>2 DEF StartRaise, Goto
<1>5. \A b \in App : Line(b)' = Line(b) => Shifts(b)
  <2>1. \A b \in App : Unkeyed(b, 1)' => Unkeyed(b, 1)
    BY <1>1, <1>3, <1>4 DEF Unkeyed
  <2>. QED  BY <2>1, SameShifts
<1>6. \A b \in App : Shifts(b)
  <2>1. Shifts(a)
    BY <1>5, StartLines, TailShifts
  <2>2. \A b \in App \ {a} : Shifts(b)
    BY <1>5, StartLines
  <2>. QED  BY <2>1, <2>2
<1>7. KeyInOrder'
  BY <1>1, <1>3, <1>4, KeepsOrder DEF Ordered
<1>. QED  BY <1>1, <1>6, <1>7, TaskOrdered

(* A request that is done with, reported on or not. *)
LEMMA ReturnOrdered ==
  ASSUME SInv, Ordered, NEW a \in App, Return(a), pc[a] # "idle",
         UNCHANGED <<raises, appQ, active, nextId, cancelled, key>>,
         \/ UNCHANGED reports
         \/ \E e \in GoodReport :
              /\ e.seq = cur[a].seq /\ e.wids \subseteq ToSet(cur[a].wids)
              /\ e.failed \/ \E w \in Window : e.wids = {w}
              /\ reports' = Append(reports, e)
  PROVE  Ordered'
<1>1. pc \in [App -> PC] /\ cur \in [App -> GoodRaise \cup {NoRaise}]
  BY DEF SInv, Tasks, PC
<1>2. /\ \A b \in App \ {a} : Line(b)' = Line(b)
      /\ Line(a)' = Tail(Line(a)) /\ Line(a) # << >> /\ pc'[a] = "idle"
  BY ReturnLines, LineType
<1>3. \A b \in App \ {a} : pc'[b] = pc[b] /\ cur'[b] = cur[b]
  BY <1>1 DEF Return, Goto
<1>4. /\ Shifts(a)
      /\ \A i \in DOMAIN Line(a)' : \E k \in DOMAIN Line(a) : k > 1 /\ Line(a)'[i] = Line(a)[k]
  BY <1>2, TailShifts
<1>5. \A b \in App \ {a} : Shifts(b)
  BY <1>2, <1>3, SameShifts DEF Unkeyed
<1>6. reports' = reports \/ Reporting(a)
  BY <1>4 DEF Reporting
<1>7. KeyInOrder'
  BY <1>2, <1>3, KeepsOrder DEF Ordered
<1>. QED  BY <1>4, <1>5, <1>6, <1>7, TaskOrdered

(* A report is about windows of the raise in hand. *)
LEMMA ReportShape ==
  ASSUME SInv, NEW a \in App, pc[a] # "idle", Completed(a) \/ Fail(a)
  PROVE  \E e \in GoodReport :
           /\ e.seq = cur[a].seq /\ e.wids \subseteq ToSet(cur[a].wids)
           /\ e.failed \/ \E w \in Window : e.wids = {w}
           /\ reports' = Append(reports, e)
<1>1. cur[a] \in GoodRaise /\ at[a] \in DOMAIN cur[a].wids
  BY LineType
<1>2. cur[a].wids \in Seq(Window) /\ cur[a].seq \in 1..MaxSeq
  BY <1>1 DEF GoodRaise, Raise
<1>3. cur[a].wids[at[a]] \in ToSet(cur[a].wids) /\ ToSet(cur[a].wids) \in SUBSET Window
  BY <1>1, <1>2 DEF ToSet
<1>4. CASE Completed(a)
  <2>. DEFINE e == [wids |-> {cur[a].wids[at[a]]}, seq |-> cur[a].seq, failed |-> FALSE]
  <2>1. e \in GoodReport /\ reports' = Append(reports, e)
    BY <1>2, <1>3, <1>4 DEF Completed, GoodReport
  <2>2. e.seq = cur[a].seq /\ e.wids \subseteq ToSet(cur[a].wids) /\ \E w \in Window : e.wids = {w}
    BY <1>3
  <2>. QED  BY <2>1, <2>2
<1>5. CASE Fail(a)
  <2>. DEFINE e == [wids |-> ToSet(cur[a].wids), seq |-> cur[a].seq, failed |-> TRUE]
  <2>1. e \in GoodReport /\ reports' = Append(reports, e)
    BY <1>2, <1>3, <1>5 DEF Fail, GoodReport
  <2>2. e.seq = cur[a].seq /\ e.wids \subseteq ToSet(cur[a].wids) /\ e.failed
    OBVIOUS
  <2>. QED  BY <2>1, <2>2
<1>. QED  BY <1>4, <1>5

(* A task that only moves on, before it makes a window key or after. *)
LEMMA GotoOrdered ==
  ASSUME SInv, Ordered, NEW a \in App, NEW l \in PC \ {"idle"}, Goto(a, l), pc[a] # "idle",
         UNCHANGED <<cur, raises, appQ, active, nextId, cancelled, reports>>,
         pc[a] \in {"waiting", "raising"} => l \in {"waiting", "raising"},
         key' = key \/ MakesKey(a),
         l = "key" => UNCHANGED key /\ Before(key, cur[a]),
         l # "key" \/ pc[a] # "key"
  PROVE  Ordered'
<1>1. pc \in [App -> PC]
  BY DEF SInv, Tasks, PC
<1>2. pc'[a] = l /\ \A b \in App \ {a} : pc'[b] = pc[b]
  BY <1>1 DEF Goto
<1>3. \A b \in App : Unkeyed(b, 1)' => Unkeyed(b, 1)
  BY <1>2 DEF Unkeyed
<1>4. \A b \in App : Shifts(b)
  BY <1>3, GotoLines, SameShifts
<1>5. KeyInOrder'
  <2>. SUFFICES ASSUME NEW b \in App, pc'[b] = "key" PROVE Before(key', cur[b])
    BY DEF KeyInOrder, Before
  <2>1. CASE b = a
    BY <1>2, <2>1 DEF Before, MakesKey
  <2>2. CASE b # a
    <3>1. pc[b] = "key" /\ Holds(b)
      BY <1>2, <2>2 DEF SInv, Tasks, TaskOK
    <3>2. pc[a] # "key"
      BY <2>2, <3>1 DEF SInv, Tasks, TaskOK, Holds
    <3>. QED  BY <3>1, <3>2 DEF Ordered, KeyInOrder, Before, MakesKey
  <2>. QED  BY <2>1, <2>2
<1>. QED  BY <1>4, <1>5, TaskOrdered

(* A task that was not cancelled comes after the last that made a window   *)
(* key: its raise is the active sequence's, and none that follows it in    *)
(* that sequence has been sent.                                            *)
LEMMA UncancelledFollows ==
  ASSUME SInv, Ordered, NEW a \in App, pc[a] \notin {"idle", "waiting", "raising"},
         ~Cancelled(a)
  PROVE  Before(key, cur[a])
<1>1. Line(a) \in Seq(GoodRaise) /\ Line(a) # << >> /\ Line(a)[1] = cur[a] /\ cur[a] \in GoodRaise
  BY LineType
<1>2. 1 \in DOMAIN Line(a) /\ Unkeyed(a, 1) /\ cur[a].token \notin cancelled
  BY <1>1 DEF Unkeyed, Cancelled
<1>3. active # NoSequence /\ cur[a].seq = active.id
  BY <1>1, <1>2 DEF Ordered, Live
<1>4. active.id = nextId - 1 /\ key.seq < nextId
  BY <1>3 DEF Ordered, Placed
<1>5. key.seq \in Nat /\ cur[a].seq \in Nat /\ nextId \in Nat
  BY <1>1 DEF SInv, History, GoodRaise, Raise, IInv, TypeOK
<1>6. cur[a].quiet /\ key.seq = cur[a].seq => key.quiet
  BY <1>1, <1>2 DEF Ordered, QuietFirst
<1>. QED  BY <1>3, <1>4, <1>5, <1>6 DEF Before

LEMMA RaiseTaskOrdered ==
  ASSUME SInv, Ordered, NEW a \in App, RaiseTask(a)
  PROVE  Ordered'
<1>1. UNCHANGED <<active, nextId, cancelled, appQ>>
  BY DEF RaiseTask, StartRaise, WarmUp, GetInLine, Locked, MakeKey, WaitForActivation,
         RaiseWindow, vars, rmVars
<1>2. CASE StartRaise(a)
  BY <1>2, StartOrdered
<1>. SUFFICES ASSUME ~StartRaise(a) PROVE Ordered'
  BY <1>2
<1>3. pc[a] # "idle" /\ UNCHANGED raises
  BY DEF RaiseTask, WarmUp, GetInLine, Locked, MakeKey, WaitForActivation, RaiseWindow
<1>4. CASE GiveUp(a) /\ UNCHANGED key
  BY <1>1, <1>3, <1>4, ReturnOrdered DEF GiveUp
<1>5. CASE Fail(a) /\ UNCHANGED key
  BY <1>1, <1>3, <1>5, ReportShape, ReturnOrdered DEF Fail
<1>6. CASE WarmUp(a)
  <2>1. CASE Goto(a, "warmed") /\ UNCHANGED <<cur, reports>>
    BY <1>1, <1>3, <1>6, <2>1, GotoOrdered DEF WarmUp, PC
  <2>. QED  BY <1>4, <1>5, <1>6, <2>1 DEF WarmUp
<1>7. CASE GetInLine(a)
  BY <1>1, <1>3, <1>7, GotoOrdered DEF GetInLine, PC
<1>8. CASE Locked(a)
  <2>1. CASE ~Cancelled(a) /\ Goto(a, "key") /\ UNCHANGED <<cur, reports>>
    <3>1. pc[a] = "locking" /\ UNCHANGED key
      BY <1>8 DEF Locked
    <3>2. Before(key, cur[a])
      BY <2>1, <3>1, UncancelledFollows
    <3>. QED  BY <1>1, <1>3, <2>1, <3>1, <3>2, GotoOrdered DEF PC
  <2>. QED  BY <1>4, <1>8, <2>1 DEF Locked
<1>9. CASE MakeKey(a)
  <2>1. ASSUME NEW l \in {"waiting", "raising"}, Goto(a, l), UNCHANGED <<cur, reports>>,
               key' = key \/ MakesKey(a)
        PROVE  Ordered'
    BY <1>1, <1>3, <1>9, <2>1, GotoOrdered DEF MakeKey, PC
  <2>. QED  BY <1>5, <1>9, <2>1 DEF MakeKey, MakesKey
<1>10. CASE WaitForActivation(a)
  <2>1. CASE Goto(a, "raising") /\ UNCHANGED <<cur, reports>>
    BY <1>1, <1>3, <1>10, <2>1, GotoOrdered DEF WaitForActivation, PC
  <2>. QED  BY <1>4, <1>10, <2>1 DEF WaitForActivation
<1>11. CASE RaiseWindow(a)
  <2>1. pc[a] = "raising" /\ UNCHANGED key
    BY <1>11 DEF RaiseWindow
  <2>2. CASE Completed(a) /\ Return(a)
    BY <1>1, <1>3, <2>1, <2>2, ReportShape, ReturnOrdered
  <2>3. CASE Completed(a) /\ UNCHANGED <<pc, cur>>
    <3>1. \A b \in App : Line(b)' = Line(b)
      BY <1>1, <1>3, <2>3, SameLines
    <3>2. \A b \in App : Shifts(b)
      BY <2>3, <3>1, SameShifts DEF Unkeyed
    <3>3. Reporting(a)
      <4>1. \A i \in DOMAIN Line(a)' : Unkeyed(a, i)' => i > 1
        BY <2>1, <2>3 DEF Unkeyed
      <4>. QED  BY <1>3, <2>3, <3>1, <4>1, ReportShape DEF Reporting
    <3>4. KeyInOrder'
      BY <2>1, <2>3 DEF Ordered, KeyInOrder, Before
    <3>. QED  BY <1>1, <2>1, <3>2, <3>3, <3>4, TaskOrdered
  <2>. QED  BY <1>5, <1>11, <2>1, <2>2, <2>3 DEF RaiseWindow
<1>. QED  BY <1>6, <1>7, <1>8, <1>9, <1>10, <1>11 DEF RaiseTask

-----------------------------------------------------------------------------
(* The steps of the manager that send nothing. *)

LEMMA QuietManagerOrdered ==
  ASSUME SInv, Ordered,
         UNCHANGED <<pc, cur, raises, appQ, key, nextId>>,
         ToSet(reports)' \subseteq ToSet(reports),
         cancelled \subseteq cancelled',
         \/ active' = NoSequence
         \/ /\ active # NoSequence
            /\ active'.id = active.id /\ active'.focus = active.focus,
         Live'
  PROVE  Ordered'
<1>1. \A b \in App : Line(b)' = Line(b)
  BY SameLines
<1>2. \A b \in App : \A i : Unkeyed(b, i)' <=> Unkeyed(b, i)
  BY DEF Unkeyed
<1>3. Placed'
  BY <1>1 DEF Ordered, Placed
<1>4. Disjoint'
  BY <1>1, <1>2 DEF Ordered, Disjoint
<1>5. FocusApart'
  BY <1>1 DEF Ordered, FocusApart
<1>6. QuietFirst'
  BY <1>1, <1>2 DEF Ordered, QuietFirst
<1>7. KeyInOrder'
  BY DEF Ordered, KeyInOrder, Before
<1>. QED  BY <1>3, <1>4, <1>5, <1>6, <1>7 DEF Ordered

(* With nothing pending, no raise has yet to begin that is not cancelled. *)
LEMMA NoneLive ==
  ASSUME SInv, Ordered, active = NoSequence \/ active.pending = {},
         NEW a \in App, NEW i \in DOMAIN Line(a), Unkeyed(a, i)
  PROVE  Line(a)[i].token \in cancelled
<1>1. Line(a)[i] \in GoodRaise
  BY LineType
<1>2. 1 \in DOMAIN Line(a)[i].wids
  BY <1>1 DEF GoodRaise, Raise
<1>3. ToSet(Line(a)[i].wids) # {}
  BY <1>2 DEF ToSet
<1>. QED  BY <1>3 DEF Ordered, Live

LEMMA ReportOrdered ==
  ASSUME SInv, Ordered, TakeReport
  PROVE  Ordered'
<1>. DEFINE e == Head(reports)
<1>1. reports \in Seq(GoodReport) /\ reports # << >> /\ reports' = Tail(reports)
  BY DEF SInv, Channels, TakeReport
<1>2. e \in ToSet(reports) /\ ToSet(reports)' \subseteq ToSet(reports)
  BY <1>1, TailSet
<1>3. PICK ws : Answered(ws, e.seq) /\ ws = e.wids
  <2>1. CASE e.failed
    BY <2>1 DEF TakeReport, Report, HandleRaiseRequestFailed
  <2>2. CASE ~e.failed
    <3>1. \E w \in e.wids : Answered({w}, e.seq)
      BY <2>2 DEF TakeReport, Report, HandleRaiseCompleted
    <3>2. \E w \in Window : e.wids = {w}
      BY <1>2, <2>2 DEF Ordered, Placed
    <3>. QED  BY <3>1, <3>2
  <2>. QED  BY <2>1, <2>2
<1>4. UNCHANGED <<pc, cur, raises, appQ, key, nextId, cancelled>>
  BY <1>3 DEF TakeReport, appVars, Answered
<1>. HIDE DEF e
<1>5. CASE ~IsActive(e.seq)
  <2>1. active' = active
    BY <1>3, <1>5 DEF Answered
  <2>2. Live'
    BY <1>4, <2>1, SameLines DEF Ordered, Live, Unkeyed, TokenOf
  <2>. QED  BY <1>2, <1>4, <2>1, <2>2, QuietManagerOrdered
<1>6. CASE IsActive(e.seq)
  <2>1. active # NoSequence /\ active.id = e.seq /\ active \in ActiveSequence
    BY <1>6 DEF IsActive, SInv, IInv, TypeOK
  <2>2. active' = [active EXCEPT !.pending = @ \ e.wids]
    BY <1>3, <1>6 DEF Answered
  <2>3. /\ active' \in ActiveSequence /\ active'.id = active.id /\ active'.focus = active.focus
        /\ active'.token = active.token /\ active'.pending = active.pending \ e.wids
    BY <2>1, <2>2 DEF ActiveSequence
  <2>4. active' # NoSequence
    BY <2>3, ConstantsAssumption
  <2>5. ASSUME NEW b \in App, NEW i \in DOMAIN Line(b), Unkeyed(b, i),
               Line(b)[i].token \notin cancelled
        PROVE  /\ Line(b)[i].token = TokenOf(active) /\ Line(b)[i].seq = active.id
               /\ ToSet(Line(b)[i].wids) \subseteq active.pending \ e.wids
    <3>1. /\ Line(b)[i].token = TokenOf(active) /\ Line(b)[i].seq = active.id
          /\ ToSet(Line(b)[i].wids) \subseteq active.pending
      BY <2>5 DEF Ordered, Live
    <3>2. ToSet(Line(b)[i].wids) \cap e.wids = {}
      BY <1>2, <2>1, <2>5, <3>1 DEF Ordered, Disjoint
    <3>. QED  BY <3>1, <3>2
  <2>6. Live'
    BY <1>4, <2>3, <2>4, <2>5, SameLines DEF Live, Unkeyed, TokenOf
  <2>. QED  BY <1>2, <1>4, <2>1, <2>3, <2>6, QuietManagerOrdered
<1>. QED  BY <1>5, <1>6

LEMMA TimeoutOrdered ==
  ASSUME SInv, Ordered, HandleRaiseTimeout, UNCHANGED <<appVars, reports>>
  PROVE  Ordered'
<1>1. UNCHANGED <<pc, cur, raises, appQ, key, nextId, reports>>
  BY DEF HandleRaiseTimeout, appVars
<1>2. CASE ~IsActive(Head(timeouts).id)
  <2>1. UNCHANGED <<active, cancelled>>
    BY <1>2 DEF HandleRaiseTimeout
  <2>2. Live'
    BY <1>1, <2>1, SameLines DEF Ordered, Live, Unkeyed, TokenOf
  <2>. QED  BY <1>1, <2>1, <2>2, QuietManagerOrdered
<1>3. CASE IsActive(Head(timeouts).id)
  <2>1. active # NoSequence /\ active \in ActiveSequence
    BY <1>3 DEF IsActive, SInv, IInv, TypeOK
  <2>2. /\ cancelled' = cancelled \cup {TokenOf(active)}
        /\ active' = [active EXCEPT !.pending = {}, !.token = @ + 1, !.timedOut = FALSE]
    BY <1>3 DEF HandleRaiseTimeout
  <2>3. active'.id = active.id /\ active'.focus = active.focus
    BY <2>1, <2>2 DEF ActiveSequence
  <2>4. Live'
    BY <1>1, <2>2, SameLines DEF Ordered, Live, Unkeyed, TokenOf
  <2>. QED  BY <1>1, <2>1, <2>2, <2>3, <2>4, QuietManagerOrdered
<1>. QED  BY <1>2, <1>3

LEMMA OtherOrdered ==
  ASSUME SInv, Ordered, UNCHANGED <<appVars, reports>>,
         \/ \E r \in Requests : HandleRaiseRequest(r)
         \/ TimerFires
         \/ Settled
         \/ EndSequence
         \/ SendFocus /\ UNCHANGED appQ /\ active' = NoSequence
  PROVE  Ordered'
<1>1. UNCHANGED <<pc, cur, raises, appQ, key, nextId, reports, cancelled>>
  BY DEF HandleRaiseRequest, TimerFires, Settled, EndSequence, SendFocus, appVars
<1>2. CASE active' = active
  <2>1. Live'
    BY <1>1, <1>2, SameLines DEF Ordered, Live, Unkeyed, TokenOf
  <2>. QED  BY <1>1, <1>2, <2>1, QuietManagerOrdered
<1>3. CASE TimerFires
  <2>1. active # NoSequence /\ active \in ActiveSequence
        /\ active' = [active EXCEPT !.timedOut = TRUE]
    BY <1>3 DEF TimerFires, SInv, IInv, TypeOK
  <2>2. /\ active' \in ActiveSequence /\ active'.id = active.id /\ active'.focus = active.focus
        /\ active'.token = active.token /\ active'.pending = active.pending
    BY <2>1 DEF ActiveSequence
  <2>3. active' # NoSequence
    BY <2>2, ConstantsAssumption
  <2>4. Live'
    BY <1>1, <2>2, <2>3, SameLines DEF Ordered, Live, Unkeyed, TokenOf
  <2>. QED  BY <1>1, <2>1, <2>2, <2>4, QuietManagerOrdered
<1>4. CASE active.pending = {} /\ active' = NoSequence
  <2>1. \A a \in App : \A i \in DOMAIN Line(a) : Unkeyed(a, i) => Line(a)[i].token \in cancelled
    BY <1>4, NoneLive
  <2>2. Live'
    BY <1>1, <2>1, SameLines DEF Live, Unkeyed
  <2>. QED  BY <1>1, <1>4, <2>2, QuietManagerOrdered
<1>. QED
  BY <1>2, <1>3, <1>4 DEF HandleRaiseRequest, Settled, EndSequence, SendFocus, FocusDue

-----------------------------------------------------------------------------
(* The steps that send raises. *)

(* Each element of a finite set is listed once. *)
LEMMA SetToSeqLists ==
  ASSUME NEW S, IsFiniteSet(S)
  PROVE  /\ SetToSeq(S) \in Seq(S)
         /\ \A i, j \in DOMAIN SetToSeq(S) : i # j => SetToSeq(S)[i] # SetToSeq(S)[j]
         /\ \A x \in S : \E i \in DOMAIN SetToSeq(S) : SetToSeq(S)[i] = x
<1>. DEFINE n == Cardinality(S)
<1>1. ExistsBijection(1..n, S) /\ n \in Nat
  BY FS_CardinalityType
<1>2. PICK f \in [1..n -> S] : IsInjective(f)
  BY <1>1 DEF ExistsBijection, Bijection, Injection, Surjection, IsInjective
<1>. DEFINE q == SetToSeq(S)
<1>3. q \in [1..n -> S] /\ IsInjective(q)
  BY <1>2 DEF SetToSeq
<1>4. IsFiniteSet(1..n) /\ Cardinality(1..n) = n
  BY <1>1, FS_Interval
<1>5. q \in Injection(1..n, S)
  BY <1>3 DEF IsInjective, Injection
<1>6. q \in Surjection(1..n, S)
  BY <1>4, <1>5, FS_Injection
<1>. HIDE DEF q, n
<1>7. q \in Seq(S)
  BY <1>1, <1>3
<1>8. DOMAIN q = 1..n
  BY <1>3
<1>9. \A x \in S : \E i \in DOMAIN q : q[i] = x
  BY <1>6, <1>8 DEF Surjection
<1>10. \A i, j \in DOMAIN q : i # j => q[i] # q[j]
  BY <1>3 DEF IsInjective
<1>. QED  BY <1>7, <1>9, <1>10 DEF q

(* An app is sent one raise for each batch of its windows. *)
LEMMA SentToLists ==
  ASSUME NEW r \in Requests, NEW a \in App, NEW id \in 1..MaxSeq
  PROVE  /\ SentTo(r, a, id) \in Seq(GoodRaise)
         /\ \A i \in DOMAIN SentTo(r, a, id) : \E b \in Sent(r) :
              Owner[Head(b)] = a /\ SentTo(r, a, id)[i] = RaiseOf(b, id)
         /\ \A i, j \in DOMAIN SentTo(r, a, id) :
              i # j => SentTo(r, a, id)[i].wids # SentTo(r, a, id)[j].wids
         /\ \A b \in Sent(r) : Owner[Head(b)] = a =>
              \E i \in DOMAIN SentTo(r, a, id) : SentTo(r, a, id)[i] = RaiseOf(b, id)
<1>. DEFINE S == {b \in Sent(r) : Owner[Head(b)] = a}
            bs == SetToSeq(S)
            q == SentTo(r, a, id)
<1>1. IsFiniteSet(S)
  <2>1. IsFiniteSet(r.raise) /\ S \subseteq r.raise
    BY RequestsAssumption DEF Sent
  <2>. QED  BY <2>1, FS_Subset
<1>2. /\ bs \in Seq(S)
      /\ \A i, j \in DOMAIN bs : i # j => bs[i] # bs[j]
      /\ \A x \in S : \E i \in DOMAIN bs : bs[i] = x
  BY <1>1, SetToSeqLists
<1>3. q = [i \in DOMAIN bs |-> RaiseOf(bs[i], id)]
  BY DEF SentTo
<1>4. q \in Seq(GoodRaise)
  BY SentToGood
<1>5. \A b \in S : b \in Sent(r) /\ Owner[Head(b)] = a
  OBVIOUS
<1>6. \A b \in Sent(r) : Owner[Head(b)] = a => b \in S
  OBVIOUS
<1>. HIDE DEF S, bs, q
<1>7. DOMAIN q = DOMAIN bs /\ \A i \in DOMAIN q : bs[i] \in S /\ q[i] = RaiseOf(bs[i], id)
  BY <1>2, <1>3
<1>8. \A i \in DOMAIN q : \E b \in Sent(r) : Owner[Head(b)] = a /\ q[i] = RaiseOf(b, id)
  BY <1>5, <1>7
<1>9. \A i, j \in DOMAIN q : i # j => q[i].wids # q[j].wids
  BY <1>2, <1>7 DEF RaiseOf
<1>10. \A b \in Sent(r) : Owner[Head(b)] = a => \E i \in DOMAIN q : q[i] = RaiseOf(b, id)
  BY <1>2, <1>6, <1>7
<1>. QED  BY <1>4, <1>8, <1>9, <1>10 DEF q

(* What is said of batches by their first window holds for all of them. *)
LEMMA BatchShape ==
  ASSUME NEW r \in Requests, NEW b \in r.raise
  PROVE  /\ b \in Seq(Window) /\ b # << >> /\ Head(b) \in Window
         /\ \A w \in ToSet(b) : w \in Window /\ Owner[w] = Owner[Head(b)]
         /\ \A c \in r.raise : b # c => ToSet(b) \cap ToSet(c) = {}
<1>1. /\ b \in Seq(Window) /\ b # << >>
      /\ \A i \in DOMAIN b : Owner[b[i]] = Owner[b[1]]
      /\ \A c \in r.raise : b # c => ToSet(b) \cap ToSet(c) = {}
  BY RequestsAssumption DEF RaiseRequest
<1>2. Head(b) = b[1] /\ 1 \in DOMAIN b
  BY <1>1
<1>. QED  BY <1>1, <1>2 DEF ToSet

(* Moving the focus window brings no others in. *)
LEMMA SwapLastSet ==
  ASSUME NEW b \in Seq(Window), NEW w \in ToSet(b)
  PROVE  /\ SwapLast(b, w) \in Seq(Window) /\ SwapLast(b, w) # << >>
         /\ ToSet(SwapLast(b, w)) \subseteq ToSet(b)
<1>1. \E i \in DOMAIN b : b[i] = w
  BY DEF ToSet
<1>. DEFINE i == CHOOSE i \in DOMAIN b : b[i] = w
<1>2. i \in DOMAIN b /\ b[i] = w
  BY <1>1
<1>3. SwapLast(b, w) = [b EXCEPT ![i] = b[Len(b)], ![Len(b)] = w]
  BY DEF SwapLast
<1>. HIDE DEF i
<1>4. Len(b) \in DOMAIN b
  BY <1>2
<1>5. \A k \in DOMAIN SwapLast(b, w) : \E m \in DOMAIN b : SwapLast(b, w)[k] = b[m]
  BY <1>2, <1>3, <1>4
<1>6. ToSet(SwapLast(b, w)) \subseteq ToSet(b)
  BY <1>5 DEF ToSet
<1>. QED  BY <1>6, SwapLastType

(* The focus raise is about one app, and no window of another batch. *)
LEMMA FocusBatchShape ==
  ASSUME NEW r \in Requests, FocusBatch(r) # << >>
  PROVE  /\ \A w \in ToSet(FocusBatch(r)) : Owner[w] = Owner[Head(FocusBatch(r))]
         /\ \A b \in r.raise \ FocusBatches(r) : ToSet(b) \cap ToSet(FocusBatch(r)) = {}
<1>1. HasFocus(r)
  BY DEF FocusBatch
<1>2. CASE FocusBatches(r) = {}
  <2>1. FocusBatch(r) = <<r.focus>>
    BY <1>1, <1>2 DEF FocusBatch
  <2>2. ToSet(FocusBatch(r)) = {r.focus} /\ Head(FocusBatch(r)) = r.focus
    BY <2>1 DEF ToSet
  <2>. QED  BY <1>2, <2>2 DEF FocusBatches
<1>3. CASE FocusBatches(r) # {}
  <2>. DEFINE f == CHOOSE b \in FocusBatches(r) : TRUE
  <2>1. f \in FocusBatches(r) /\ FocusBatch(r) = SwapLast(f, r.focus)
    BY <1>1, <1>3 DEF FocusBatch
  <2>. HIDE DEF f
  <2>2. f \in r.raise /\ r.focus \in ToSet(f)
    BY <2>1 DEF FocusBatches
  <2>3. /\ f \in Seq(Window)
        /\ \A w \in ToSet(f) : Owner[w] = Owner[Head(f)]
        /\ \A c \in r.raise : f # c => ToSet(f) \cap ToSet(c) = {}
    BY <2>2, BatchShape
  <2>4. FocusBatch(r) \in Seq(Window) /\ ToSet(FocusBatch(r)) \subseteq ToSet(f)
    BY <2>1, <2>2, <2>3, SwapLastSet
  <2>5. Head(FocusBatch(r)) \in ToSet(f)
    BY <2>4, TailSet
  <2>6. ASSUME NEW b \in r.raise \ FocusBatches(r) PROVE ToSet(b) \cap ToSet(FocusBatch(r)) = {}
    <3>1. b # f
      BY <2>1
    <3>. QED  BY <2>3, <2>4, <3>1
  <2>. QED  BY <2>3, <2>4, <2>5, <2>6
<1>. QED  BY <1>2, <1>3

(* A line that is joined by others. *)
LEMMA JoinedIndex ==
  \A s, t \in Seq(GoodRaise) :
    /\ \A i \in DOMAIN s : i \in DOMAIN (s \o t) /\ (s \o t)[i] = s[i]
    /\ \A i \in DOMAIN (s \o t) :
         \/ i \in DOMAIN s /\ (s \o t)[i] = s[i]
         \/ /\ i \in Nat /\ Len(s) \in Nat /\ i > Len(s)
            /\ i - Len(s) \in DOMAIN t /\ (s \o t)[i] = t[i - Len(s)]
    /\ \A i \in DOMAIN t : Len(s) + i \in DOMAIN (s \o t) /\ (s \o t)[Len(s) + i] = t[i]
OBVIOUS

LEMMA JoinLines ==
  ASSUME SInv, NEW new \in [App -> Seq(GoodRaise)],
         appQ' = [b \in App |-> appQ[b] \o new[b]],
         UNCHANGED <<pc, cur, raises>>
  PROVE  \A b \in App : Line(b)' = Line(b) \o new[b]
<1>1. raises \in [App -> Seq(GoodRaise)] /\ appQ \in [App -> Seq(GoodRaise)]
  BY DEF SInv, Channels
<1>2. ASSUME NEW b \in App PROVE Line(b)' = Line(b) \o new[b]
  <2>1. InHand(b) \in Seq(GoodRaise)
    BY DEF SInv, Tasks, TaskOK, InHand
  <2>2. Line(b)' = (InHand(b) \o raises[b]) \o (appQ[b] \o new[b])
    BY DEF Line, InHand
  <2>3. raises[b] \in Seq(GoodRaise) /\ appQ[b] \in Seq(GoodRaise) /\ new[b] \in Seq(GoodRaise)
    BY <1>1
  <2>4. (InHand(b) \o raises[b]) \o (appQ[b] \o new[b])
          = ((InHand(b) \o raises[b]) \o appQ[b]) \o new[b]
    <3>1. PICK h \in Seq(GoodRaise) : h = InHand(b)
      BY <2>1
    <3>2. PICK s \in Seq(GoodRaise) : s = raises[b]
      BY <2>3
    <3>3. PICK t \in Seq(GoodRaise) : t = appQ[b]
      BY <2>3
    <3>4. PICK u \in Seq(GoodRaise) : u = new[b]
      BY <2>3
    <3>5. (h \o s) \o (t \o u) = ((h \o s) \o t) \o u
      OBVIOUS
    <3>. QED  BY <3>1, <3>2, <3>3, <3>4, <3>5
  <2>. QED  BY <2>2, <2>4 DEF Line
<1>. QED  BY <1>2

(* What is sent is for the active sequence, which waits for it. *)
NewPlaced(new) ==
  \A b \in App : \A i \in DOMAIN new[b] :
    /\ \A w \in ToSet(new[b][i].wids) : Owner[w] = b
    /\ new[b][i].seq < nextId'
    /\ active' # NoSequence /\ new[b][i].seq = active'.id
    /\ new[b][i].token = TokenOf(active')
    /\ ToSet(new[b][i].wids) \subseteq active'.pending

(* Its windows are in nothing else of that sequence. *)
NewDisjoint(new) ==
  \A b \in App : \A i \in DOMAIN new[b] :
    /\ \A j \in DOMAIN new[b] :
         i # j => ToSet(new[b][i].wids) \cap ToSet(new[b][j].wids) = {}
    /\ \A j \in DOMAIN Line(b) :
         Line(b)[j].seq = new[b][i].seq =>
           ToSet(Line(b)[j].wids) \cap ToSet(new[b][i].wids) = {}
    /\ \A e \in ToSet(reports) :
         e.seq = new[b][i].seq => ToSet(new[b][i].wids) \cap e.wids = {}

(* It is quiet only if all of that sequence is. *)
NewQuiet(new) ==
  \A b \in App : \A i \in DOMAIN new[b] : new[b][i].quiet =>
    /\ \A c \in App : \A j \in DOMAIN Line(c) :
         Line(c)[j].seq = new[b][i].seq => Line(c)[j].quiet
    /\ \A c \in App : \A j \in DOMAIN new[c] : new[c][j].quiet
    /\ key.seq = new[b][i].seq => key.quiet

ActivePlaced ==
  active # NoSequence =>
    /\ active.id = nextId - 1
    /\ \A w \in ToSet(active.focus) : Owner[w] = Owner[Head(active.focus)]

(* Raises are sent while no other has yet to begin that is not cancelled. *)
LEMMA SendOrdered ==
  ASSUME SInv, Ordered, NEW new \in [App -> Seq(GoodRaise)],
         \A b \in App : Line(b)' = Line(b) \o new[b],
         UNCHANGED <<pc, cur, key, reports, cancelled>>,
         active = NoSequence \/ active.pending = {},
         nextId \in Nat, nextId' \in Nat, nextId <= nextId',
         NewPlaced(new), NewDisjoint(new), NewQuiet(new), ActivePlaced', FocusApart'
  PROVE  Ordered'
<1>1. \A b \in App : Line(b) \in Seq(GoodRaise) /\ new[b] \in Seq(GoodRaise)
  BY LineType
<1>2. ASSUME NEW b \in App, NEW i \in DOMAIN Line(b)'
      PROVE  \/ i \in DOMAIN Line(b) /\ Line(b)'[i] = Line(b)[i]
             \/ /\ i \in Nat /\ Len(Line(b)) \in Nat /\ i > Len(Line(b))
                /\ i - Len(Line(b)) \in DOMAIN new[b] /\ Line(b)'[i] = new[b][i - Len(Line(b))]
  <2>1. \A k \in DOMAIN (Line(b) \o new[b]) :
          \/ k \in DOMAIN Line(b) /\ (Line(b) \o new[b])[k] = Line(b)[k]
          \/ /\ k \in Nat /\ Len(Line(b)) \in Nat /\ k > Len(Line(b))
             /\ k - Len(Line(b)) \in DOMAIN new[b]
             /\ (Line(b) \o new[b])[k] = new[b][k - Len(Line(b))]
    BY <1>1, JoinedIndex
  <2>. QED  BY <2>1
<1>3. ASSUME NEW b \in App, NEW i \in DOMAIN Line(b)'
      PROVE  \/ i \in DOMAIN Line(b) /\ Line(b)'[i] = Line(b)[i]
             \/ \E k \in DOMAIN new[b] : Line(b)'[i] = new[b][k]
  BY <1>2
<1>4. \A b \in App : \A i : Unkeyed(b, i)' <=> Unkeyed(b, i)
  BY DEF Unkeyed
<1>5. \A b \in App : \A i \in DOMAIN Line(b) : Unkeyed(b, i) => Line(b)[i].token \in cancelled
  BY NoneLive
<1>6. \A b \in App : \A i \in DOMAIN Line(b) : Line(b)[i].seq \in Nat
  <2>1. \A b \in App : \A i \in DOMAIN Line(b) : Line(b)[i] \in GoodRaise
    BY <1>1
  <2>. QED  BY <2>1 DEF GoodRaise, Raise
<1>7. reports \in Seq(GoodReport) /\ key.seq \in Nat
  BY DEF SInv, Channels, History
<1>8. \A e \in ToSet(reports) : e.seq \in Nat
  <2>1. \A e \in ToSet(reports) : e \in GoodReport
    BY <1>7 DEF ToSet
  <2>. QED  BY <2>1, ConstantsAssumption DEF GoodReport
<1>9. Placed'
  <2>1. ASSUME NEW b \in App, NEW i \in DOMAIN Line(b)'
        PROVE  (\A w \in ToSet(Line(b)'[i].wids) : Owner[w] = b) /\ Line(b)'[i].seq < nextId'
    <3>1. CASE \E k \in DOMAIN new[b] : Line(b)'[i] = new[b][k]
      BY <3>1 DEF NewPlaced
    <3>2. CASE i \in DOMAIN Line(b) /\ Line(b)'[i] = Line(b)[i]
      <4>1. (\A w \in ToSet(Line(b)[i].wids) : Owner[w] = b) /\ Line(b)[i].seq < nextId
        BY <3>2 DEF Ordered, Placed
      <4>. QED  BY <1>6, <3>2, <4>1
    <3>. QED  BY <1>3, <3>1, <3>2
  <2>2. \A e \in ToSet(reports) : e.seq < nextId' /\ (e.failed \/ \E w \in Window : e.wids = {w})
    BY <1>8 DEF Ordered, Placed
  <2>3. key'.seq < nextId'
    BY <1>7 DEF Ordered, Placed
  <2>. QED  BY <2>1, <2>2, <2>3 DEF Placed, ActivePlaced
<1>10. Disjoint'
  <2>1. ASSUME NEW b \in App, NEW i \in DOMAIN Line(b)', NEW j \in DOMAIN Line(b)',
               i < j, Line(b)'[i].seq = Line(b)'[j].seq
        PROVE  ToSet(Line(b)'[i].wids) \cap ToSet(Line(b)'[j].wids) = {}
    <3>. DEFINE n == Len(Line(b))
    <3>1. DOMAIN Line(b) = 1..n /\ n \in Nat
      BY <1>1
    <3>. HIDE DEF n
    <3>2. CASE j \in DOMAIN Line(b) /\ Line(b)'[j] = Line(b)[j]
      <4>1. ~(i > n)
        BY <2>1, <3>1, <3>2, <1>2
      <4>2. i \in DOMAIN Line(b) /\ Line(b)'[i] = Line(b)[i]
        BY <1>2, <4>1 DEF n
      <4>. QED  BY <2>1, <3>2, <4>2 DEF Ordered, Disjoint
    <3>3. CASE /\ j \in Nat /\ j > n
               /\ j - n \in DOMAIN new[b] /\ Line(b)'[j] = new[b][j - n]
      <4>1. CASE i \in DOMAIN Line(b) /\ Line(b)'[i] = Line(b)[i]
        <5>1. PICK k \in DOMAIN new[b] : k = j - n
          BY <3>3
        <5>2. \A x \in DOMAIN Line(b) : Line(b)[x].seq = new[b][k].seq =>
                ToSet(Line(b)[x].wids) \cap ToSet(new[b][k].wids) = {}
          BY DEF NewDisjoint
        <5>3. Line(b)'[j] = new[b][k]
          BY <3>3, <5>1
        <5>. QED  BY <2>1, <4>1, <5>2, <5>3
      <4>2. CASE /\ i \in Nat /\ i > n
                 /\ i - n \in DOMAIN new[b] /\ Line(b)'[i] = new[b][i - n]
        <5>1. i - n # j - n
          BY <2>1, <3>1, <3>3, <4>2
        <5>. QED  BY <3>3, <4>2, <5>1 DEF NewDisjoint
      <4>. QED  BY <1>2, <4>1, <4>2 DEF n
    <3>. QED  BY <1>2, <3>2, <3>3 DEF n
  <2>2. ASSUME NEW b \in App, NEW i \in DOMAIN Line(b)', NEW e \in ToSet(reports),
               Unkeyed(b, i), Line(b)'[i].seq = e.seq
        PROVE  ToSet(Line(b)'[i].wids) \cap e.wids = {}
    <3>1. CASE \E k \in DOMAIN new[b] : Line(b)'[i] = new[b][k]
      BY <2>2, <3>1 DEF NewDisjoint
    <3>2. CASE i \in DOMAIN Line(b) /\ Line(b)'[i] = Line(b)[i]
      BY <2>2, <3>2 DEF Ordered, Disjoint
    <3>. QED  BY <1>3, <3>1, <3>2
  <2>. QED  BY <1>4, <2>1, <2>2 DEF Disjoint
<1>11. Live'
  <2>. SUFFICES ASSUME NEW b \in App, NEW i \in DOMAIN Line(b)', Unkeyed(b, i),
                       Line(b)'[i].token \notin cancelled
                PROVE  /\ active' # NoSequence
                       /\ Line(b)'[i].token = TokenOf(active') /\ Line(b)'[i].seq = active'.id
                       /\ ToSet(Line(b)'[i].wids) \subseteq active'.pending
    BY <1>4 DEF Live, TokenOf
  <2>. QED  BY <1>3, <1>5 DEF NewPlaced
<1>12. QuietFirst'
  <2>. SUFFICES ASSUME NEW b \in App, NEW i \in DOMAIN Line(b)', Unkeyed(b, i),
                       Line(b)'[i].token \notin cancelled, Line(b)'[i].quiet
                PROVE  /\ \A c \in App : \A j \in DOMAIN Line(c)' :
                            Line(c)'[j].seq = Line(b)'[i].seq => Line(c)'[j].quiet
                       /\ key.seq = Line(b)'[i].seq => key.quiet
    BY <1>4 DEF QuietFirst
  <2>1. PICK k \in DOMAIN new[b] : Line(b)'[i] = new[b][k]
    BY <1>3, <1>5
  <2>. QED  BY <1>3, <2>1 DEF NewQuiet, NewPlaced
<1>13. KeyInOrder'
  BY DEF Ordered, KeyInOrder, Before
<1>. QED  BY <1>9, <1>10, <1>11, <1>12, <1>13 DEF Ordered

(* The focus raise is the only one of its phase. *)
LEMMA FocusOrdered ==
  ASSUME SInv, Ordered, UNCHANGED <<appVars, reports>>, SendFocus, active' # NoSequence
  PROVE  Ordered'
<1>. DEFINE a == Owner[Head(active.focus)]
            new == [b \in App |-> IF b = a THEN <<FocusRaise>> ELSE << >>]
<1>1. /\ active # NoSequence /\ active.pending = {} /\ active.focus # << >>
      /\ active' = [active EXCEPT !.pending = ToSet(active.focus), !.focus = << >>]
      /\ appQ' = [appQ EXCEPT ![a] = Append(@, FocusRaise)]
      /\ UNCHANGED <<nextId, cancelled, pc, cur, raises, key, reports>>
  BY DEF SendFocus, FocusDue, appVars
<1>2. active \in ActiveSequence /\ nextId \in Nat /\ active.id \in 1..MaxSeq
  BY <1>1 DEF SInv, SeqBound, IInv, TypeOK
<1>3. /\ active.focus \in Seq(Window) /\ active.token \in Nat /\ active.id \in Nat
      /\ active'.id = active.id /\ active'.token = active.token
      /\ active'.pending = ToSet(active.focus) /\ active'.focus = << >>
  BY <1>1, <1>2 DEF ActiveSequence
<1>4. FocusRaise \in GoodRaise
  BY <1>1, <1>2, <1>3 DEF FocusRaise, GoodRaise, Raise, TokenOf
<1>5. /\ FocusRaise.wids = active.focus /\ FocusRaise.token = TokenOf(active)
      /\ FocusRaise.seq = active.id /\ FocusRaise.quiet = FALSE
  BY DEF FocusRaise
<1>6. a \in App
  BY <1>1, <1>3, ConstantsAssumption
<1>. HIDE DEF a
<1>7. /\ new[a] = <<FocusRaise>> /\ \A b \in App \ {a} : new[b] = << >>
      /\ new \in [App -> Seq(GoodRaise)]
  BY <1>4, <1>6
<1>. HIDE DEF new
<1>8. \A b \in App : \A i \in DOMAIN new[b] : b = a /\ i = 1 /\ new[b][i] = FocusRaise
  <2>1. \A i \in DOMAIN new[a] : i = 1 /\ new[a][i] = FocusRaise
    BY <1>7
  <2>2. \A b \in App \ {a} : DOMAIN new[b] = {}
    BY <1>7
  <2>. QED  BY <2>1, <2>2
<1>9. appQ' = [b \in App |-> appQ[b] \o new[b]]
  <2>1. appQ \in [App -> Seq(GoodRaise)]
    BY DEF SInv, Channels
  <2>2. \A s \in Seq(GoodRaise) : Append(s, FocusRaise) = s \o <<FocusRaise>> /\ s \o << >> = s
    BY <1>4
  <2>3. appQ'[a] = appQ[a] \o new[a]
    BY <1>1, <1>6, <1>7, <2>1, <2>2
  <2>4. \A b \in App \ {a} : appQ'[b] = appQ[b] \o new[b]
    BY <1>1, <1>7, <2>1, <2>2
  <2>. QED  BY <1>1, <2>1, <2>3, <2>4
<1>10. \A b \in App : Line(b)' = Line(b) \o new[b]
  BY <1>1, <1>7, <1>9, JoinLines
<1>11. active.id = nextId - 1 /\ \A w \in ToSet(active.focus) : Owner[w] = a
  BY <1>1 DEF Ordered, Placed, a
<1>12. NewPlaced(new)
  <2>1. active.id < nextId'
    BY <1>1, <1>2, <1>3, <1>11
  <2>2. TokenOf(active') = TokenOf(active)
    BY <1>3 DEF TokenOf
  <2>. QED  BY <1>3, <1>5, <1>8, <1>11, <2>1, <2>2 DEF NewPlaced
<1>13. NewDisjoint(new)
  BY <1>1, <1>5, <1>8 DEF NewDisjoint, Ordered, FocusApart
<1>14. NewQuiet(new)
  BY <1>5, <1>8 DEF NewQuiet
<1>15. ActivePlaced' /\ FocusApart'
  <2>1. ToSet(active'.focus) = {}
    BY <1>3 DEF ToSet
  <2>. QED  BY <1>1, <1>3, <1>11, <2>1 DEF ActivePlaced, FocusApart
<1>16. nextId <= nextId'
  BY <1>1, <1>2
<1>. QED  BY <1>1, <1>2, <1>7, <1>10, <1>12, <1>13, <1>14, <1>15, <1>16, SendOrdered

(* A sequence begins with the batches of its request but the focus one. *)
LEMMA BeginOrdered ==
  ASSUME SInv, Ordered, UNCHANGED <<appVars, reports>>, ProcessQueuedResponses
  PROVE  Ordered'
<1>. DEFINE r == Head(queued)
            new == [b \in App |-> SentTo(r, b, nextId)]
<1>1. /\ active = NoSequence /\ queued # << >> /\ nextId' = nextId + 1
      /\ active' = IF NewSequence(r).pending # {} \/ FocusBatch(r) # << >>
                   THEN NewSequence(r) ELSE NoSequence
      /\ appQ' = [b \in App |-> appQ[b] \o SentTo(r, b, nextId)]
      /\ UNCHANGED <<cancelled, pc, cur, raises, key, reports>>
  BY DEF ProcessQueuedResponses, appVars
<1>2. queued \in Seq(Requests) /\ nextId \in Nat \ {0} /\ MaxSeq \in Nat
  BY ConstantsAssumption DEF SInv, IInv, TypeOK
<1>3. r \in Requests /\ nextId \in 1..MaxSeq
  <2>1. r \in Requests /\ Len(queued) \in Nat /\ Len(queued) > 0
    BY <1>1, <1>2
  <2>. QED  BY <1>2, <2>1 DEF SInv, SeqBound
<1>. HIDE DEF r
<1>4. /\ NewSequence(r).id = nextId /\ NewSequence(r).focus = FocusBatch(r)
      /\ NewSequence(r).pending = UNION {ToSet(b) : b \in Sent(r)}
      /\ TokenOf(NewSequence(r)) = <<nextId, 0>>
  BY DEF NewSequence, TokenOf
<1>5. \A b \in Sent(r) : b \in r.raise \ FocusBatches(r)
  BY DEF Sent
<1>6. ASSUME NEW b \in App
      PROVE  /\ new[b] \in Seq(GoodRaise)
             /\ \A i \in DOMAIN new[b] : \E c \in Sent(r) :
                  Owner[Head(c)] = b /\ new[b][i] = RaiseOf(c, nextId)
             /\ \A i, j \in DOMAIN new[b] : i # j => new[b][i].wids # new[b][j].wids
  BY <1>3, SentToLists
<1>7. new \in [App -> Seq(GoodRaise)] /\ appQ' = [b \in App |-> appQ[b] \o new[b]]
  BY <1>1, <1>6
<1>. HIDE DEF new
<1>8. \A b \in App : Line(b)' = Line(b) \o new[b]
  BY <1>1, <1>7, JoinLines
<1>9. ASSUME NEW b \in App, NEW i \in DOMAIN new[b]
      PROVE  \E c \in Sent(r) : /\ Owner[Head(c)] = b /\ new[b][i].wids = c
                                /\ new[b][i].token = <<nextId, 0>>
                                /\ new[b][i].seq = nextId /\ new[b][i].quiet
  <2>1. PICK c \in Sent(r) : Owner[Head(c)] = b /\ new[b][i] = RaiseOf(c, nextId)
    BY <1>6
  <2>2. /\ RaiseOf(c, nextId).wids = c /\ RaiseOf(c, nextId).token = <<nextId, 0>>
        /\ RaiseOf(c, nextId).seq = nextId /\ RaiseOf(c, nextId).quiet = TRUE
    BY DEF RaiseOf
  <2>. QED  BY <2>1, <2>2
<1>10. \A b \in App : \A j \in DOMAIN Line(b) : Line(b)[j].seq # nextId
  <2>1. \A b \in App : \A j \in DOMAIN Line(b) : Line(b)[j].seq < nextId
    BY DEF Ordered, Placed
  <2>2. \A b \in App : \A j \in DOMAIN Line(b) : Line(b)[j] \in GoodRaise
    BY LineType
  <2>. QED  BY <1>2, <2>1, <2>2 DEF GoodRaise, Raise
<1>11. (\A e \in ToSet(reports) : e.seq # nextId) /\ key.seq # nextId
  <2>1. (\A e \in ToSet(reports) : e.seq < nextId) /\ key.seq < nextId
    BY DEF Ordered, Placed
  <2>2. reports \in Seq(GoodReport) /\ key.seq \in Nat
    BY DEF SInv, Channels, History
  <2>3. \A e \in ToSet(reports) : e \in GoodReport
    BY <2>2 DEF ToSet
  <2>. QED  BY <1>2, <2>1, <2>2, <2>3 DEF GoodReport
<1>12. NewPlaced(new)
  <2>. SUFFICES ASSUME NEW b \in App, NEW i \in DOMAIN new[b]
                PROVE  /\ \A w \in ToSet(new[b][i].wids) : Owner[w] = b
                       /\ new[b][i].seq < nextId'
                       /\ active' # NoSequence /\ new[b][i].seq = active'.id
                       /\ new[b][i].token = TokenOf(active')
                       /\ ToSet(new[b][i].wids) \subseteq active'.pending
    BY DEF NewPlaced
  <2>1. PICK c \in Sent(r) : /\ Owner[Head(c)] = b /\ new[b][i].wids = c
                             /\ new[b][i].token = <<nextId, 0>>
                             /\ new[b][i].seq = nextId /\ new[b][i].quiet
    BY <1>9
  <2>2. /\ c \in Seq(Window) /\ c # << >>
        /\ \A w \in ToSet(c) : w \in Window /\ Owner[w] = Owner[Head(c)]
    BY <1>3, <1>5, BatchShape
  <2>3. ToSet(c) \subseteq NewSequence(r).pending
    BY <1>4
  <2>4. Head(c) \in ToSet(c)
    BY <2>2, TailSet
  <2>5. active' = NewSequence(r)
    BY <1>1, <2>3, <2>4
  <2>6. NewSequence(r) # NoSequence
    BY <1>2, <1>3, NewSequenceType, ConstantsAssumption
  <2>. QED  BY <1>1, <1>2, <1>4, <2>1, <2>2, <2>3, <2>5, <2>6
<1>13. NewDisjoint(new)
  <2>1. ASSUME NEW b \in App, NEW i \in DOMAIN new[b], NEW j \in DOMAIN new[b], i # j
        PROVE  ToSet(new[b][i].wids) \cap ToSet(new[b][j].wids) = {}
    <3>1. new[b][i].wids \in Sent(r) /\ new[b][j].wids \in Sent(r)
      BY <1>9
    <3>2. new[b][i].wids # new[b][j].wids
      BY <1>6, <2>1
    <3>. QED  BY <1>3, <1>5, <3>1, <3>2, BatchShape
  <2>. QED  BY <1>9, <1>10, <1>11, <2>1 DEF NewDisjoint
<1>14. NewQuiet(new)
  BY <1>9, <1>10, <1>11 DEF NewQuiet
<1>15. ActivePlaced'
  <2>1. ASSUME FocusBatch(r) # << >>
        PROVE  \A w \in ToSet(FocusBatch(r)) : Owner[w] = Owner[Head(FocusBatch(r))]
    BY <1>3, <2>1, FocusBatchShape
  <2>2. FocusBatch(r) = << >> => ToSet(FocusBatch(r)) = {}
    BY DEF ToSet
  <2>. QED  BY <1>1, <1>2, <1>4, <2>1, <2>2 DEF ActivePlaced
<1>16. FocusApart'
  <2>. SUFFICES ASSUME active' # NoSequence, active'.focus # << >> PROVE FocusApart'
    BY DEF FocusApart
  <2>1. active'.id = nextId /\ active'.focus = FocusBatch(r) /\ FocusBatch(r) # << >>
    BY <1>1, <1>4
  <2>2. \A c \in r.raise \ FocusBatches(r) : ToSet(c) \cap ToSet(FocusBatch(r)) = {}
    BY <1>3, <2>1, FocusBatchShape
  <2>3. ASSUME NEW b \in App, NEW i \in DOMAIN Line(b)', Line(b)'[i].seq = nextId
        PROVE  Line(b)'[i].quiet /\ ToSet(Line(b)'[i].wids) \cap ToSet(FocusBatch(r)) = {}
    <3>1. Line(b) \in Seq(GoodRaise) /\ new[b] \in Seq(GoodRaise)
      BY <1>6, <1>7, LineType
    <3>2. \A k \in DOMAIN (Line(b) \o new[b]) :
            \/ k \in DOMAIN Line(b) /\ (Line(b) \o new[b])[k] = Line(b)[k]
            \/ k - Len(Line(b)) \in DOMAIN new[b]
               /\ (Line(b) \o new[b])[k] = new[b][k - Len(Line(b))]
      BY <3>1, JoinedIndex
    <3>3. \E k \in DOMAIN new[b] : Line(b)'[i] = new[b][k]
      BY <1>8, <1>10, <2>3, <3>2
    <3>. QED  BY <1>5, <1>9, <2>2, <3>3
  <2>. QED  BY <1>1, <1>11, <2>1, <2>3 DEF FocusApart
<1>17. nextId \in Nat /\ nextId' \in Nat /\ nextId <= nextId'
  BY <1>1, <1>2
<1>. QED  BY <1>1, <1>7, <1>8, <1>12, <1>13, <1>14, <1>15, <1>16, <1>17, SendOrdered

-----------------------------------------------------------------------------
LEMMA InitOrdered == SysInit => Ordered
<1>. SUFFICES ASSUME SysInit PROVE Ordered
  OBVIOUS
<1>1. /\ active = NoSequence /\ nextId = 1 /\ reports = << >> /\ key.seq = 0
      /\ \A a \in App : pc[a] = "idle" /\ Line(a) = << >>
  <2>1. \A a \in App : pc[a] = "idle" /\ raises[a] = << >> /\ appQ[a] = << >>
    BY DEF SysInit, Init
  <2>2. (<< >> \o << >>) \o << >> = << >>
    OBVIOUS
  <2>. QED  BY <2>1, <2>2 DEF SysInit, Init, RMInit, Line, InHand
<1>2. ToSet(reports) = {} /\ \A a \in App : DOMAIN Line(a) = {}
  BY <1>1 DEF ToSet
<1>. QED  BY <1>1, <1>2 DEF Ordered, Placed, Disjoint, FocusApart, Live, QuietFirst, KeyInOrder

LEMMA NextOrdered == SInv /\ Ordered /\ [SysNext]_sysVars => Ordered'
<1>. SUFFICES ASSUME SInv, Ordered, [SysNext]_sysVars PROVE Ordered'
  OBVIOUS
<1>1. CASE Manager
  <2>1. UNCHANGED <<appVars, reports>>
    BY <1>1 DEF Manager
  <2>2. CASE SendFocus
    <3>1. active' = NoSequence => UNCHANGED appQ
      <4>1. active \in ActiveSequence /\ FocusDue
        BY <2>2 DEF SendFocus, FocusDue, SInv, IInv, TypeOK
      <4>2. CASE Reachable(active, Owner[Head(active.focus)])
        <5>1. active' = [active EXCEPT !.pending = ToSet(active.focus), !.focus = << >>]
          BY <2>2, <4>2 DEF SendFocus
        <5>2. active.focus \in Seq(Window)
          BY <4>1 DEF ActiveSequence
        <5>3. ToSet(active.focus) \in SUBSET Window /\ << >> \in Seq(Window)
          BY <5>2 DEF ToSet
        <5>4. active' \in ActiveSequence
          BY <4>1, <5>1, <5>3 DEF ActiveSequence
        <5>. QED  BY <5>4, ConstantsAssumption
      <4>3. CASE ~Reachable(active, Owner[Head(active.focus)])
        BY <2>2, <4>3 DEF SendFocus
      <4>. QED  BY <4>2, <4>3
    <3>. QED  BY <2>1, <2>2, <3>1, FocusOrdered, OtherOrdered
  <2>3. CASE ProcessQueuedResponses
    BY <2>1, <2>3, BeginOrdered
  <2>4. CASE HandleRaiseTimeout
    BY <2>1, <2>4, TimeoutOrdered
  <2>5. CASE Settled \/ EndSequence \/ \E r \in Requests : HandleRaiseRequest(r)
    BY <2>1, <2>5, OtherOrdered
  <2>. QED  BY <1>1, <2>2, <2>3, <2>4, <2>5 DEF Manager, Settle, ProcessActiveSequence
<1>2. CASE TakeReport
  BY <1>2, ReportOrdered
<1>3. CASE TimeOut
  BY <1>3, OtherOrdered DEF TimeOut
<1>4. ASSUME NEW a \in App, PassRaise(a) \/ EndIncoming(a) \/ Activation(a) PROVE Ordered'
  BY <1>4, IncomingOrdered
<1>5. ASSUME NEW a \in App, RaiseTask(a) PROVE Ordered'
  BY <1>5, RaiseTaskOrdered
<1>6. CASE UNCHANGED sysVars
  <2>1. /\ UNCHANGED <<pc, cur, raises, appQ, key, nextId, reports, cancelled, active>>
    BY <1>6 DEF sysVars, appVars, vars, rmVars
  <2>2. Live'
    BY <2>1, SameLines DEF Ordered, Live, Unkeyed, TokenOf
  <2>. QED  BY <2>1, <2>2, QuietManagerOrdered
<1>. QED  BY <1>1, <1>2, <1>3, <1>4, <1>5, <1>6 DEF SysNext

(* Raises are carried out in the order of their requests. *)
THEOREM OrderInvariant == SysSpec => []Ordered
<1>1. SysInit => Ordered
  BY InitOrdered
<1>2. SInv /\ Ordered /\ [SysNext]_sysVars => Ordered'
  BY NextOrdered
<1>. QED  BY <1>1, <1>2, SystemInvariant, PTL DEF SysSpec

(* Only the raise in hand of an app that is to make a window key does so. *)
LEMMA KeyStep ==
  ASSUME [SysNext]_sysVars
  PROVE  key' = key \/ \E a \in App : MakeKey(a) /\ MakesKey(a)
<1>1. ASSUME NEW a \in App, RaiseTask(a) PROVE key' = key \/ (MakeKey(a) /\ MakesKey(a))
  BY <1>1 DEF RaiseTask, StartRaise, WarmUp, GetInLine, Locked, MakeKey, WaitForActivation,
              RaiseWindow, MakesKey
<1>2. CASE Manager \/ TakeReport \/ TimeOut \/ UNCHANGED sysVars
  BY <1>2 DEF Manager, TakeReport, TimeOut, sysVars, appVars
<1>3. ASSUME NEW a \in App, PassRaise(a) \/ EndIncoming(a) \/ Activation(a) PROVE key' = key
  BY <1>3 DEF PassRaise, EndIncoming, Activation, appVars
<1>. QED  BY <1>1, <1>2, <1>3 DEF SysNext

LEMMA KeyAdvances == SInv /\ Ordered /\ [SysNext]_sysVars => Before(key, key')
<1>. SUFFICES ASSUME SInv, Ordered, [SysNext]_sysVars PROVE Before(key, key')
  OBVIOUS
<1>1. CASE key' = key
  BY <1>1 DEF Before
<1>2. ASSUME NEW a \in App, MakesKey(a) PROVE Before(key, key')
  BY <1>2 DEF MakesKey, Ordered, KeyInOrder, Before
<1>. QED  BY <1>1, <1>2, KeyStep

(* However late an app is, it never takes the focus from a later raise. *)
THEOREM FocusTakenInOrderHolds == SysSpec => FocusTakenInOrder
<1>1. SInv /\ Ordered /\ [SysNext]_sysVars => [Before(key, key')]_sysVars
  BY KeyAdvances
<1>. QED  BY <1>1, SystemInvariant, OrderInvariant, PTL DEF SysSpec, FocusTakenInOrder

-----------------------------------------------------------------------------
(* As long as nothing has failed, the raise that took the mouse along has  *)
(* made its window key or has yet to.                                      *)
Wanted == [seq |-> warped, quiet |-> FALSE]

FocusComes ==
  ~disturbed =>
    /\ cancelled = {} /\ open = App /\ timeouts = << >>
    /\ warped > 0 =>
         \/ Before(Wanted, key)
         \/ \E a \in App : \E i \in DOMAIN Line(a) :
              Unkeyed(a, i) /\ Line(a)[i].seq = warped /\ ~Line(a)[i].quiet

LEMMA BeforeTransitive ==
  ASSUME NEW r, NEW s, NEW t, r.seq \in Nat, s.seq \in Nat, t.seq \in Nat,
         Before(r, s), Before(s, t)
  PROVE  Before(r, t)
BY DEF Before

(* A raise of the line that has yet to begin stays there. *)
Stays(b, i) ==
  \E j \in DOMAIN Line(b)' : Unkeyed(b, j)' /\ Line(b)'[j] = Line(b)[i]

LEMMA WarpedStays ==
  ASSUME SInv, Ordered, FocusComes, [SysNext]_sysVars, ~disturbed,
         UNCHANGED <<warped, cancelled, open, timeouts>>,
         \A a \in App : \A i \in DOMAIN Line(a) :
           Unkeyed(a, i) => Stays(a, i) \/ (Line(a)[i] = cur[a] /\ MakesKey(a))
  PROVE  FocusComes'
<1>1. Before(key, key')
  BY KeyAdvances
<1>2. warped \in Nat /\ key.seq \in Nat
  BY DEF SInv, IInv, TypeOK, History
<1>3. key'.seq \in Nat
  BY NextSInv DEF SInv, History
<1>4. Before(Wanted, key) => Before(Wanted, key')
  <2>1. Wanted.seq \in Nat
    BY <1>2 DEF Wanted
  <2>. QED  BY <1>1, <1>2, <1>3, <2>1, BeforeTransitive
<1>5. ASSUME NEW a \in App, NEW i \in DOMAIN Line(a),
             Unkeyed(a, i), Line(a)[i].seq = warped, ~Line(a)[i].quiet
      PROVE  \/ Before(Wanted, key')
             \/ \E j \in DOMAIN Line(a)' :
                  Unkeyed(a, j)' /\ Line(a)'[j].seq = warped /\ ~Line(a)'[j].quiet
  <2>1. CASE Stays(a, i)
    BY <1>5, <2>1 DEF Stays
  <2>2. CASE Line(a)[i] = cur[a] /\ MakesKey(a)
    BY <1>5, <2>2 DEF Wanted, Before, MakesKey
  <2>. QED  BY <1>5, <2>1, <2>2
<1>6. Wanted' = Wanted
  BY DEF Wanted
<1>7. warped > 0 =>
        \/ Before(Wanted, key')
        \/ \E a \in App : \E j \in DOMAIN Line(a)' :
             Unkeyed(a, j)' /\ Line(a)'[j].seq = warped /\ ~Line(a)'[j].quiet
  BY <1>4, <1>5 DEF FocusComes
<1>. QED  BY <1>6, <1>7 DEF FocusComes, Before

LEMMA SameStays ==
  ASSUME NEW b \in App, Line(b)' = Line(b), Unkeyed(b, 1) => Unkeyed(b, 1)',
         NEW i \in DOMAIN Line(b), Unkeyed(b, i)
  PROVE  Stays(b, i)
BY DEF Stays, Unkeyed

LEMMA TailStays ==
  ASSUME SInv, NEW b \in App, Line(b)' = Tail(Line(b)), pc'[b] = "idle",
         NEW i \in DOMAIN Line(b), i # 1
  PROVE  Stays(b, i)
<1>1. Line(b) \in Seq(GoodRaise)
  BY LineType
<1>2. i - 1 \in DOMAIN Tail(Line(b)) /\ Tail(Line(b))[i - 1] = Line(b)[i]
  BY <1>1
<1>. QED  BY <1>2 DEF Stays, Unkeyed

LEMMA JoinStays ==
  ASSUME SInv, NEW b \in App, NEW t \in Seq(GoodRaise), Line(b)' = Line(b) \o t, UNCHANGED pc,
         NEW i \in DOMAIN Line(b), Unkeyed(b, i)
  PROVE  Stays(b, i)
<1>1. Line(b) \in Seq(GoodRaise)
  BY LineType
<1>2. \A k \in DOMAIN Line(b) :
        k \in DOMAIN (Line(b) \o t) /\ (Line(b) \o t)[k] = Line(b)[k]
  BY <1>1, JoinedIndex
<1>. QED  BY <1>2 DEF Stays, Unkeyed

(* The raise task, if no call fails. *)
LEMMA TaskComes ==
  ASSUME SInv, Ordered, FocusComes, NEW a \in App, RaiseTask(a), ~disturbed, ~disturbed'
  PROVE  FocusComes'
<1>1. UNCHANGED <<warped, cancelled, open, timeouts, appQ>> /\ [SysNext]_sysVars
  BY DEF RaiseTask, StartRaise, WarmUp, GetInLine, Locked, MakeKey, WaitForActivation,
         RaiseWindow, vars, rmVars, SysNext
<1>2. cancelled = {}
  BY DEF FocusComes
<1>3. pc \in [App -> PC]
  BY DEF SInv, Tasks, PC
<1>4. ASSUME NEW l \in PC \ {"idle"}, Goto(a, l), pc[a] # "idle", UNCHANGED <<cur, raises>>,
             \/ l \notin {"waiting", "raising"} \/ pc[a] = "waiting" \/ MakesKey(a)
      PROVE  FocusComes'
  <2>1. pc'[a] = l /\ \A b \in App \ {a} : pc'[b] = pc[b]
    BY <1>3, <1>4 DEF Goto
  <2>2. \A b \in App : Line(b)' = Line(b)
    BY <1>1, <1>4, GotoLines
  <2>3. ASSUME NEW b \in App, NEW i \in DOMAIN Line(b), Unkeyed(b, i)
        PROVE  Stays(b, i) \/ (Line(b)[i] = cur[b] /\ MakesKey(b))
    <3>1. CASE Unkeyed(b, 1) => Unkeyed(b, 1)'
      BY <2>2, <2>3, <3>1, SameStays
    <3>2. CASE Unkeyed(b, 1) /\ ~Unkeyed(b, 1)'
      <4>1. b = a /\ MakesKey(a)
        BY <1>4, <2>1, <3>2 DEF Unkeyed
      <4>2. Line(a)[1] = cur[a] /\ DOMAIN Line(a) \subseteq Nat \ {0}
        BY <1>4, LineType
      <4>3. CASE i = 1
        BY <4>1, <4>2, <4>3
      <4>4. CASE i # 1
        <5>1. Unkeyed(b, i)'
          BY <4>1, <4>2, <4>4 DEF Unkeyed
        <5>. QED  BY <2>2, <5>1 DEF Stays
      <4>. QED  BY <4>3, <4>4
    <3>. QED  BY <3>1, <3>2
  <2>. QED  BY <1>1, <2>3, WarpedStays
<1>5. CASE StartRaise(a)
  <2>1. pc[a] = "idle"
    BY <1>5 DEF StartRaise
  <2>2. pc'[a] = "warm" /\ \A b \in App : Line(b)' = Line(b)
    BY <1>2, <1>5, StartLines
  <2>3. \A b \in App \ {a} : pc'[b] = pc[b]
    BY <1>3, <1>5 DEF StartRaise, Goto
  <2>4. \A b \in App : Unkeyed(b, 1) => Unkeyed(b, 1)'
    BY <2>2, <2>3 DEF Unkeyed
  <2>. QED  BY <1>1, <2>2, <2>4, SameStays, WarpedStays
<1>6. CASE WarmUp(a)
  <2>1. pc[a] = "warm" /\ Goto(a, "warmed") /\ UNCHANGED <<cur, raises>>
    BY <1>2, <1>6 DEF WarmUp, GiveUp, Cancelled, Fail
  <2>. QED  BY <1>4, <2>1 DEF PC
<1>7. CASE GetInLine(a)
  <2>1. pc[a] = "warmed" /\ Goto(a, "locking") /\ UNCHANGED <<cur, raises>>
    BY <1>7 DEF GetInLine
  <2>. QED  BY <1>4, <2>1 DEF PC
<1>8. CASE Locked(a)
  <2>1. pc[a] = "locking" /\ Goto(a, "key") /\ UNCHANGED <<cur, raises>>
    BY <1>2, <1>8 DEF Locked, GiveUp, Cancelled
  <2>. QED  BY <1>4, <2>1 DEF PC
<1>9. CASE MakeKey(a)
  <2>1. /\ pc[a] = "key" /\ (\E l \in {"waiting", "raising"} : Goto(a, l))
        /\ UNCHANGED <<cur, raises>> /\ MakesKey(a)
    BY <1>9 DEF MakeKey, MakesKey, Fail
  <2>. QED  BY <1>4, <2>1 DEF PC
<1>10. CASE WaitForActivation(a)
  <2>1. pc[a] = "waiting" /\ Goto(a, "raising") /\ UNCHANGED <<cur, raises>>
    BY <1>2, <1>10 DEF WaitForActivation, GiveUp, Cancelled
  <2>. QED  BY <1>4, <2>1 DEF PC
<1>11. CASE RaiseWindow(a)
  <2>1. pc[a] = "raising" /\ UNCHANGED raises
    BY <1>11 DEF RaiseWindow
  <2>2. CASE Return(a)
    <3>1. /\ \A b \in App \ {a} : Line(b)' = Line(b)
          /\ Line(a)' = Tail(Line(a)) /\ pc'[a] = "idle"
      BY <1>1, <2>1, <2>2, ReturnLines
    <3>2. \A b \in App \ {a} : pc'[b] = pc[b]
      BY <1>3, <2>2 DEF Return, Goto
    <3>3. ASSUME NEW b \in App \ {a}, NEW i \in DOMAIN Line(b), Unkeyed(b, i) PROVE Stays(b, i)
      BY <3>1, <3>2, <3>3, SameStays DEF Unkeyed
    <3>4. ASSUME NEW i \in DOMAIN Line(a), Unkeyed(a, i) PROVE Stays(a, i)
      <4>1. i # 1
        BY <2>1, <3>4 DEF Unkeyed
      <4>. QED  BY <3>1, <4>1, TailStays
    <3>. QED  BY <1>1, <3>3, <3>4, WarpedStays
  <2>3. CASE UNCHANGED <<pc, cur>>
    <3>1. \A b \in App : Line(b)' = Line(b)
      BY <1>1, <2>1, <2>3, SameLines
    <3>2. \A b \in App : Unkeyed(b, 1) => Unkeyed(b, 1)'
      BY <2>3 DEF Unkeyed
    <3>. QED  BY <1>1, <3>1, <3>2, SameStays, WarpedStays
  <2>. QED  BY <1>11, <2>2, <2>3 DEF RaiseWindow, Fail
<1>. QED  BY <1>5, <1>6, <1>7, <1>8, <1>9, <1>10, <1>11 DEF RaiseTask

LEMMA UnchangedComes ==
  ASSUME SInv, Ordered, FocusComes, [SysNext]_sysVars, ~disturbed,
         UNCHANGED <<warped, cancelled, open, timeouts, pc>>,
         \A b \in App : Line(b)' = Line(b)
  PROVE  FocusComes'
<1>1. \A b \in App : Unkeyed(b, 1) => Unkeyed(b, 1)'
  BY DEF Unkeyed
<1>. QED  BY <1>1, SameStays, WarpedStays

(* The focus raise joins its app's line as the mouse is warped. *)
LEMMA SendComes ==
  ASSUME SInv, Ordered, FocusComes, SendFocus, Manager, ~disturbed
  PROVE  FocusComes'
<1>1. /\ active # NoSequence /\ active.focus # << >>
      /\ UNCHANGED <<nextId, cancelled, open, timeouts, pc, cur, raises, disturbed, key>>
      /\ [SysNext]_sysVars
  BY DEF SendFocus, FocusDue, Manager, appVars, SysNext
<1>2. open = App /\ cancelled = {} /\ timeouts = << >>
  BY DEF FocusComes
<1>3. active \in ActiveSequence /\ appQ \in [App -> Seq(GoodRaise)] /\ active.id \in 1..MaxSeq
  BY <1>1 DEF SInv, SeqBound, Channels, IInv, TypeOK
<1>4. active.focus \in Seq(Window) /\ active.token \in Nat /\ active.id \in Nat
  BY <1>3 DEF ActiveSequence
<1>5. PICK a \in App : a = Owner[Head(active.focus)]
  BY <1>1, <1>4, ConstantsAssumption
<1>6. CASE a \notin active.handles
  <2>1. UNCHANGED <<warped, appQ>>
    BY <1>5, <1>6 DEF SendFocus, Reachable
  <2>. QED  BY <1>1, <2>1, SameLines, UnchangedComes
<1>7. CASE a \in active.handles
  <2>1. /\ appQ' = [appQ EXCEPT ![a] = Append(@, FocusRaise)]
        /\ warped' = warped \/ warped' = active.id
    BY <1>2, <1>5, <1>7 DEF SendFocus, Reachable
  <2>2. FocusRaise \in GoodRaise /\ FocusRaise.seq = active.id /\ ~FocusRaise.quiet
    BY <1>1, <1>3, <1>4 DEF FocusRaise, GoodRaise, Raise, TokenOf
  <2>3. Line(a) \in Seq(GoodRaise) /\ (pc[a] # "idle" => Line(a) # << >>)
    BY <1>5, LineType
  <2>. PICK f \in GoodRaise : f = FocusRaise
    BY <2>2
  <2>4. PICK q \in Seq(GoodRaise) : q = <<f>>
    <3>1. <<f>> \in Seq(GoodRaise)
      OBVIOUS
    <3>. QED  BY <3>1
  <2>. PICK k \in Nat : k = Len(Line(a)) + 1
    BY <2>3
  <2>5. Line(a)' = Line(a) \o q /\ \A b \in App \ {a} : Line(b)' = Line(b)
    <3>. PICK s \in Seq(GoodRaise) : s = appQ[a]
      BY <1>3
    <3>1. Append(appQ[a], FocusRaise) = appQ[a] \o q
      <4>1. Append(s, f) = s \o <<f>>
        OBVIOUS
      <4>. QED  BY <2>4, <4>1
    <3>. DEFINE new == [b \in App |-> IF b = a THEN q ELSE << >>]
    <3>2. new[a] = q /\ (\A b \in App \ {a} : new[b] = << >>) /\ new \in [App -> Seq(GoodRaise)]
      BY <1>5, <2>4
    <3>. HIDE DEF new
    <3>3. \A b \in App \ {a} : appQ'[b] = appQ[b] /\ appQ[b] \o new[b] = appQ[b]
      BY <1>3, <2>1, <3>2
    <3>4. appQ'[a] = appQ[a] \o new[a]
      BY <1>3, <1>5, <2>1, <3>1, <3>2
    <3>5. appQ' = [b \in App |-> appQ[b] \o new[b]]
      BY <1>3, <2>1, <3>3, <3>4
    <3>6. \A b \in App : Line(b)' = Line(b) \o new[b]
      BY <1>1, <3>2, <3>5, JoinLines
    <3>7. \A b \in App \ {a} : Line(b) \o new[b] = Line(b)
      <4>1. \A b \in App : Line(b) \in Seq(GoodRaise)
        BY LineType
      <4>. QED  BY <3>2, <4>1
    <3>8. Line(a)' = Line(a) \o q
      BY <1>5, <3>2, <3>6
    <3>9. \A b \in App \ {a} : Line(b)' = Line(b)
      <4>. SUFFICES ASSUME NEW b \in App, b # a PROVE Line(b)' = Line(b)
        OBVIOUS
      <4>1. Line(b)' = Line(b) \o new[b]
        BY <3>6
      <4>2. Line(b) \o new[b] = Line(b)
        BY <3>7
      <4>. QED  BY <4>1, <4>2
    <3>. QED  BY <3>8, <3>9
  <2>6. k \in DOMAIN Line(a)' /\ Line(a)'[k] = FocusRaise /\ (k > 1 \/ Line(a) = << >>)
    <3>1. PICK l \in Seq(GoodRaise) : l = Line(a)
      BY <2>3
    <3>2. k \in DOMAIN (l \o q) /\ (l \o q)[k] = f /\ (k > 1 \/ l = << >>)
      BY <2>4, <3>1
    <3>. QED  BY <2>5, <3>1, <3>2
  <2>7. Unkeyed(a, k)'
    BY <1>1, <2>3, <2>6 DEF Unkeyed
  <2>8. CASE warped' = active.id
    <3>1. open' = App /\ cancelled' = {} /\ timeouts' = << >>
      BY <1>1, <1>2
    <3>2. Line(a)'[k].seq = warped' /\ ~Line(a)'[k].quiet
      BY <2>2, <2>6, <2>8
    <3>3. \E b \in App : \E i \in (DOMAIN Line(b))' :
            /\ Unkeyed(b, i)' /\ Line(b)'[i].seq = warped' /\ ~Line(b)'[i].quiet
      BY <1>5, <2>6, <2>7, <3>2
    <3>. QED  BY <3>1, <3>3 DEF FocusComes
  <2>9. CASE warped' = warped
    <3>1. ASSUME NEW b \in App, NEW i \in DOMAIN Line(b), Unkeyed(b, i) PROVE Stays(b, i)
      <4>1. CASE b = a
        <5>1. Line(b)' = Line(b) \o q /\ UNCHANGED pc
          BY <1>1, <2>5, <4>1
        <5>. HIDE <4>1
        <5>. QED  BY <2>4, <3>1, <5>1, JoinStays
      <4>2. CASE b # a
        BY <1>1, <2>5, <3>1, <4>2, SameStays DEF Unkeyed
      <4>. QED  BY <4>1, <4>2
    <3>. QED  BY <1>1, <2>9, <3>1, WarpedStays
  <2>. QED  BY <2>1, <2>8, <2>9
<1>. QED  BY <1>6, <1>7

LEMMA BeginComes ==
  ASSUME SInv, Ordered, FocusComes, ProcessQueuedResponses, Manager, ~disturbed
  PROVE  FocusComes'
<1>. DEFINE r == Head(queued)
            new == [b \in App |-> SentTo(r, b, nextId)]
<1>1. /\ queued # << >> /\ appQ' = [b \in App |-> appQ[b] \o SentTo(r, b, nextId)]
      /\ UNCHANGED <<warped, cancelled, open, timeouts, pc, cur, raises>>
      /\ [SysNext]_sysVars
  BY DEF ProcessQueuedResponses, Manager, appVars, SysNext
<1>2. queued \in Seq(Requests) /\ nextId \in Nat \ {0} /\ MaxSeq \in Nat
  BY ConstantsAssumption DEF SInv, IInv, TypeOK
<1>3. r \in Requests /\ nextId \in 1..MaxSeq
  <2>1. r \in Requests /\ Len(queued) \in Nat /\ Len(queued) > 0
    BY <1>1, <1>2
  <2>. QED  BY <1>2, <2>1 DEF SInv, SeqBound
<1>. HIDE DEF r
<1>4. new \in [App -> Seq(GoodRaise)] /\ appQ' = [b \in App |-> appQ[b] \o new[b]]
  BY <1>1, <1>3, SentToGood
<1>. HIDE DEF new
<1>5. \A b \in App : Line(b)' = Line(b) \o new[b] /\ new[b] \in Seq(GoodRaise)
  BY <1>1, <1>4, JoinLines
<1>. QED  BY <1>1, <1>5, JoinStays, WarpedStays

LEMMA InitComes == SysInit => FocusComes
BY DEF SysInit, Init, RMInit, FocusComes

LEMMA NextComes == SInv /\ Ordered /\ FocusComes /\ [SysNext]_sysVars => FocusComes'
<1>. SUFFICES ASSUME SInv, Ordered, FocusComes, [SysNext]_sysVars PROVE FocusComes'
  OBVIOUS
<1>1. CASE disturbed \/ disturbed'
  <2>1. disturbed /\ disturbed' \in BOOLEAN => disturbed'
    BY DEF SysNext, Manager, TakeReport, TimeOut, PassRaise, EndIncoming, Activation, RaiseTask,
           StartRaise, WarmUp, GetInLine, Locked, MakeKey, WaitForActivation, RaiseWindow,
           GiveUp, Fail, sysVars
  <2>2. disturbed' \in BOOLEAN /\ disturbed \in BOOLEAN
    BY NextSInv DEF SInv, History
  <2>. QED  BY <1>1, <2>1, <2>2 DEF FocusComes
<1>. SUFFICES ASSUME ~disturbed, ~disturbed' PROVE FocusComes'
  BY <1>1
<1>2. CASE Manager
  <2>1. UNCHANGED <<pc, cur, raises>>
    BY <1>2 DEF Manager, appVars
  <2>2. CASE SendFocus
    BY <1>2, <2>2, SendComes
  <2>3. CASE ProcessQueuedResponses
    BY <1>2, <2>3, BeginComes
  <2>4. CASE HandleRaiseTimeout
    BY <2>4 DEF HandleRaiseTimeout, FocusComes
  <2>5. CASE Settled \/ EndSequence \/ \E r \in Requests : HandleRaiseRequest(r)
    <3>1. UNCHANGED <<warped, cancelled, open, timeouts, appQ>>
      BY <2>5 DEF Settled, EndSequence, HandleRaiseRequest
    <3>. QED  BY <2>1, <3>1, SameLines, UnchangedComes
  <2>. QED  BY <1>2, <2>2, <2>3, <2>4, <2>5 DEF Manager, Settle, ProcessActiveSequence
<1>3. CASE TakeReport
  <2>1. UNCHANGED <<warped, cancelled, open, timeouts, appQ, pc, cur, raises>>
    BY <1>3 DEF TakeReport, Report, HandleRaiseCompleted, HandleRaiseRequestFailed, Answered,
                appVars
  <2>. QED  BY <2>1, SameLines, UnchangedComes
<1>4. CASE TimeOut
  BY <1>4 DEF TimeOut
<1>5. ASSUME NEW a \in App, PassRaise(a) \/ Activation(a) PROVE FocusComes'
  <2>1. UNCHANGED <<warped, cancelled, open, timeouts, pc>>
    BY <1>5 DEF PassRaise, Activation, AppTakes, rmVars, vars
  <2>2. \A b \in App : Line(b)' = Line(b)
    <3>1. CASE Activation(a)
      BY <3>1, SameLines DEF Activation, vars
    <3>. QED  BY <1>5, <3>1, PassLines
  <2>. QED  BY <2>1, <2>2, UnchangedComes
<1>6. ASSUME NEW a \in App, EndIncoming(a) PROVE FALSE
  BY <1>6 DEF EndIncoming
<1>7. ASSUME NEW a \in App, RaiseTask(a) PROVE FocusComes'
  BY <1>7, TaskComes
<1>8. CASE UNCHANGED sysVars
  <2>1. UNCHANGED <<warped, cancelled, open, timeouts, appQ, pc, cur, raises>>
    BY <1>8 DEF sysVars, vars, rmVars, appVars
  <2>. QED  BY <2>1, SameLines, UnchangedComes
<1>. QED  BY <1>2, <1>3, <1>4, <1>5, <1>6, <1>7, <1>8 DEF SysNext

(* When all is done and nothing went wrong, the focus is where the mouse   *)
(* was taken, or where a later request wanted it.                          *)
THEOREM FocusFollowsMouseHolds == SysSpec => []FocusFollowsMouse
<1>1. SysInit => FocusComes
  BY InitComes
<1>2. SInv /\ Ordered /\ FocusComes /\ [SysNext]_sysVars => FocusComes'
  BY NextComes
<1>3. SInv /\ FocusComes => FocusFollowsMouse
  <2>. SUFFICES ASSUME SInv, FocusComes, Idle, ~disturbed, warped > 0
                PROVE  key.seq >= warped /\ (key.seq = warped => ~key.quiet)
    BY DEF FocusFollowsMouse
  <2>1. ASSUME NEW a \in App PROVE DOMAIN Line(a) = {}
    <3>1. pc[a] = "idle" /\ raises[a] = << >> /\ appQ[a] = << >>
      BY DEF Idle
    <3>2. (<< >> \o << >>) \o << >> = << >>
      OBVIOUS
    <3>. QED  BY <3>1, <3>2 DEF Line, InHand
  <2>2. Before(Wanted, key)
    BY <2>1 DEF FocusComes
  <2>3. warped \in Nat /\ key.seq \in Nat
    BY DEF SInv, IInv, TypeOK, History
  <2>. QED  BY <2>2, <2>3 DEF Before, Wanted
<1>. QED  BY <1>1, <1>2, <1>3, SystemInvariant, OrderInvariant, PTL DEF SysSpec

-----------------------------------------------------------------------------
(* What the manager waits for comes: reported already, or in the line of   *)
(* its app with a token that is not cancelled.                             *)
PendingComes ==
  active # NoSequence => \A w \in active.pending :
    \/ Owner[w] \notin open
    \/ \E e \in ToSet(reports) : e.seq = active.id /\ w \in e.wids
    \/ \E i \in DOMAIN Line(Owner[w]) :
         /\ Line(Owner[w])[i].seq = active.id /\ Line(Owner[w])[i].token = TokenOf(active)
         /\ w \in Rest(Owner[w], i)

(* The window is still to be raised, or is reported now. *)
Keeps(b, i, w) ==
  \/ \E j \in DOMAIN Line(b)' : Line(b)'[j] = Line(b)[i] /\ w \in Rest(b, j)'
  \/ \E e \in ToSet(reports)' : e.seq = Line(b)[i].seq /\ w \in e.wids

(* The manager goes on waiting for what it waited for, or for less. *)
WaitsOn ==
  active' # NoSequence =>
    /\ active # NoSequence /\ active'.id = active.id /\ TokenOf(active)' = TokenOf(active)
    /\ active'.pending \subseteq active.pending

(* A report is not lost while the manager waits for one of its windows. *)
ReportsStay ==
  active' # NoSequence => \A e \in ToSet(reports) :
    e.seq = active.id => e \in ToSet(reports)' \/ e.wids \cap active'.pending = {}

LEMMA ActiveUncancelled ==
  ASSUME SInv, active # NoSequence
  PROVE  TokenOf(active) \notin cancelled
<1>1. active.id \in Nat /\ active.token \in Nat
  BY DEF SInv, IInv, TypeOK, ActiveSequence
<1>. QED  BY <1>1 DEF SInv, IInv, TokensBehind, TokenOf

LEMMA PendingStays ==
  ASSUME SInv, PendingComes, WaitsOn, ReportsStay, open' \subseteq open,
         \A b \in open' : \A i \in DOMAIN Line(b) : \A w \in Rest(b, i) :
           Line(b)[i].token \notin cancelled => Keeps(b, i, w)
  PROVE  PendingComes'
<1>. SUFFICES ASSUME active' # NoSequence, NEW w \in active'.pending, Owner[w] \in open'
              PROVE  \/ \E e \in ToSet(reports)' : e.seq = active'.id /\ w \in e.wids
                     \/ \E i \in DOMAIN Line(Owner[w])' :
                          /\ Line(Owner[w])'[i].seq = active'.id
                          /\ Line(Owner[w])'[i].token = TokenOf(active)'
                          /\ w \in Rest(Owner[w], i)'
  BY DEF PendingComes
<1>1. PICK b \in open' : b = Owner[w]
  OBVIOUS
<1>2. /\ active # NoSequence /\ active'.id = active.id /\ TokenOf(active)' = TokenOf(active)
      /\ w \in active.pending /\ TokenOf(active) \notin cancelled
  <2>1. active # NoSequence => TokenOf(active) \notin cancelled
    BY ActiveUncancelled
  <2>. QED  BY <2>1 DEF WaitsOn
<1>3. CASE \E e \in ToSet(reports) : e.seq = active.id /\ w \in e.wids
  BY <1>2, <1>3 DEF ReportsStay
<1>4. CASE \E i \in DOMAIN Line(b) :
             /\ Line(b)[i].seq = active.id /\ Line(b)[i].token = TokenOf(active)
             /\ w \in Rest(b, i)
  <2>1. PICK i \in DOMAIN Line(b) :
             /\ Line(b)[i].seq = active.id /\ Line(b)[i].token = TokenOf(active)
             /\ w \in Rest(b, i)
    BY <1>4
  <2>2. Keeps(b, i, w)
    BY <1>2, <2>1
  <2>3. \/ \E j \in DOMAIN Line(b)' : Line(b)'[j] = Line(b)[i] /\ w \in Rest(b, j)'
        \/ \E e \in ToSet(reports)' : e.seq = Line(b)[i].seq /\ w \in e.wids
    BY <2>2 DEF Keeps
  <2>. QED  BY <1>1, <1>2, <2>1, <2>3
<1>. QED  BY <1>1, <1>2, <1>3, <1>4 DEF PendingComes

LEMMA SameKeeps ==
  ASSUME NEW b \in App, Line(b)' = Line(b), at'[b] = at[b],
         NEW i \in DOMAIN Line(b), NEW w \in Rest(b, i)
  PROVE  Keeps(b, i, w)
<1>1. Rest(b, i)' = Rest(b, i)
  BY DEF Rest
<1>. QED  BY <1>1 DEF Keeps

LEMMA TailKeeps ==
  ASSUME SInv, NEW b \in App, Line(b)' = Tail(Line(b)), at'[b] = 1,
         NEW i \in DOMAIN Line(b), NEW w \in Rest(b, i), i # 1
  PROVE  Keeps(b, i, w)
<1>1. Line(b) \in Seq(GoodRaise)
  BY LineType
<1>2. i - 1 \in DOMAIN Tail(Line(b)) /\ Tail(Line(b))[i - 1] = Line(b)[i]
  BY <1>1
<1>3. PICK k \in 1..Len(Line(b)[i].wids) : w = Line(b)[i].wids[k]
  BY DEF Rest
<1>4. w \in Rest(b, i - 1)'
  BY <1>2, <1>3 DEF Rest
<1>. QED  BY <1>2, <1>4 DEF Keeps

LEMMA AtType ==
  ASSUME SInv, NEW a \in App
  PROVE  at[a] \in Nat \ {0}
<1>1. CASE pc[a] = "idle"
  BY <1>1, LineType
<1>2. CASE pc[a] # "idle"
  <2>1. cur[a] \in GoodRaise /\ at[a] \in DOMAIN cur[a].wids
    BY <1>2, LineType
  <2>2. cur[a].wids \in Seq(Window)
    BY <2>1 DEF GoodRaise, Raise
  <2>. QED  BY <2>1, <2>2
<1>. QED  BY <1>1, <1>2

LEMMA AppendLast ==
  ASSUME NEW S, NEW s \in Seq(S), NEW e
  PROVE  e \in ToSet(Append(s, e)) /\ ToSet(s) \subseteq ToSet(Append(s, e))
<1>1. DOMAIN Append(s, e) = DOMAIN s \cup {Len(s) + 1}
      /\ Append(s, e)[Len(s) + 1] = e /\ \A i \in DOMAIN s : Append(s, e)[i] = s[i]
  OBVIOUS
<1>. QED  BY <1>1 DEF ToSet

(* The raise task raises what it has in hand, or says that it failed. *)
LEMMA TaskKeeps ==
  ASSUME SInv, NEW a \in App, RaiseTask(a),
         NEW b \in App, NEW i \in DOMAIN Line(b), NEW w \in Rest(b, i),
         Line(b)[i].token \notin cancelled
  PROVE  Keeps(b, i, w)
<1>1. /\ pc \in [App -> PC] /\ at \in [App -> Nat] /\ reports \in Seq(GoodReport)
      /\ UNCHANGED appQ
  BY DEF SInv, Tasks, PC, Channels, RaiseTask, StartRaise, WarmUp, GetInLine, Locked, MakeKey,
         WaitForActivation, RaiseWindow, vars
<1>2. Line(b) \in Seq(GoodRaise) /\ i \in Nat \ {0}
  <2>1. Line(b) \in Seq(GoodRaise)
    BY LineType
  <2>. QED  BY <2>1
<1>3. w \in ToSet(Line(b)[i].wids)
  <2>1. at[b] \in Nat \ {0}
    BY AtType
  <2>. QED  BY <2>1 DEF Rest, ToSet
<1>4. ASSUME NEW l \in PC \ {"idle"}, Goto(a, l), pc[a] # "idle",
             UNCHANGED <<cur, raises, at>>
      PROVE  Keeps(b, i, w)
  <2>1. Line(b)' = Line(b)
    BY <1>1, <1>4, GotoLines
  <2>. QED  BY <1>4, <2>1, SameKeeps
<1>5. ASSUME Return(a), pc[a] # "idle", UNCHANGED raises,
             (b = a /\ i = 1) => Keeps(b, i, w)
      PROVE  Keeps(b, i, w)
  <2>1. /\ \A c \in App \ {a} : Line(c)' = Line(c)
        /\ Line(a)' = Tail(Line(a)) /\ at'[a] = 1
    BY <1>1, <1>5, ReturnLines
  <2>2. CASE b # a
    <3>1. at'[b] = at[b]
      BY <1>1, <1>5, <2>2 DEF Return
    <3>. QED  BY <2>1, <2>2, <3>1, SameKeeps
  <2>3. CASE b = a /\ i # 1
    BY <2>1, <2>3, TailKeeps
  <2>. QED  BY <1>5, <2>2, <2>3
<1>6. ASSUME Fail(a), pc[a] # "idle", UNCHANGED raises PROVE Keeps(b, i, w)
  <2>. DEFINE e == [wids |-> ToSet(cur[a].wids), seq |-> cur[a].seq, failed |-> TRUE]
  <2>1. Return(a) /\ reports' = Append(reports, e)
    BY <1>6 DEF Fail
  <2>2. b = a /\ i = 1 => Line(b)[i] = cur[a]
    BY <1>6, LineType
  <2>3. e \in ToSet(reports)'
    BY <1>1, <2>1, AppendLast
  <2>4. b = a /\ i = 1 => Keeps(b, i, w)
    BY <1>3, <2>2, <2>3 DEF Keeps
  <2>. QED  BY <1>5, <1>6, <2>1, <2>4
<1>7. ASSUME GiveUp(a), pc[a] # "idle", UNCHANGED raises PROVE Keeps(b, i, w)
  <2>1. Return(a) /\ cur[a].token \in cancelled
    BY <1>7 DEF GiveUp, Cancelled
  <2>2. ~(b = a /\ i = 1)
    BY <1>7, <2>1, LineType
  <2>. QED  BY <1>5, <1>7, <2>1, <2>2
<1>8. CASE StartRaise(a)
  <2>1. at' = at /\ pc[a] = "idle"
    BY <1>8 DEF StartRaise
  <2>2. CASE Line(b)' = Line(b)
    BY <2>1, <2>2, SameKeeps
  <2>3. CASE b = a /\ Line(a)' = Tail(Line(a)) /\ Line(a)[1].token \in cancelled
    <3>1. i # 1 /\ at'[b] = 1
      BY <2>1, <2>3, LineType
    <3>. QED  BY <2>3, <3>1, TailKeeps
  <2>. QED  BY <1>8, <2>2, <2>3, StartLines
<1>9. CASE WarmUp(a)
  <2>1. pc[a] = "warm" /\ UNCHANGED raises
    BY <1>9 DEF WarmUp
  <2>2. CASE Goto(a, "warmed") /\ UNCHANGED <<cur, at>>
    BY <1>4, <2>1, <2>2 DEF PC
  <2>. QED  BY <1>6, <1>7, <1>9, <2>1, <2>2 DEF WarmUp
<1>10. CASE GetInLine(a)
  <2>1. pc[a] = "warmed" /\ Goto(a, "locking") /\ UNCHANGED <<cur, raises, at>>
    BY <1>10 DEF GetInLine
  <2>. QED  BY <1>4, <2>1 DEF PC
<1>11. CASE Locked(a)
  <2>1. pc[a] = "locking" /\ UNCHANGED raises
    BY <1>11 DEF Locked
  <2>2. CASE Goto(a, "key") /\ UNCHANGED <<cur, at>>
    BY <1>4, <2>1, <2>2 DEF PC
  <2>. QED  BY <1>7, <1>11, <2>1, <2>2 DEF Locked
<1>12. CASE MakeKey(a)
  <2>1. pc[a] = "key" /\ UNCHANGED raises
    BY <1>12 DEF MakeKey
  <2>2. CASE (\E l \in {"waiting", "raising"} : Goto(a, l)) /\ UNCHANGED <<cur, at>>
    BY <1>4, <2>1, <2>2 DEF PC
  <2>. QED  BY <1>6, <1>12, <2>1, <2>2 DEF MakeKey
<1>13. CASE WaitForActivation(a)
  <2>1. pc[a] = "waiting" /\ UNCHANGED raises
    BY <1>13 DEF WaitForActivation
  <2>2. CASE Goto(a, "raising") /\ UNCHANGED <<cur, at>>
    BY <1>4, <2>1, <2>2 DEF PC
  <2>. QED  BY <1>7, <1>13, <2>1, <2>2 DEF WaitForActivation
<1>14. CASE RaiseWindow(a)
  <2>1. pc[a] = "raising" /\ UNCHANGED raises
    BY <1>14 DEF RaiseWindow
  <2>2. CASE Completed(a) /\ (IF at[a] = Len(cur[a].wids) THEN Return(a)
               ELSE at' = [at EXCEPT ![a] = @ + 1] /\ UNCHANGED <<pc, cur>>)
    <3>. DEFINE e == [wids |-> {cur[a].wids[at[a]]}, seq |-> cur[a].seq, failed |-> FALSE]
    <3>1. e \in ToSet(reports)'
      BY <1>1, <2>2, AppendLast DEF Completed
    <3>2. /\ Line(a)[1] = cur[a] /\ cur[a] \in GoodRaise /\ at[a] \in DOMAIN cur[a].wids
          /\ DOMAIN cur[a].wids = 1..Len(cur[a].wids) /\ Len(cur[a].wids) \in Nat
      <4>1. Line(a)[1] = cur[a] /\ cur[a] \in GoodRaise /\ at[a] \in DOMAIN cur[a].wids
        BY <2>1, LineType
      <4>2. cur[a].wids \in Seq(Window)
        BY <4>1 DEF GoodRaise, Raise
      <4>. QED  BY <4>1, <4>2
    <3>3. CASE b = a /\ i = 1 /\ w = cur[a].wids[at[a]]
      <4>1. e.seq = Line(b)[i].seq /\ w \in e.wids
        BY <3>2, <3>3
      <4>. QED  BY <3>1, <4>1 DEF Keeps
    <3>4. CASE at[a] = Len(cur[a].wids)
      <4>1. b = a /\ i = 1 => w = cur[a].wids[at[a]]
        BY <3>2, <3>4 DEF Rest
      <4>. QED  BY <1>5, <2>1, <2>2, <3>3, <3>4, <4>1
    <3>5. CASE at' = [at EXCEPT ![a] = @ + 1] /\ UNCHANGED <<pc, cur>> /\ ~(b = a /\ i = 1 /\ w = cur[a].wids[at[a]])
      <4>1. Line(b)' = Line(b)
        BY <1>1, <2>1, <3>5, SameLines
      <4>2. CASE b # a
        BY <1>1, <3>5, <4>1, <4>2, SameKeeps
      <4>3. CASE b = a /\ i # 1
        <5>1. Rest(b, i)' = Rest(b, i)
          BY <4>1, <4>3 DEF Rest
        <5>. QED  BY <4>1, <5>1 DEF Keeps
      <4>4. CASE b = a /\ i = 1
        <5>1. at'[a] = at[a] + 1 /\ Line(b)[i] = cur[a]
          BY <1>1, <3>2, <3>5, <4>4
        <5>2. PICK k \in at[a]..Len(cur[a].wids) : w = cur[a].wids[k]
          BY <4>4, <5>1 DEF Rest
        <5>3. k \in at'[a]..Len(cur[a].wids)
          BY <3>2, <3>5, <4>4, <5>1, <5>2
        <5>4. w \in Rest(b, i)'
          BY <4>1, <4>4, <5>1, <5>2, <5>3 DEF Rest
        <5>. QED  BY <4>1, <5>4 DEF Keeps
      <4>. QED  BY <4>2, <4>3, <4>4
    <3>. QED  BY <2>2, <3>3, <3>4, <3>5
  <2>. QED  BY <1>6, <1>14, <2>1, <2>2 DEF RaiseWindow
<1>. QED  BY <1>8, <1>9, <1>10, <1>11, <1>12, <1>13, <1>14 DEF RaiseTask

(* Steps that move no line and lose no report. *)
LEMMA QuietPending ==
  ASSUME SInv, PendingComes, WaitsOn, open' \subseteq open, UNCHANGED <<at, reports>>,
         \A b \in App : Line(b)' = Line(b)
  PROVE  PendingComes'
<1>1. ReportsStay
  BY DEF ReportsStay
<1>2. open' \subseteq App
  BY DEF SInv, IInv, TypeOK
<1>. QED  BY <1>1, <1>2, PendingStays, SameKeeps

LEMMA ReportPending ==
  ASSUME SInv, Ordered, PendingComes, TakeReport
  PROVE  PendingComes'
<1>. PICK e \in GoodReport : e = Head(reports)
  BY DEF TakeReport, SInv, Channels
<1>1. /\ reports # << >> /\ reports' = Tail(reports)
      /\ UNCHANGED <<open, at, pc, cur, raises, appQ>>
      /\ \E ws \in SUBSET Window :
           /\ active' = IF IsActive(e.seq) THEN [active EXCEPT !.pending = @ \ ws] ELSE active
           /\ ws = e.wids
  <2>1. reports # << >> /\ reports' = Tail(reports) /\ Report(e)
    BY DEF TakeReport
  <2>2. UNCHANGED <<open, at, pc, cur, raises, appQ>>
    BY DEF TakeReport, Report, HandleRaiseRequestFailed, HandleRaiseCompleted, Answered, appVars
  <2>3. e.failed \/ \E w \in Window : e.wids = {w}
    BY <2>1, TailSet DEF SInv, Channels, Ordered, Placed
  <2>4. \E ws \in SUBSET Window :
           /\ active' = IF IsActive(e.seq) THEN [active EXCEPT !.pending = @ \ ws] ELSE active
           /\ ws = e.wids
    BY <2>1, <2>3 DEF Report, HandleRaiseRequestFailed, HandleRaiseCompleted, Answered, GoodReport
  <2>. QED  BY <2>1, <2>2, <2>4
<1>2. PICK ws \in SUBSET Window :
        /\ active' = IF IsActive(e.seq) THEN [active EXCEPT !.pending = @ \ ws] ELSE active
        /\ ws = e.wids
  BY <1>1
<1>3. active \in ActiveSequence \cup {NoSequence} /\ reports \in Seq(GoodReport)
  BY DEF SInv, Channels, IInv, TypeOK
<1>4. WaitsOn
  <2>1. CASE IsActive(e.seq)
    BY <1>2, <1>3, <2>1 DEF WaitsOn, IsActive, TokenOf, ActiveSequence
  <2>2. CASE ~IsActive(e.seq)
    BY <1>2, <2>2 DEF WaitsOn, TokenOf
  <2>. QED  BY <2>1, <2>2
<1>5. ReportsStay
  <2>. SUFFICES ASSUME active' # NoSequence, NEW f \in ToSet(reports), f.seq = active.id
                PROVE  f \in ToSet(reports)' \/ f.wids \cap active'.pending = {}
    BY DEF ReportsStay
  <2>1. f \in ToSet(reports)' \/ f = e
    BY <1>1, <1>3, TailSet
  <2>2. CASE f = e
    <3>1. IsActive(e.seq)
      BY <1>4, <2>2 DEF IsActive, WaitsOn
    <3>. QED  BY <1>2, <1>3, <2>2, <3>1 DEF IsActive, ActiveSequence
  <2>. QED  BY <2>1, <2>2
<1>6. open' \subseteq App /\ \A b \in App : Line(b)' = Line(b)
  BY <1>1, SameLines DEF SInv, IInv, TypeOK
<1>. QED  BY <1>1, <1>4, <1>5, <1>6, PendingStays, SameKeeps

(* A raise that joins an app's line is still wholly to be done. *)
LEMMA JoinRest ==
  ASSUME SInv, NEW b \in App, NEW t \in Seq(GoodRaise), Line(b)' = Line(b) \o t,
         UNCHANGED <<pc, at>>, NEW i \in DOMAIN t, NEW w \in ToSet(t[i].wids)
  PROVE  \E j \in DOMAIN Line(b)' : Line(b)'[j] = t[i] /\ w \in Rest(b, j)'
<1>1. PICK l \in Seq(GoodRaise) : l = Line(b)
  BY LineType
<1>2. PICK j \in Nat : j = Len(l) + i
  BY <1>1
<1>3. j \in DOMAIN (l \o t) /\ (l \o t)[j] = t[i] /\ (j # 1 \/ l = << >>)
  BY <1>2
<1>4. j = 1 => at'[b] = 1
  BY <1>1, <1>3, LineType
<1>5. t[i].wids \in Seq(Window)
  BY DEF GoodRaise, Raise
<1>6. PICK k \in 1..Len(t[i].wids) : w = t[i].wids[k]
  BY <1>5 DEF ToSet
<1>7. w \in Rest(b, j)'
  BY <1>1, <1>3, <1>4, <1>6 DEF Rest
<1>. QED  BY <1>1, <1>3, <1>7

LEMMA FocusPending ==
  ASSUME SInv, Ordered, SendFocus, Manager
  PROVE  PendingComes'
<1>1. /\ active # NoSequence /\ active.focus # << >>
      /\ UNCHANGED <<nextId, open, pc, at, cur, raises>>
  BY DEF SendFocus, FocusDue, Manager, appVars
<1>2. active \in ActiveSequence /\ appQ \in [App -> Seq(GoodRaise)] /\ active.id \in 1..MaxSeq
  BY <1>1 DEF SInv, SeqBound, Channels, IInv, TypeOK
<1>3. active.focus \in Seq(Window) /\ active.token \in Nat /\ active.id \in Nat
  BY <1>2 DEF ActiveSequence
<1>4. PICK a \in App : a = Owner[Head(active.focus)]
  BY <1>1, <1>3, ConstantsAssumption
<1>5. CASE ~Reachable(active, a)
  <2>1. active' = NoSequence
    BY <1>4, <1>5 DEF SendFocus
  <2>. QED  BY <2>1 DEF PendingComes
<1>6. CASE Reachable(active, a)
  <2>1. /\ appQ' = [appQ EXCEPT ![a] = Append(@, FocusRaise)]
        /\ active' = [active EXCEPT !.pending = ToSet(active.focus), !.focus = << >>]
    BY <1>4, <1>6 DEF SendFocus
  <2>2. /\ FocusRaise \in GoodRaise /\ FocusRaise.seq = active.id
        /\ FocusRaise.token = TokenOf(active) /\ FocusRaise.wids = active.focus
    BY <1>1, <1>2, <1>3 DEF FocusRaise, GoodRaise, Raise, TokenOf
  <2>. PICK f \in GoodRaise : f = FocusRaise
    BY <2>2
  <2>3. PICK q \in Seq(GoodRaise) : q = <<f>>
    <3>1. <<f>> \in Seq(GoodRaise)
      OBVIOUS
    <3>. QED  BY <3>1
  <2>4. Line(a)' = Line(a) \o q
    <3>1. PICK new \in [App -> Seq(GoodRaise)] : new = [b \in App |-> IF b = a THEN q ELSE << >>]
      <4>1. << >> \in Seq(GoodRaise)
        OBVIOUS
      <4>. QED  BY <4>1
    <3>2. new[a] = q /\ (\A b \in App \ {a} : new[b] = << >>)
      BY <3>1
    <3>. HIDE <3>1
    <3>3. \A b \in App \ {a} : appQ'[b] = appQ[b] \o new[b]
      BY <1>2, <2>1, <3>2
    <3>4. appQ'[a] = appQ[a] \o new[a]
      <4>1. appQ[a] \in Seq(GoodRaise) /\ appQ'[a] = Append(appQ[a], f)
        BY <1>2, <2>1
      <4>2. \A s \in Seq(GoodRaise) : Append(s, f) = s \o <<f>>
        OBVIOUS
      <4>. QED  BY <2>3, <3>2, <4>1, <4>2
    <3>5. appQ' = [b \in App |-> appQ[b] \o new[b]]
      BY <1>2, <2>1, <3>3, <3>4
    <3>6. \A b \in App : Line(b)' = Line(b) \o new[b]
      BY <1>1, <3>5, JoinLines
    <3>. QED  BY <3>2, <3>6
  <2>5. /\ active'.id = active.id /\ TokenOf(active)' = TokenOf(active)
        /\ active'.pending = ToSet(active.focus)
    BY <1>2, <2>1 DEF ActiveSequence, TokenOf
  <2>. SUFFICES ASSUME NEW w \in ToSet(active.focus)
                PROVE  \E i \in DOMAIN Line(Owner[w])' :
                         /\ Line(Owner[w])'[i].seq = active.id
                         /\ Line(Owner[w])'[i].token = TokenOf(active)
                         /\ w \in Rest(Owner[w], i)'
    BY <2>5 DEF PendingComes
  <2>6. Owner[w] = a
    BY <1>1, <1>4 DEF Ordered, Placed
  <2>7. 1 \in DOMAIN q /\ q[1] = f /\ w \in ToSet(f.wids)
    BY <2>2, <2>3
  <2>8. \E j \in DOMAIN Line(a)' : Line(a)'[j] = q[1] /\ w \in Rest(a, j)'
    <3>1. w \in ToSet(q[1].wids)
      BY <2>7
    <3>. QED  BY <1>1, <2>4, <2>7, <3>1, JoinRest
  <2>. QED  BY <2>2, <2>6, <2>7, <2>8
<1>. QED  BY <1>5, <1>6

LEMMA BeginPending ==
  ASSUME SInv, ProcessQueuedResponses, Manager
  PROVE  PendingComes'
<1>1. /\ queued # << >> /\ UNCHANGED <<open, pc, at, cur, raises>>
  BY DEF ProcessQueuedResponses, Manager, appVars
<1>2. queued \in Seq(Requests) /\ nextId \in Nat \ {0} /\ MaxSeq \in Nat
  BY ConstantsAssumption DEF SInv, IInv, TypeOK
<1>3. PICK r \in Requests : r = Head(queued)
  BY <1>1, <1>2
<1>4. nextId \in 1..MaxSeq
  <2>1. Len(queued) \in Nat /\ Len(queued) > 0
    BY <1>1, <1>2
  <2>. QED  BY <1>2, <2>1 DEF SInv, SeqBound
<1>5. PICK new \in [App -> Seq(GoodRaise)] : new = [b \in App |-> SentTo(r, b, nextId)]
  BY <1>3, <1>4, SentToGood
<1>6. \A b \in App : Line(b)' = Line(b) \o new[b]
  <2>1. appQ' = [b \in App |-> appQ[b] \o SentTo(r, b, nextId)]
    BY <1>3 DEF ProcessQueuedResponses
  <2>2. appQ' = [b \in App |-> appQ[b] \o new[b]]
    BY <1>5, <2>1
  <2>. HIDE <1>5
  <2>. QED  BY <1>1, <2>2, JoinLines
<1>. SUFFICES ASSUME active' # NoSequence, NEW w \in active'.pending
              PROVE  \E i \in DOMAIN Line(Owner[w])' :
                       /\ Line(Owner[w])'[i].seq = active'.id
                       /\ Line(Owner[w])'[i].token = TokenOf(active)'
                       /\ w \in Rest(Owner[w], i)'
  BY DEF PendingComes
<1>7. /\ active'.id = nextId /\ TokenOf(active)' = <<nextId, 0>>
      /\ \E b \in Sent(r) : w \in ToSet(b)
  BY <1>3 DEF ProcessQueuedResponses, NewSequence, TokenOf
<1>8. PICK b \in Sent(r) : w \in ToSet(b)
  BY <1>7
<1>9. b \in Seq(Window) /\ b # << >> /\ Owner[w] = Owner[Head(b)] /\ Owner[w] \in App
  <2>1. b \in r.raise /\ r \in RaiseRequest
    BY RequestsAssumption DEF Sent
  <2>2. b \in Seq(Window) /\ b # << >> /\ \A i \in DOMAIN b : Owner[b[i]] = Owner[b[1]]
    BY <2>1, RequestsAssumption DEF RaiseRequest
  <2>3. PICK i \in DOMAIN b : w = b[i]
    BY <1>8 DEF ToSet
  <2>. QED  BY <2>2, <2>3, ConstantsAssumption
<1>10. PICK a \in App : a = Owner[w]
  BY <1>9
<1>11. PICK i \in DOMAIN SentTo(r, a, nextId) : SentTo(r, a, nextId)[i] = RaiseOf(b, nextId)
  BY <1>4, <1>8, <1>9, <1>10, SentToLists
<1>12. i \in DOMAIN new[a] /\ new[a][i] = RaiseOf(b, nextId)
  BY <1>5, <1>11
<1>13. /\ new[a][i].seq = nextId /\ new[a][i].token = <<nextId, 0>>
       /\ w \in ToSet(new[a][i].wids)
  BY <1>8, <1>12 DEF RaiseOf
<1>14. \E j \in DOMAIN Line(a)' : Line(a)'[j] = new[a][i] /\ w \in Rest(a, j)'
  <2>1. PICK t \in Seq(GoodRaise) : t = new[a]
    BY <1>5
  <2>2. Line(a)' = Line(a) \o t /\ i \in DOMAIN t /\ w \in ToSet(t[i].wids)
    BY <1>6, <1>12, <1>13, <2>1
  <2>. HIDE <1>5, <1>6
  <2>3. \E j \in DOMAIN Line(a)' : Line(a)'[j] = t[i] /\ w \in Rest(a, j)'
    BY <1>1, <2>2, JoinRest
  <2>. QED  BY <2>1, <2>3
<1>. QED  BY <1>7, <1>10, <1>13, <1>14

LEMMA InitPending == SysInit => PendingComes
BY DEF SysInit, Init, RMInit, PendingComes

LEMMA NextPending == SInv /\ Ordered /\ PendingComes /\ [SysNext]_sysVars => PendingComes'
<1>. SUFFICES ASSUME SInv, Ordered, PendingComes, [SysNext]_sysVars PROVE PendingComes'
  OBVIOUS
<1>0. active \in ActiveSequence \cup {NoSequence} /\ open \subseteq App
  BY DEF SInv, IInv, TypeOK
<1>1. CASE Manager
  <2>1. UNCHANGED <<reports, at, pc, cur, raises>>
    BY <1>1 DEF Manager, appVars
  <2>2. CASE SendFocus
    BY <1>1, <2>2, FocusPending
  <2>3. CASE ProcessQueuedResponses
    BY <1>1, <2>3, BeginPending
  <2>4. CASE HandleRaiseTimeout \/ EndSequence
    <3>1. active' = NoSequence \/ active'.pending = {} \/ UNCHANGED <<active, open, appQ>>
      BY <1>0, <2>4 DEF HandleRaiseTimeout, EndSequence, IsActive, ActiveSequence
    <3>2. CASE UNCHANGED <<active, open, appQ>>
      BY <2>1, <3>2, SameLines, QuietPending DEF WaitsOn, TokenOf
    <3>. QED  BY <3>1, <3>2 DEF PendingComes
  <2>5. CASE Settled \/ \E r \in Requests : HandleRaiseRequest(r)
    <3>1. UNCHANGED <<active, open, appQ>>
      BY <2>5 DEF Settled, HandleRaiseRequest
    <3>. QED  BY <2>1, <3>1, SameLines, QuietPending DEF WaitsOn, TokenOf
  <2>. QED  BY <1>1, <2>2, <2>3, <2>4, <2>5 DEF Manager, Settle, ProcessActiveSequence
<1>2. CASE TakeReport
  BY <1>2, ReportPending
<1>3. CASE TimeOut
  <2>1. /\ active # NoSequence /\ active' = [active EXCEPT !.timedOut = TRUE]
        /\ UNCHANGED <<open, appQ, reports, at, pc, cur, raises>>
    BY <1>3 DEF TimeOut, TimerFires, appVars
  <2>2. WaitsOn
    BY <1>0, <2>1 DEF WaitsOn, TokenOf, ActiveSequence
  <2>. QED  BY <2>1, <2>2, SameLines, QuietPending
<1>4. ASSUME NEW a \in App, PassRaise(a) PROVE PendingComes'
  <2>1. UNCHANGED <<active, open, reports, at>>
    BY <1>4 DEF PassRaise, AppTakes, rmVars
  <2>. QED  BY <1>4, <2>1, PassLines, QuietPending DEF WaitsOn, TokenOf
<1>5. ASSUME NEW a \in App, Activation(a) PROVE PendingComes'
  <2>1. UNCHANGED <<active, open, reports, at, pc, cur, raises, appQ>>
    BY <1>5 DEF Activation, vars, rmVars
  <2>. QED  BY <2>1, SameLines, QuietPending DEF WaitsOn, TokenOf
<1>6. ASSUME NEW a \in App, EndIncoming(a) PROVE PendingComes'
  <2>1. UNCHANGED <<active, reports, at>> /\ open' = open \ {a}
    BY <1>6 DEF EndIncoming, AppExits, rmVars, appVars
  <2>2. \A b \in open' : b \in App /\ Line(b)' = Line(b)
    BY <1>0, <1>6, <2>1, EndLines
  <2>3. WaitsOn /\ ReportsStay /\ open' \subseteq open
    BY <2>1 DEF WaitsOn, ReportsStay, TokenOf
  <2>. QED  BY <2>1, <2>2, <2>3, PendingStays, SameKeeps
<1>7. ASSUME NEW a \in App, RaiseTask(a) PROVE PendingComes'
  <2>1. UNCHANGED <<active, open>>
    BY <1>7 DEF RaiseTask, StartRaise, WarmUp, GetInLine, Locked, MakeKey,
                WaitForActivation, RaiseWindow, vars, rmVars
  <2>2. ToSet(reports) \subseteq ToSet(reports)'
    <3>1. reports \in Seq(GoodReport)
      BY DEF SInv, Channels
    <3>2. UNCHANGED reports \/ \E e : reports' = Append(reports, e)
      BY <1>7 DEF RaiseTask, StartRaise, WarmUp, GetInLine, Locked, MakeKey,
                  WaitForActivation, RaiseWindow, GiveUp, Fail, Completed
    <3>. QED  BY <3>1, <3>2, AppendLast
  <2>3. WaitsOn /\ ReportsStay
    BY <2>1, <2>2 DEF WaitsOn, ReportsStay, TokenOf
  <2>. QED  BY <1>0, <1>7, <2>1, <2>3, PendingStays, TaskKeeps
<1>8. CASE UNCHANGED sysVars
  <2>1. UNCHANGED <<active, open, reports, at, pc, cur, raises, appQ>>
    BY <1>8 DEF sysVars, vars, rmVars, appVars
  <2>. QED  BY <2>1, SameLines, QuietPending DEF WaitsOn, TokenOf
<1>. QED  BY <1>1, <1>2, <1>3, <1>4, <1>5, <1>6, <1>7, <1>8 DEF SysNext

(* Where a raise in line is. *)
LEMMA InLine ==
  ASSUME SInv, NEW a \in App, NEW i \in DOMAIN Line(a)
  PROVE  \/ pc[a] # "idle" /\ Line(a)[i] = cur[a]
         \/ \E k \in DOMAIN raises[a] : Line(a)[i] = raises[a][k]
         \/ \E k \in DOMAIN appQ[a] : Line(a)[i] = appQ[a][k]
<1>1. PICK s \in Seq(GoodRaise) : s = raises[a]
  BY DEF SInv, Channels
<1>2. PICK t \in Seq(GoodRaise) : t = appQ[a]
  BY DEF SInv, Channels
<1>3. PICK h \in Seq(GoodRaise) : h = InHand(a)
  <2>1. InHand(a) \in Seq(GoodRaise)
    BY DEF SInv, Tasks, TaskOK, InHand
  <2>. QED  BY <2>1
<1>4. \A k \in DOMAIN h : pc[a] # "idle" /\ h[k] = cur[a]
  BY <1>3 DEF InHand
<1>5. PICK m \in Seq(GoodRaise) : m = h \o s
  <2>1. h \o s \in Seq(GoodRaise)
    OBVIOUS
  <2>. QED  BY <2>1
<1>6. Line(a) = m \o t
  BY <1>1, <1>2, <1>3, <1>5 DEF Line
<1>7. \/ i \in DOMAIN m /\ Line(a)[i] = m[i]
      \/ \E k \in DOMAIN t : Line(a)[i] = t[k]
  BY <1>6, JoinedIndex
<1>8. i \in DOMAIN m => (i \in DOMAIN h /\ m[i] = h[i]) \/ \E k \in DOMAIN s : m[i] = s[k]
  BY <1>5, JoinedIndex
<1>. QED  BY <1>1, <1>2, <1>4, <1>7, <1>8

(* What the manager waits for is on its way, at every stage of a raise:    *)
(* nothing but the end of an app's thread leaves it to the timeout.        *)
THEOREM PendingIsAnsweredHolds == SysSpec => []PendingIsAnswered
<1>1. SysInit => PendingComes
  BY InitPending
<1>2. SInv /\ Ordered /\ PendingComes /\ [SysNext]_sysVars => PendingComes'
  BY NextPending
<1>3. SInv /\ PendingComes => PendingIsAnswered
  <2>. SUFFICES ASSUME SInv, PendingComes, active # NoSequence, NEW w \in active.pending,
                       Owner[w] \in open
                PROVE  Underway(w)
    BY DEF PendingIsAnswered
  <2>1. PICK a \in App : a = Owner[w]
    BY DEF SInv, IInv, TypeOK
  <2>2. CASE \E e \in ToSet(reports) : e.seq = active.id /\ w \in e.wids
    BY <2>2 DEF Underway, ToSet
  <2>3. CASE \E i \in DOMAIN Line(a) : Line(a)[i].seq = active.id /\ w \in Rest(a, i)
    <3>1. PICK i \in DOMAIN Line(a) : Line(a)[i].seq = active.id /\ w \in Rest(a, i)
      BY <2>3
    <3>2. Line(a)[i].wids \in Seq(Window) /\ at[a] \in Nat \ {0}
      <4>1. Line(a) \in Seq(GoodRaise)
        BY LineType
      <4>2. Line(a)[i] \in GoodRaise
        BY <4>1
      <4>. QED  BY <4>2, AtType DEF GoodRaise, Raise
    <3>3. Concerns(Line(a)[i], w)
      BY <3>1, <3>2 DEF Concerns, Rest, ToSet
    <3>. QED  BY <3>3, InLine DEF Underway
  <2>. QED  BY <2>1, <2>2, <2>3 DEF PendingComes
<1>. QED  BY <1>1, <1>2, <1>3, SystemInvariant, OrderInvariant, PTL DEF SysSpec
=============================================================================
