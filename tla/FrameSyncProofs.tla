--------------------------- MODULE FrameSyncProofs ---------------------------
(***************************************************************************)
(* What is proved of FrameSync for every number of windows, layouts and    *)
(* animation frames and any number of commands and moves.  All safety      *)
(* properties hold: the reactor knows every window it is told of; without  *)
(* animations it never takes the effect of its own writes for the user's,  *)
(* and once nothing is on its way it knows where every window is; with     *)
(* animations the last write wins and every animation that began has ended.*)
(*                                                                         *)
(* Types says what states and messages are.  Animated relates what is on   *)
(* its way to a window with what the app and the animation manager have    *)
(* of it, and Plain, without animations, with what the reactor has of it.  *)
(***************************************************************************)
EXTENDS FrameSync, FiniteSetTheorems, SequenceTheorems, WellFoundedInduction, TLAPS

-----------------------------------------------------------------------------
(* Sequences. *)

LEMMA SetInduction ==
  ASSUME NEW P \in SUBSET Nat, 0 \in P, \A m \in P : m + 1 \in P
  PROVE  P = Nat
<1>. SUFFICES ASSUME P # Nat PROVE FALSE
  OBVIOUS
<1>. DEFINE Q == Nat \ P
<1>1. PICK x \in Q : \A y \in Q : ~ (<<y, x>> \in OpToRel(<, Nat))
  <2>1. Q # {} /\ Q \subseteq Nat
    OBVIOUS
  <2>. QED  BY <2>1, WFMin, NatLessThanWellFounded
<1>2. \A y \in Q : ~(y < x)
  BY <1>1 DEF OpToRel
<1>3. x # 0 /\ x - 1 \in Nat /\ x - 1 < x /\ (x - 1) + 1 = x
  OBVIOUS
<1>4. x - 1 \in P
  BY <1>2, <1>3
<1>. QED  BY <1>3, <1>4

(* What FlattenSeq recurses on. *)
LEMMA FlattenExists ==
  ASSUME NEW n \in Nat, NEW S, NEW ss \in [1..n -> Seq(S)]
  PROVE  \E f : f = [i \in 1..n |-> IF i = 1 THEN ss[i] ELSE f[i - 1] \o ss[i]]
<1>. DEFINE Parts(m) == \E f \in [1..m -> Seq(S)] :
                          \A i \in 1..m : f[i] = IF i = 1 THEN ss[i] ELSE f[i - 1] \o ss[i]
            P == {m \in Nat : m <= n => Parts(m)}
<1>1. 0 \in P
  <2>1. << >> \in [1..0 -> Seq(S)] /\ \A i \in 1..0 : FALSE
    OBVIOUS
  <2>2. Parts(0)
    BY <2>1
  <2>. HIDE DEF Parts
  <2>. QED  BY <2>2
<1>2. ASSUME NEW m \in P PROVE m + 1 \in P
  <2>. SUFFICES ASSUME m + 1 <= n PROVE Parts(m + 1)
    <3>. HIDE DEF Parts
    <3>. QED  OBVIOUS
  <2>5. Parts(m)
    <3>. HIDE DEF Parts
    <3>. QED  OBVIOUS
  <2>1. PICK f \in [1..m -> Seq(S)] :
               \A i \in 1..m : f[i] = IF i = 1 THEN ss[i] ELSE f[i - 1] \o ss[i]
    BY <2>5
  <2>2. PICK x \in Seq(S) : x = IF m = 0 THEN ss[m + 1] ELSE f[m] \o ss[m + 1]
    <3>1. ss[m + 1] \in Seq(S) /\ (m # 0 => f[m] \in Seq(S))
      OBVIOUS
    <3>2. \A p, q \in Seq(S) : p \o q \in Seq(S)
      OBVIOUS
    <3>. QED  BY <3>1, <3>2
  <2>. DEFINE g == [i \in 1..m + 1 |-> IF i = m + 1 THEN x ELSE f[i]]
  <2>3. g \in [1..m + 1 -> Seq(S)]
    OBVIOUS
  <2>4. ASSUME NEW i \in 1..m + 1 PROVE g[i] = IF i = 1 THEN ss[i] ELSE g[i - 1] \o ss[i]
    <3>1. CASE i = m + 1
      <4>1. i # 1 => m \in 1..m + 1 /\ i - 1 = m /\ m # m + 1 /\ m # 0
        BY <3>1
      <4>2. i # 1 => g[i - 1] = f[m]
        BY <4>1
      <4>. QED  BY <2>2, <3>1, <4>1, <4>2
    <3>2. CASE i # m + 1
      <4>1. i \in 1..m /\ (i # 1 => i - 1 \in 1..m /\ i - 1 # m + 1)
        BY <3>2
      <4>2. g[i] = f[i] /\ (i # 1 => g[i - 1] = f[i - 1])
        BY <3>2, <4>1
      <4>. QED  BY <2>1, <4>1, <4>2
    <3>. QED  BY <3>1, <3>2
  <2>. HIDE DEF g
  <2>. QED  BY <2>3, <2>4
<1>3. n \in P
  <2>1. P \in SUBSET Nat
    OBVIOUS
  <2>. HIDE DEF P
  <2>. QED  BY <1>1, <1>2, <2>1, SetInduction
<1>4. PICK f \in [1..n -> Seq(S)] :
             \A i \in 1..n : f[i] = IF i = 1 THEN ss[i] ELSE f[i - 1] \o ss[i]
  <2>. HIDE DEF Parts
  <2>1. Parts(n)
    BY <1>3
  <2>. USE DEF Parts
  <2>. QED  BY <2>1
<1>5. f = [i \in 1..n |-> IF i = 1 THEN ss[i] ELSE f[i - 1] \o ss[i]]
  BY <1>4
<1>. QED  BY <1>5

(* A flattened sequence is what there is, up to some point, and then the   *)
(* next one: f has what there is after each of the sequences ss.           *)
Flattening(ss, n, S, f) ==
  /\ f \in [0..n -> Seq(S)]
  /\ f[0] = << >> /\ f[n] = FlattenSeq(ss)
  /\ \A i \in 1..n : f[i] = f[i - 1] \o ss[i]

LEMMA FlattenParts ==
  ASSUME NEW n \in Nat, NEW S, NEW ss \in [1..n -> Seq(S)]
  PROVE  \E f : Flattening(ss, n, S, f)
<1>1. CASE n = 0
  <2>1. << >> \in Seq(S) /\ Len(ss) = 0 /\ ss = << >>
    BY <1>1
  <2>2. FlattenSeq(ss) = << >>
    BY <2>1 DEF FlattenSeq
  <2>. DEFINE h == [i \in 0..n |-> << >>]
  <2>3. h \in [0..n -> Seq(S)] /\ h[0] = << >> /\ h[n] = << >>
    BY <2>1
  <2>. HIDE DEF h
  <2>4. \A i \in 1..n : FALSE
    BY <1>1
  <2>. QED  BY <2>2, <2>3, <2>4 DEF Flattening
<1>2. CASE n # 0
  <2>. DEFINE g == CHOOSE f : f = [i \in 1..n |-> IF i = 1 THEN ss[i] ELSE f[i - 1] \o ss[i]]
  <2>1. Len(ss) = n
    OBVIOUS
  <2>2. FlattenSeq(ss) = g[n]
    BY <1>2, <2>1 DEF FlattenSeq
  <2>3. g = [i \in 1..n |-> IF i = 1 THEN ss[i] ELSE g[i - 1] \o ss[i]]
    BY FlattenExists
  <2>. HIDE DEF g
  <2>4. \A i \in 1..n : g[i] = IF i = 1 THEN ss[i] ELSE g[i - 1] \o ss[i]
    BY <2>3
  <2>. DEFINE P == {m \in Nat : m \in 1..n => g[m] \in Seq(S)}
  <2>5. P = Nat
    <3>1. 0 \in P
      OBVIOUS
    <3>2. ASSUME NEW m \in P PROVE m + 1 \in P
      <4>. SUFFICES ASSUME m + 1 \in 1..n PROVE g[m + 1] \in Seq(S)
        OBVIOUS
      <4>1. ss[m + 1] \in Seq(S) /\ (m + 1 # 1 => m \in 1..n /\ g[m] \in Seq(S))
        OBVIOUS
      <4>2. \A p, q \in Seq(S) : p \o q \in Seq(S)
        OBVIOUS
      <4>3. m + 1 = 1 => g[m + 1] = ss[m + 1]
        BY <2>4
      <4>4. m + 1 # 1 => g[m + 1] = g[m] \o ss[m + 1]
        <5>1. (m + 1) - 1 = m
          OBVIOUS
        <5>. QED  BY <2>4, <5>1
      <4>. QED  BY <4>1, <4>2, <4>3, <4>4
    <3>3. P \in SUBSET Nat
      OBVIOUS
    <3>. HIDE DEF P
    <3>. QED  BY <3>1, <3>2, <3>3, SetInduction
  <2>. DEFINE h == [i \in 0..n |-> IF i = 0 THEN << >> ELSE g[i]]
  <2>6. h \in [0..n -> Seq(S)]
    <3>1. << >> \in Seq(S) /\ \A i \in 1..n : g[i] \in Seq(S)
      BY <2>5
    <3>2. \A i \in 0..n : i # 0 => i \in 1..n
      OBVIOUS
    <3>. QED  BY <3>1, <3>2
  <2>7. ASSUME NEW i \in 1..n PROVE h[i] = h[i - 1] \o ss[i]
    <3>1. ss[i] \in Seq(S) /\ i \in 0..n /\ i - 1 \in 0..n /\ i # 0
      OBVIOUS
    <3>2. \A p \in Seq(S) : << >> \o p = p
      OBVIOUS
    <3>3. CASE i = 1
      BY <2>4, <3>1, <3>2, <3>3
    <3>4. CASE i # 1
      <4>1. g[i] = g[i - 1] \o ss[i]
        BY <2>4, <3>4
      <4>2. i - 1 # 0
        BY <3>4
      <4>3. h[i] = g[i] /\ h[i - 1] = g[i - 1]
        BY <3>1, <4>2
      <4>. QED  BY <4>1, <4>3
    <3>. QED  BY <3>3, <3>4
  <2>8. h[0] = << >> /\ h[n] = FlattenSeq(ss)
    BY <1>2, <2>2
  <2>. HIDE DEF h
  <2>. QED  BY <2>6, <2>7, <2>8 DEF Flattening
<1>. QED  BY <1>1, <1>2

LEMMA SetToSeqLists ==
  ASSUME NEW S, IsFiniteSet(S)
  PROVE  /\ SetToSeq(S) \in [1..Cardinality(S) -> S] /\ Cardinality(S) \in Nat
         /\ DOMAIN SetToSeq(S) = 1..Cardinality(S)
         /\ \A i, j \in DOMAIN SetToSeq(S) : i # j => SetToSeq(S)[i] # SetToSeq(S)[j]
         /\ \A x \in S : \E i \in DOMAIN SetToSeq(S) : SetToSeq(S)[i] = x
<1>. DEFINE n == Cardinality(S)
<1>1. ExistsBijection(1..n, S) /\ n \in Nat
  BY FS_CardinalityType
<1>2. PICK f \in [1..n -> S] : IsInjective(f)
  BY <1>1 DEF ExistsBijection, Bijection, Injection, Surjection, IsInjective
<1>. DEFINE q == SetToSeq(S)
<1>3. q \in [1..n -> S] /\ IsInjective(q)
  BY <1>2 DEF SetToSeq
<1>4. IsFiniteSet(1..n) /\ Cardinality(1..n) = n
  BY <1>1, FS_Interval
<1>5. q \in Injection(1..n, S)
  BY <1>3 DEF IsInjective, Injection
<1>6. q \in Surjection(1..n, S)
  BY <1>4, <1>5, FS_Injection
<1>. HIDE DEF q
<1>7. DOMAIN q = 1..n
  BY <1>3
<1>8. \A x \in S : \E i \in DOMAIN q : q[i] = x
  BY <1>6, <1>7 DEF Surjection
<1>9. \A i, j \in DOMAIN q : i # j => q[i] # q[j]
  BY <1>3 DEF IsInjective
<1>. QED  BY <1>1, <1>3, <1>7, <1>8, <1>9 DEF q

LEMMA FlattenType ==
  ASSUME NEW n \in Nat, NEW S, NEW ss \in [1..n -> Seq(S)]
  PROVE  FlattenSeq(ss) \in Seq(S)
<1>1. PICK f : Flattening(ss, n, S, f)
  BY FlattenParts
<1>2. n \in 0..n
  OBVIOUS
<1>. QED  BY <1>1, <1>2 DEF Flattening

LEMMA ForEachType ==
  ASSUME NEW ws, IsFiniteSet(ws), NEW S, NEW f \in [ws -> Seq(S)]
  PROVE  ForEach(f) \in Seq(S)
<1>. PICK n, q : n = Cardinality(ws) /\ q = SetToSeq(ws)
  OBVIOUS
<1>1. n \in Nat /\ q \in [1..n -> ws] /\ DOMAIN f = ws
  BY SetToSeqLists
<1>. PICK ss \in [1..n -> Seq(S)] : ss = [i \in DOMAIN q |-> f[q[i]]]
  <2>1. [i \in DOMAIN q |-> f[q[i]]] \in [1..n -> Seq(S)]
    BY <1>1
  <2>. QED  BY <2>1
<1>2. ForEach(f) = FlattenSeq(ss)
  BY <1>1 DEF ForEach
<1>3. FlattenSeq(ss) \in Seq(S)
  BY <1>1, FlattenType
<1>. QED  BY <1>2, <1>3

LEMMA SeqMonotone ==
  ASSUME NEW S, NEW T, S \subseteq T
  PROVE  Seq(S) \subseteq Seq(T)
OBVIOUS

LEMMA SeqOps ==
  ASSUME NEW S, NEW q \in Seq(S)
  PROVE  /\ \A e \in S : Append(q, e) \in Seq(S)
         /\ \A r \in Seq(S) : q \o r \in Seq(S)
         /\ q # << >> => Head(q) \in S /\ Tail(q) \in Seq(S)
         /\ << >> \in Seq(S)
OBVIOUS

(* What was appended is of the type of the whole. *)
LEMMA LastType ==
  ASSUME NEW S, NEW T, NEW q \in Seq(T), NEW e, NEW p \in Seq(S), p = Append(q, e)
  PROVE  e \in S
<1>1. DOMAIN p = 1..Len(q) + 1 /\ p[Len(q) + 1] = e /\ Len(q) \in Nat
  OBVIOUS
<1>2. Len(q) + 1 \in DOMAIN p /\ \A i \in DOMAIN p : p[i] \in S
  BY <1>1
<1>. QED  BY <1>1, <1>2

-----------------------------------------------------------------------------
(* Types of the state and of the messages.  No transaction id is ahead of  *)
(* the last one that was sent for its window.                              *)

Finals == {Target(l) : l \in Layouts}
Write == [finish : Finals, txid : Nat]
InTime(w, id) == id \in Nat /\ id <= sent[w]

IsWrites(f) == DOMAIN f \subseteq Window /\ \A w \in DOMAIN f : f[w] \in Write /\ InTime(w, f[w].txid)

Message == {m \in [skip : BOOLEAN, wins : UNION {[ws -> Write] : ws \in SUBSET Window}] :
              IsWrites(m.wins)}

Request ==
  [kind : {"begin", "end"}, w : Window]
    \cup {r \in [kind : {"set"}, w : Window, frame : Finals, txid : Nat] : InTime(r.w, r.txid)}
    \cup {r \in [kind : {"frame"}, w : Window, frame : Frame, txid : Nat, setSize : BOOLEAN] :
            InTime(r.w, r.txid)}

EventMessage ==
  [w : Window, destroyed : {TRUE}]
    \cup {e \in [w : Window, destroyed : {FALSE}, frame : Frame, txid : Nat, requested : BOOLEAN] :
            InTime(e.w, e.txid)}

Notification == [w : Window, destroyed : BOOLEAN]

PendingFrame == [frame : Frame, setSize : BOOLEAN, txid : Nat]

ReactorTypes ==
  /\ windows \subseteq Window
  /\ frame \in [Window -> Frame] /\ written \in [Window -> Frame]
  /\ sent \in [Window -> Nat]
  /\ goal \in [Window -> Layouts] /\ asked \in [Window -> Layouts]
  /\ attempts \in [Window -> [target : Frame, count : Nat]]
  /\ animate \in BOOLEAN /\ moves \in Nat

AnimTypes ==
  /\ animQ \in Seq(Message)
  /\ active.wins \in UNION {[ws -> Write] : ws \in SUBSET Window}
  /\ active = [wins |-> active.wins, next |-> active.next]
  /\ IsWrites(active.wins) /\ active.next \in 1..Frames

AppTypes ==
  /\ elems \subseteq Window /\ suspended \subseteq Window
  /\ seen \in [Window -> Nat] /\ \A w \in Window : InTime(w, seen[w])
  /\ DOMAIN pending \subseteq Window
  /\ \A w \in DOMAIN pending : pending[w] \in PendingFrame /\ InTime(w, pending[w].txid)
  /\ DOMAIN lastFrame \subseteq Window /\ \A w \in DOMAIN lastFrame : lastFrame[w] \in Frame
  /\ DOMAIN real \subseteq Window /\ \A w \in DOMAIN real : real[w] \in Frame
  /\ animating \in Nat /\ draining \in BOOLEAN /\ restore \in BOOLEAN /\ enhanced \in BOOLEAN

Queues ==
  /\ events \in Seq(EventMessage)
  /\ requests \in Seq(Request) /\ batch \in Seq(Request)
  /\ notifs \in Seq(Notification)

Types == ReactorTypes /\ AnimTypes /\ AppTypes /\ Queues

LEMMA FramesFacts ==
  /\ Frames \in Nat /\ Frames \in 1..Frames /\ 1 \in 1..Frames
  /\ Layouts \subseteq Nat /\ 0 \in Layouts
  /\ Finals \subseteq Frame /\ \A l \in Layouts : Target(l) \in Finals /\ Target(l) \in Frame
  /\ MaxAttempts \in Nat /\ MaxCommands \in Nat /\ MaxMoves \in Nat /\ EnhancedUi \in BOOLEAN
  /\ IsFiniteSet(Window)
<1>1. /\ Frames \in Nat \ {0} /\ Layouts \subseteq Nat /\ 0 \in Layouts
      /\ MaxAttempts \in Nat /\ MaxCommands \in Nat /\ MaxMoves \in Nat /\ EnhancedUi \in BOOLEAN
      /\ IsFiniteSet(Window)
  BY FrameAssumption
<1>2. Frames \in 1..Frames /\ 1 \in 1..Frames
  BY <1>1
<1>3. \A l \in Layouts : Target(l) \in Finals /\ Target(l) \in Frame
  BY <1>2 DEF Target, Finals, Frame
<1>. QED  BY <1>1, <1>2, <1>3 DEF Finals

LEMMA InitTypes == Init => Types
<1>. SUFFICES ASSUME Init PROVE Types
  OBVIOUS
<1>1. ReactorTypes
  <2>1. [target |-> Target(0), count |-> 0] \in [target : Frame, count : Nat]
    BY FramesFacts
  <2>. QED  BY <2>1, FramesFacts, FrameAssumption DEF Init, ReactorTypes
<1>2. AnimTypes
  <2>1. << >> \in Seq(Message) /\ DOMAIN << >> = {} /\ << >> \in [{} -> Write] /\ {} \in SUBSET Window
    OBVIOUS
  <2>2. active.wins = << >> /\ active.next = 1 /\ active = [wins |-> << >>, next |-> 1]
    BY DEF Init, NoAnimation
  <2>. QED  BY <2>1, <2>2, FramesFacts DEF Init, AnimTypes, IsWrites
<1>3. AppTypes
  <2>1. DOMAIN << >> = {}
    OBVIOUS
  <2>2. seen \in [Window -> Nat] /\ \A w \in Window : InTime(w, seen[w])
    BY DEF Init, InTime
  <2>3. DOMAIN real \subseteq Window /\ \A w \in DOMAIN real : real[w] \in Frame
    BY FramesFacts DEF Init
  <2>. QED  BY <2>1, <2>2, <2>3, FramesFacts DEF Init, AppTypes
<1>4. Queues
  <2>1. \A S : << >> \in Seq(S)
    OBVIOUS
  <2>. QED  BY <2>1 DEF Init, Queues
<1>. QED  BY <1>1, <1>2, <1>3, <1>4 DEF Types

(* Ids only grow, and what was in time stays so. *)
LEMMA StaysInTime ==
  ASSUME \A w \in Window : sent'[w] \in Nat /\ sent[w] \in Nat /\ sent[w] <= sent'[w]
  PROVE  /\ \A w \in Window : \A id : InTime(w, id) => InTime(w, id)'
         /\ \A f : IsWrites(f) => IsWrites(f)'
         /\ Message \subseteq Message' /\ Request \subseteq Request'
         /\ EventMessage \subseteq EventMessage'
         /\ Seq(Message) \subseteq Seq(Message') /\ Seq(Request) \subseteq Seq(Request')
         /\ Seq(EventMessage) \subseteq Seq(EventMessage')
<1>1. \A w \in Window : \A id : InTime(w, id) => InTime(w, id)'
  BY DEF InTime
<1>2. \A f : IsWrites(f) => IsWrites(f)'
  BY <1>1 DEF IsWrites
<1>3. Message \subseteq Message'
  BY <1>2 DEF Message
<1>4. Request \subseteq Request'
  <2>. SUFFICES ASSUME NEW r \in Request PROVE r \in Request'
    OBVIOUS
  <2>1. CASE r \in [kind : {"begin", "end"}, w : Window]
    BY <2>1 DEF Request
  <2>2. CASE r \in [kind : {"set"}, w : Window, frame : Finals, txid : Nat] /\ InTime(r.w, r.txid)
    BY <1>1, <2>2 DEF Request
  <2>3. CASE /\ r \in [kind : {"frame"}, w : Window, frame : Frame, txid : Nat, setSize : BOOLEAN]
             /\ InTime(r.w, r.txid)
    BY <1>1, <2>3 DEF Request
  <2>. QED  BY <2>1, <2>2, <2>3 DEF Request
<1>5. EventMessage \subseteq EventMessage'
  BY <1>1 DEF EventMessage
<1>. QED  BY <1>1, <1>2, <1>3, <1>4, <1>5, SeqMonotone

LEMMA ForEachOne ==
  ASSUME NEW ws, ws \subseteq Window, NEW S, NEW f \in [ws -> Seq(S)]
  PROVE  ForEach(f) \in Seq(S)
<1>1. IsFiniteSet(ws)
  BY FramesFacts, FS_Subset
<1>. QED  BY <1>1, ForEachType

LEMMA OneAndTwo ==
  ASSUME NEW S, NEW x \in S, NEW y \in S
  PROVE  <<x>> \in Seq(S) /\ <<x, y>> \in Seq(S)
OBVIOUS

-----------------------------------------------------------------------------
(* update_layout writes the frames of some windows, and each of these with *)
(* the next id.                                                            *)
Moves(moved, fr, gl, skip) ==
  /\ moved \subseteq Window
  /\ attempts' \in [Window -> [target : Frame, count : Nat]]
  /\ sent' = [w \in Window |-> IF w \in moved THEN sent[w] + 1 ELSE sent[w]]
  /\ frame' = [w \in Window |-> IF w \in moved THEN Target(gl[w]) ELSE fr[w]]
  /\ written' = [w \in Window |-> IF w \in moved THEN Target(gl[w]) ELSE written[w]]
  /\ animQ' = IF moved = {} THEN animQ
              ELSE Append(animQ,
                     [skip |-> skip \/ ~animate,
                      wins |-> [w \in moved |->
                                  [finish |-> Target(gl[w]), txid |-> sent[w] + 1]]])

LEMMA UpdateMoves ==
  ASSUME ReactorTypes, NEW fr \in [Window -> Frame], NEW ws \in SUBSET Window,
         NEW gl \in [Window -> Layouts], NEW skip \in BOOLEAN,
         UpdateLayout(fr, ws, gl, skip)
  PROVE  \E moved : Moves(moved, fr, gl, skip)
<1>. DEFINE misplaced == {w \in ws : Target(gl[w]) # fr[w]}
            count(late, w) == IF late \/ attempts[w].target # Target(gl[w]) THEN 1
                              ELSE attempts[w].count + 1
            moved(late) == {w \in misplaced : count(late, w) <= MaxAttempts}
<1>1. PICK late \in BOOLEAN :
        /\ attempts' = [w \in Window |->
                          IF w \in misplaced
                          THEN [target |-> Target(gl[w]), count |-> count(late, w)]
                          ELSE attempts[w]]
        /\ sent' = [w \in Window |-> IF w \in moved(late) THEN sent[w] + 1 ELSE sent[w]]
        /\ frame' = [w \in Window |-> IF w \in moved(late) THEN Target(gl[w]) ELSE fr[w]]
        /\ written' = [w \in Window |-> IF w \in moved(late) THEN Target(gl[w]) ELSE written[w]]
        /\ animQ' = IF moved(late) = {} THEN animQ
                    ELSE Append(animQ,
                           [skip |-> skip \/ ~animate,
                            wins |-> [w \in moved(late) |->
                                        [finish |-> Target(gl[w]), txid |-> sent[w] + 1]]])
  BY DEF UpdateLayout
<1>2. moved(late) \subseteq Window
  OBVIOUS
<1>3. \A w \in Window : count(late, w) \in Nat
  BY DEF ReactorTypes
<1>4. attempts' \in [Window -> [target : Frame, count : Nat]]
  <2>. HIDE DEF misplaced, count
  <2>1. \A w \in Window : [target |-> Target(gl[w]), count |-> count(late, w)]
                            \in [target : Frame, count : Nat]
    BY <1>3, FramesFacts
  <2>. QED  BY <1>1, <2>1 DEF ReactorTypes
<1>. HIDE DEF moved, misplaced, count
<1>5. Moves(moved(late), fr, gl, skip)
  BY <1>1, <1>2, <1>4 DEF Moves
<1>. QED  BY <1>5

LEMMA MovesTypes ==
  ASSUME ReactorTypes, animQ \in Seq(Message), NEW fr \in [Window -> Frame],
         NEW gl \in [Window -> Layouts], NEW skip \in BOOLEAN, NEW moved,
         Moves(moved, fr, gl, skip)
  PROVE  /\ frame' \in [Window -> Frame] /\ written' \in [Window -> Frame]
         /\ sent' \in [Window -> Nat]
         /\ attempts' \in [Window -> [target : Frame, count : Nat]]
         /\ \A w \in Window : sent'[w] \in Nat /\ sent[w] \in Nat /\ sent[w] <= sent'[w]
         /\ animQ' \in Seq(Message')
<1>1. frame' \in [Window -> Frame] /\ written' \in [Window -> Frame]
  BY FramesFacts DEF Moves, ReactorTypes
<1>2. sent' \in [Window -> Nat]
  BY DEF Moves, ReactorTypes
<1>3. \A w \in Window : sent'[w] \in Nat /\ sent[w] \in Nat /\ sent[w] <= sent'[w]
  BY <1>2 DEF Moves, ReactorTypes
<1>4. animQ \in Seq(Message')
  BY <1>3, StaysInTime
<1>5. ASSUME moved = {} PROVE animQ' \in Seq(Message')
  <2>1. animQ' = animQ
    BY <1>5 DEF Moves
  <2>. QED  BY <1>4, <2>1
<1>6. ASSUME moved # {} PROVE animQ' \in Seq(Message')
  <2>. PICK wins : wins = [w \in moved |-> [finish |-> Target(gl[w]), txid |-> sent[w] + 1]]
    OBVIOUS
  <2>. PICK m : m = [skip |-> skip \/ ~animate, wins |-> wins]
    OBVIOUS
  <2>1. animQ' = Append(animQ, m)
    BY <1>6 DEF Moves
  <2>2. moved \subseteq Window
    BY DEF Moves
  <2>3. \A w \in moved : wins[w] \in Write /\ wins[w].txid = sent'[w]
    <3>. SUFFICES ASSUME NEW w \in moved PROVE wins[w] \in Write /\ wins[w].txid = sent'[w]
      OBVIOUS
    <3>1. w \in Window /\ wins[w] = [finish |-> Target(gl[w]), txid |-> sent[w] + 1]
      BY <2>2
    <3>2. Target(gl[w]) \in Finals /\ sent[w] + 1 \in Nat
      <4>1. gl[w] \in Layouts /\ sent[w] \in Nat
        BY <3>1 DEF ReactorTypes
      <4>2. Target(gl[w]) \in Finals
        BY <4>1, FramesFacts
      <4>3. sent[w] + 1 \in Nat
        BY <4>1
      <4>. QED  BY <4>2, <4>3
    <3>3. sent'[w] = sent[w] + 1
      BY <3>1 DEF Moves
    <3>. QED  BY <3>1, <3>2, <3>3 DEF Write
  <2>4. wins \in [moved -> Write] /\ DOMAIN wins = moved
    BY <2>3
  <2>5. IsWrites(wins)'
    <3>1. \A w \in moved : InTime(w, wins[w].txid)'
      BY <1>3, <2>2, <2>3 DEF InTime
    <3>. QED  BY <2>2, <2>3, <2>4, <3>1 DEF IsWrites
  <2>6. m \in [skip : BOOLEAN, wins : UNION {[ws -> Write] : ws \in SUBSET Window}]
    <3>1. (skip \/ ~animate) \in BOOLEAN
      OBVIOUS
    <3>2. wins \in UNION {[ws -> Write] : ws \in SUBSET Window}
      BY <2>2, <2>4
    <3>. QED  BY <3>1, <3>2
  <2>7. m \in Message'
    BY <2>5, <2>6 DEF Message
  <2>8. Append(animQ, m) \in Seq(Message')
    BY <1>4, <2>7, SeqOps
  <2>. QED  BY <2>1, <2>8
<1>. QED  BY <1>1, <1>2, <1>3, <1>5, <1>6 DEF Moves

-----------------------------------------------------------------------------
(* Types are preserved. *)
LEMMA RequestTypes ==
  ASSUME NEW w \in Window, NEW a \in Write, InTime(w, a.txid), NEW k \in 1..Frames
  PROVE  /\ Begin(w) \in Request /\ End(w) \in Request
         /\ SetFrame(w, a) \in Request /\ AnimationFrame(w, a, k) \in Request
<1>1. Begin(w) \in Request /\ End(w) \in Request
  BY DEF Begin, End, Request
<1>2. a.finish \in Finals /\ a.txid \in Nat
  BY DEF Write
<1>3. SetFrame(w, a) \in Request
  BY <1>2 DEF SetFrame, Request
<1>4. AnimationFrame(w, a, k) \in Request
  <2>1. PICK l \in Layouts : a.finish = Target(l)
    BY <1>2 DEF Finals
  <2>. PICK f : f = [a.finish EXCEPT !.pos = <<a.finish.pos[1], k>>]
    OBVIOUS
  <2>2. f \in Frame
    BY <2>1 DEF Target, Frame
  <2>. PICK b \in BOOLEAN : b = (k * 2 = Frames \/ k = Frames)
    OBVIOUS
  <2>3. AnimationFrame(w, a, k)
          = [kind |-> "frame", w |-> w, txid |-> a.txid, frame |-> f, setSize |-> b]
    BY DEF AnimationFrame
  <2>. QED  BY <1>2, <2>2, <2>3 DEF Request
<1>. QED  BY <1>1, <1>3, <1>4

(* Sending requests of its windows leaves the animation manager's types. *)
LEMMA FinishAllType ==
  ASSUME NEW wins, IsWrites(wins)
  PROVE  FinishAll(wins) \in Seq(Request)
<1>. PICK ws : ws = DOMAIN wins
  OBVIOUS
<1>1. ws \subseteq Window /\ Frames \in 1..Frames
  BY FramesFacts DEF IsWrites
<1>. PICK f : f = [w \in ws |-> <<AnimationFrame(w, wins[w], Frames), End(w)>>]
  OBVIOUS
<1>2. ASSUME NEW w \in ws PROVE <<AnimationFrame(w, wins[w], Frames), End(w)>> \in Seq(Request)
  <2>1. AnimationFrame(w, wins[w], Frames) \in Request /\ End(w) \in Request
    BY <1>1, RequestTypes DEF IsWrites
  <2>. QED  BY <2>1, OneAndTwo
<1>3. f \in [ws -> Seq(Request)]
  BY <1>2
<1>4. ForEach(f) \in Seq(Request)
  BY <1>1, <1>3, ForEachOne
<1>. QED  BY <1>4 DEF FinishAll

LEMMA MessageTypes ==
  ASSUME AnimTypes, Queues, sent' = sent, HandleMessage
  PROVE  requests' \in Seq(Request) /\ AnimTypes'
<1>. PICK m : m = Head(animQ)
  OBVIOUS
<1>1. m \in Message /\ animQ' \in Seq(Message)
  BY SeqOps DEF AnimTypes, HandleMessage
<1>2. /\ \A f : IsWrites(f) => IsWrites(f)'
      /\ Seq(Message) \subseteq Seq(Message')
  <2>1. \A w \in Window : sent'[w] = sent[w]
    OBVIOUS
  <2>2. Message \subseteq Message' /\ \A f : IsWrites(f) => IsWrites(f)'
    BY <2>1 DEF Message, IsWrites, InTime
  <2>. QED  BY <2>2, SeqMonotone
<1>. PICK wins, ws, was : wins = m.wins /\ ws = DOMAIN wins /\ was = DOMAIN active.wins
  OBVIOUS
<1>3. /\ ws \subseteq Window /\ IsWrites(wins) /\ wins \in [ws -> Write]
      /\ was \subseteq Window /\ IsWrites(active.wins) /\ active.wins \in [was -> Write]
  BY <1>1 DEF Message, AnimTypes, IsWrites
<1>4. CASE SkipToEnd(wins)
  <2>. PICK f : f = [w \in ws |-> <<SetFrame(w, wins[w])>>]
    OBVIOUS
  <2>1. ASSUME NEW w \in ws PROVE <<SetFrame(w, wins[w])>> \in Seq(Request)
    <3>1. SetFrame(w, wins[w]) \in Request
      BY <1>3, FramesFacts, RequestTypes DEF IsWrites
    <3>. QED  BY <3>1, OneAndTwo
  <2>2. f \in [ws -> Seq(Request)]
    BY <2>1
  <2>3. ForEach(f) \in Seq(Request)
    BY <1>3, <2>2, ForEachOne
  <2>4. FinishAll(active.wins) \in Seq(Request)
    BY <1>3, FinishAllType
  <2>5. requests' = requests \o (FinishAll(active.wins) \o ForEach(f))
    BY <1>4 DEF SkipToEnd, Send
  <2>6. requests' \in Seq(Request)
    BY <2>3, <2>4, <2>5, SeqOps DEF Queues
  <2>7. active' = [wins |-> << >>, next |-> 1]
    BY <1>4 DEF SkipToEnd, NoAnimation
  <2>8. << >> \in [{} -> Write] /\ {} \in SUBSET Window /\ DOMAIN << >> = {}
    OBVIOUS
  <2>. QED  BY <1>1, <1>2, <2>6, <2>7, <2>8, FramesFacts DEF AnimTypes, IsWrites
<1>5. CASE Replace(wins)
  <2>. PICK f : f = [w \in ws \ was |-> <<Begin(w)>>]
    OBVIOUS
  <2>1. f \in [ws \ was -> Seq(Request)]
    BY <1>3 DEF Begin, Request
  <2>2. ForEach(f) \in Seq(Request)
    BY <1>3, <2>1, ForEachOne
  <2>3. requests' = requests \o ForEach(f)
    BY <1>5 DEF Replace, Send
  <2>4. requests' \in Seq(Request)
    BY <2>2, <2>3, SeqOps DEF Queues
  <2>. PICK c : c = CarriedOver(wins)
    OBVIOUS
  <2>5. active' = [wins |-> c, next |-> 1]
    BY <1>5 DEF Replace
  <2>6. c \in [ws \cup was -> Write] /\ DOMAIN c = ws \cup was /\ ws \cup was \subseteq Window
    BY <1>3 DEF CarriedOver
  <2>7. IsWrites(c)
    BY <1>3, <2>6 DEF IsWrites, CarriedOver
  <2>8. c \in UNION {[xs -> Write] : xs \in SUBSET Window}
    BY <2>6
  <2>9. active'.wins = c /\ active'.next = 1
    BY <2>5
  <2>. QED  BY <1>1, <1>2, <2>4, <2>5, <2>7, <2>8, <2>9, FramesFacts DEF AnimTypes
<1>. QED  BY <1>4, <1>5 DEF HandleMessage

LEMMA TickTypes ==
  ASSUME AnimTypes, Queues, sent' = sent, Tick
  PROVE  requests' \in Seq(Request) /\ AnimTypes'
<1>1. /\ \A f : IsWrites(f) => IsWrites(f)'
      /\ Seq(Message) \subseteq Seq(Message')
  <2>1. \A w \in Window : sent'[w] = sent[w]
    OBVIOUS
  <2>2. Message \subseteq Message' /\ \A f : IsWrites(f) => IsWrites(f)'
    BY <2>1 DEF Message, IsWrites, InTime
  <2>. QED  BY <2>2, SeqMonotone
<1>. PICK ws, k : ws = DOMAIN active.wins /\ k = active.next
  OBVIOUS
<1>2. ws \subseteq Window /\ IsWrites(active.wins) /\ k \in 1..Frames /\ animQ' = animQ
  BY DEF AnimTypes, IsWrites, Tick
<1>. PICK f : f = [w \in ws |-> <<AnimationFrame(w, active.wins[w], k)>>]
  OBVIOUS
<1>. PICK g : g = [w \in ws |-> <<End(w)>>]
  OBVIOUS
<1>3. ASSUME NEW w \in ws
      PROVE  <<AnimationFrame(w, active.wins[w], k)>> \in Seq(Request) /\ <<End(w)>> \in Seq(Request)
  <2>1. AnimationFrame(w, active.wins[w], k) \in Request /\ End(w) \in Request
    BY <1>2, RequestTypes DEF IsWrites
  <2>. QED  BY <2>1, OneAndTwo
<1>4. f \in [ws -> Seq(Request)] /\ g \in [ws -> Seq(Request)]
  BY <1>3
<1>5. ForEach(f) \in Seq(Request) /\ ForEach(g) \in Seq(Request)
  BY <1>2, <1>4, ForEachOne
<1>6. CASE k = Frames
  <2>1. requests' = requests \o (ForEach(f) \o ForEach(g))
    BY <1>6 DEF Tick, Send
  <2>2. requests' \in Seq(Request)
    BY <1>5, <2>1, SeqOps DEF Queues
  <2>3. active' = [wins |-> << >>, next |-> 1]
    BY <1>6 DEF Tick, NoAnimation
  <2>4. << >> \in [{} -> Write] /\ {} \in SUBSET Window /\ DOMAIN << >> = {}
    OBVIOUS
  <2>. QED  BY <1>1, <1>2, <2>2, <2>3, <2>4, FramesFacts DEF AnimTypes, IsWrites
<1>7. CASE k # Frames
  <2>1. requests' = requests \o ForEach(f)
    BY <1>7 DEF Tick, Send
  <2>2. requests' \in Seq(Request)
    BY <1>5, <2>1, SeqOps DEF Queues
  <2>3. active' = [wins |-> active.wins, next |-> k + 1]
    BY <1>7 DEF Tick, AnimTypes
  <2>4. k + 1 \in 1..Frames
    <3>1. Frames \in Nat
      BY FramesFacts
    <3>2. \A m \in Nat : \A i \in 1..m : i # m => i + 1 \in 1..m
      OBVIOUS
    <3>. QED  BY <1>2, <1>7, <3>1, <3>2
  <2>. QED  BY <1>1, <1>2, <2>2, <2>3, <2>4 DEF AnimTypes
<1>. QED  BY <1>6, <1>7

LEMMA NotifyTypes ==
  ASSUME notifs \in Seq(Notification), NEW old, NEW new, NEW ws, ws \subseteq Window,
         Notify(old, new, ws)
  PROVE  notifs' \in Seq(Notification)
<1>. PICK changed : changed = {w \in ws \cap DOMAIN new : old[w] # new[w]} \ suspended
  OBVIOUS
<1>. PICK f : f = [w \in changed |-> <<[w |-> w, destroyed |-> FALSE]>>]
  OBVIOUS
<1>1. changed \subseteq Window
  OBVIOUS
<1>2. ASSUME NEW w \in changed PROVE <<[w |-> w, destroyed |-> FALSE]>> \in Seq(Notification)
  <2>1. [w |-> w, destroyed |-> FALSE] \in Notification
    BY <1>1 DEF Notification
  <2>. QED  BY <2>1, OneAndTwo
<1>3. f \in [changed -> Seq(Notification)]
  BY <1>2
<1>4. ForEach(f) \in Seq(Notification)
  BY <1>1, <1>3, ForEachOne
<1>5. notifs' = notifs \o ForEach(f)
  BY DEF Notify
<1>. QED  BY <1>4, <1>5, SeqOps

LEMMA FlushedTypes ==
  ASSUME AppTypes, NEW ws, ws \subseteq Window
  PROVE  /\ DOMAIN Flushed(ws) = DOMAIN real /\ \A w \in DOMAIN real : Flushed(ws)[w] \in Frame
         /\ FlushedSeen(ws) \in [Window -> Nat] /\ \A w \in Window : InTime(w, FlushedSeen(ws)[w])
         /\ DOMAIN FlushedLast(ws) \subseteq Window
         /\ \A w \in DOMAIN FlushedLast(ws) : FlushedLast(ws)[w] \in Frame
<1>1. \A f, g \in Frame : [f EXCEPT !.pos = g.pos] \in Frame
  BY DEF Frame
<1>2. \A w \in DOMAIN pending : pending[w].frame \in Frame /\ pending[w].txid \in Nat
  BY DEF AppTypes, PendingFrame
<1>3. ASSUME NEW w \in DOMAIN real PROVE Flushed(ws)[w] \in Frame
  <2>1. real[w] \in Frame
    BY DEF AppTypes
  <2>2. CASE w \notin ws \cap DOMAIN pending \cap elems
    BY <2>1, <2>2 DEF Flushed
  <2>3. CASE w \in ws \cap DOMAIN pending \cap elems /\ pending[w].setSize
    BY <1>2, <2>3 DEF Flushed
  <2>4. CASE w \in ws \cap DOMAIN pending \cap elems /\ ~pending[w].setSize
    <3>1. Flushed(ws)[w] = [real[w] EXCEPT !.pos = pending[w].frame.pos]
      BY <2>4 DEF Flushed
    <3>2. pending[w].frame \in Frame
      BY <1>2, <2>4
    <3>. QED  BY <1>1, <2>1, <3>1, <3>2
  <2>. QED  BY <2>2, <2>3, <2>4
<1>4. ASSUME NEW w \in Window PROVE FlushedSeen(ws)[w] \in Nat /\ InTime(w, FlushedSeen(ws)[w])
  BY <1>2 DEF FlushedSeen, AppTypes
<1>5. /\ DOMAIN FlushedLast(ws) \subseteq Window
      /\ \A w \in DOMAIN FlushedLast(ws) : FlushedLast(ws)[w] \in Frame
  <2>. PICK sized : sized = {w \in ws \cap DOMAIN pending \cap elems : pending[w].setSize}
    OBVIOUS
  <2>1. FlushedLast(ws) = [w \in DOMAIN lastFrame \cup sized |->
                             IF w \in sized THEN pending[w].frame ELSE lastFrame[w]]
    BY DEF FlushedLast
  <2>2. sized \subseteq Window /\ sized \subseteq DOMAIN pending
    OBVIOUS
  <2>. QED  BY <1>2, <2>1, <2>2 DEF AppTypes
<1>6. DOMAIN Flushed(ws) = DOMAIN real
  BY DEF Flushed
<1>7. FlushedSeen(ws) \in [Window -> Nat]
  BY <1>4 DEF FlushedSeen
<1>. QED  BY <1>3, <1>4, <1>5, <1>6, <1>7

(* What a read of a frame says, and the types of the requests' parts.      *)
LEMMA ReadType ==
  ASSUME NEW w \in Window, NEW f \in Frame, NEW id, InTime(w, id), NEW req \in BOOLEAN
  PROVE  FrameRead(w, f, id, req) \in EventMessage
BY DEF FrameRead, EventMessage, InTime

LEMMA RequestParts ==
  ASSUME NEW r \in Request
  PROVE  /\ r.w \in Window /\ r.kind \in {"begin", "end", "set", "frame"}
         /\ r.kind = "set" => r.frame \in Frame /\ InTime(r.w, r.txid)
         /\ r.kind = "frame" => /\ r.frame \in Frame /\ InTime(r.w, r.txid)
                                /\ r.setSize \in BOOLEAN
<1>1. Finals \subseteq Frame
  BY FramesFacts
<1>. QED  BY <1>1 DEF Request

LEMMA SameInTime ==
  ASSUME sent' = sent
  PROVE  /\ \A w \in Window : \A id : InTime(w, id) => InTime(w, id)'
         /\ Seq(Message) \subseteq Seq(Message') /\ Seq(Request) \subseteq Seq(Request')
         /\ Seq(EventMessage) \subseteq Seq(EventMessage')
<1>1. \A w \in Window : \A id : InTime(w, id) => InTime(w, id)'
  BY DEF InTime
<1>2. \A f : IsWrites(f) => IsWrites(f)'
  BY DEF IsWrites, InTime
<1>3. Message \subseteq Message' /\ Request \subseteq Request' /\ EventMessage \subseteq EventMessage'
  BY DEF Message, IsWrites, Request, EventMessage, InTime
<1>. QED  BY <1>1, <1>3, SeqMonotone

LEMMA SameAnim ==
  ASSUME AnimTypes, sent' = sent, UNCHANGED animVars
  PROVE  AnimTypes'
<1>1. Seq(Message) \subseteq Seq(Message')
  BY SameInTime
<1>2. IsWrites(active.wins)'
  BY DEF AnimTypes, IsWrites, InTime, animVars
<1>. QED  BY <1>1, <1>2 DEF AnimTypes, animVars

LEMMA SameApp ==
  ASSUME AppTypes, sent' = sent, UNCHANGED appVars, UNCHANGED real
  PROVE  AppTypes'
BY DEF AppTypes, appVars, InTime

LEMMA FlushTypes ==
  ASSUME AppTypes, Queues, sent' = sent, UNCHANGED animVars, FlushAll
  PROVE  AppTypes' /\ Queues'
<1>1. /\ DOMAIN Flushed(Window) = DOMAIN real /\ \A w \in DOMAIN real : Flushed(Window)[w] \in Frame
      /\ FlushedSeen(Window) \in [Window -> Nat]
      /\ \A w \in Window : InTime(w, FlushedSeen(Window)[w])
      /\ DOMAIN FlushedLast(Window) \subseteq Window
      /\ \A w \in DOMAIN FlushedLast(Window) : FlushedLast(Window)[w] \in Frame
  BY FlushedTypes
<1>2. /\ real' = Flushed(Window) /\ seen' = FlushedSeen(Window) /\ lastFrame' = FlushedLast(Window)
      /\ pending' = << >> /\ draining' = FALSE
      /\ UNCHANGED <<events, requests, batch, elems, animating, restore, enhanced, suspended>>
  BY DEF FlushAll
<1>3. \A w \in Window : InTime(w, seen[w])'
  <2>1. \A w \in Window : InTime(w, seen'[w])
    BY <1>1, <1>2
  <2>. QED  BY <2>1 DEF InTime
<1>4. DOMAIN pending' = {}
  BY <1>2
<1>5. AppTypes'
  BY <1>1, <1>2, <1>3, <1>4 DEF AppTypes
<1>6. notifs' \in Seq(Notification)
  BY NotifyTypes DEF FlushAll, Queues
<1>7. Queues'
  BY <1>2, <1>6, SameInTime DEF Queues
<1>. QED  BY <1>5, <1>7

LEMMA SetTypes ==
  ASSUME AppTypes, Queues, sent' = sent, NEW r \in Request, r.kind = "set",
         HandleSetWindowFrame(r)
  PROVE  /\ notifs' \in Seq(Notification) /\ events' \in Seq(EventMessage)
         /\ seen' \in [Window -> Nat] /\ \A w \in Window : InTime(w, seen'[w])
         /\ DOMAIN real' \subseteq Window /\ \A w \in DOMAIN real' : real'[w] \in Frame
<1>1. r.w \in Window /\ r.frame \in Frame /\ InTime(r.w, r.txid)
  BY RequestParts
<1>2. CASE r.w \notin elems
  BY <1>2 DEF HandleSetWindowFrame, AppTypes, Queues
<1>3. CASE r.w \in elems
  <2>1. seen' = [seen EXCEPT ![r.w] = r.txid]
    BY <1>3 DEF HandleSetWindowFrame
  <2>2. seen' \in [Window -> Nat] /\ \A w \in Window : InTime(w, seen'[w])
    BY <1>1, <2>1 DEF AppTypes, InTime
  <2>3. CASE ~Exists(r.w)
    BY <1>3, <2>2, <2>3 DEF HandleSetWindowFrame, AppTypes, Queues
  <2>4. CASE Exists(r.w)
    <3>1. /\ real' = [real EXCEPT ![r.w] = r.frame]
          /\ Notify(real, real', {r.w})
          /\ events' = Append(events, FrameRead(r.w, r.frame, r.txid, TRUE))
      BY <1>3, <2>4 DEF HandleSetWindowFrame
    <3>2. DOMAIN real' \subseteq Window /\ \A w \in DOMAIN real' : real'[w] \in Frame
      BY <1>1, <3>1 DEF AppTypes
    <3>3. notifs' \in Seq(Notification)
      BY <1>1, <3>1, NotifyTypes DEF Queues
    <3>4. FrameRead(r.w, r.frame, r.txid, TRUE) \in EventMessage
      BY <1>1, ReadType
    <3>5. events' \in Seq(EventMessage)
      BY <3>1, <3>4, SeqOps DEF Queues
    <3>. QED  BY <2>2, <3>2, <3>3, <3>5
  <2>. QED  BY <2>3, <2>4
<1>. QED  BY <1>2, <1>3

LEMMA EndTypes ==
  ASSUME AppTypes, Queues, sent' = sent, NEW r \in Request, r.kind = "end", HandleEnd(r)
  PROVE  /\ notifs' \in Seq(Notification) /\ events' \in Seq(EventMessage)
         /\ AppTypes' \/ draining' # draining
         /\ \/ events' = events
            \/ \E e \in EventMessage : /\ r.w \in elems /\ e.w = r.w /\ e.destroyed = FALSE
                                       /\ events' = Append(events, e)
<1>1. r.w \in Window /\ {r.w} \subseteq Window
  BY RequestParts
<1>2. PICK flushed, last, seen1 :
        flushed = Flushed({r.w}) /\ last = FlushedLast({r.w}) /\ seen1 = FlushedSeen({r.w})
  OBVIOUS
<1>3. /\ DOMAIN flushed = DOMAIN real /\ \A w \in DOMAIN real : flushed[w] \in Frame
      /\ seen1 \in [Window -> Nat] /\ \A w \in Window : InTime(w, seen1[w])
      /\ DOMAIN last \subseteq Window /\ \A w \in DOMAIN last : last[w] \in Frame
  BY <1>1, <1>2, FlushedTypes
<1>. PICK fixed : fixed = [w \in DOMAIN real |->
                             IF w = r.w /\ w \in DOMAIN last THEN last[w] ELSE flushed[w]]
  OBVIOUS
<1>4. DOMAIN fixed = DOMAIN real /\ \A w \in DOMAIN fixed : fixed[w] \in Frame
  BY <1>3
<1>5. pending' = Without(pending, r.w) /\ animating' = (IF animating = 0 THEN 0 ELSE animating - 1)
      /\ enhanced' \in BOOLEAN /\ restore' \in BOOLEAN /\ elems' = elems
  BY DEF HandleEnd, AppTypes
<1>6. /\ DOMAIN pending' \subseteq Window
      /\ \A w \in DOMAIN pending' : pending'[w] \in PendingFrame /\ InTime(w, pending'[w].txid)
  BY <1>5 DEF Without, AppTypes
<1>7. animating' \in Nat
  BY <1>5 DEF AppTypes
<1>8. CASE r.w \notin elems
  <2>1. UNCHANGED <<seen, lastFrame, real, notifs, suspended, events>>
    BY <1>8 DEF HandleEnd
  <2>2. draining' = draining => AppTypes'
    BY <1>5, <1>6, <1>7, <2>1, SameInTime DEF AppTypes
  <2>. QED  BY <2>1, <2>2 DEF Queues
<1>9. CASE r.w \in elems
  <2>1. /\ seen' = seen1 /\ lastFrame' = Without(last, r.w) /\ real' = fixed
        /\ Notify(real, real', {r.w}) /\ suspended' = suspended \ {r.w}
        /\ events' = IF Exists(r.w)
                     THEN Append(events, FrameRead(r.w, fixed[r.w], seen'[r.w], TRUE))
                     ELSE events
    BY <1>2, <1>9 DEF HandleEnd, RestartNotifications
  <2>2. DOMAIN lastFrame' \subseteq Window /\ \A w \in DOMAIN lastFrame' : lastFrame'[w] \in Frame
    BY <1>3, <2>1 DEF Without
  <2>3. draining' = draining => AppTypes'
    BY <1>3, <1>4, <1>5, <1>6, <1>7, <2>1, <2>2, SameInTime DEF AppTypes
  <2>4. notifs' \in Seq(Notification)
    BY <1>1, <2>1, NotifyTypes DEF Queues
  <2>5. ASSUME Exists(r.w) PROVE FrameRead(r.w, fixed[r.w], seen'[r.w], TRUE) \in EventMessage
    BY <1>1, <1>3, <1>4, <2>1, <2>5, ReadType DEF Exists
  <2>6. events' \in Seq(EventMessage)
    BY <2>1, <2>5, SeqOps DEF Queues
  <2>7. Exists(r.w) =>
          \E e \in EventMessage : /\ e.w = r.w /\ e.destroyed = FALSE
                                  /\ events' = Append(events, e)
    <3>. SUFFICES ASSUME Exists(r.w)
                  PROVE  \E e \in EventMessage : /\ e.w = r.w /\ e.destroyed = FALSE
                                                 /\ events' = Append(events, e)
      OBVIOUS
    <3>. PICK e : e = FrameRead(r.w, fixed[r.w], seen'[r.w], TRUE)
      OBVIOUS
    <3>1. e \in EventMessage /\ events' = Append(events, e)
      BY <2>1, <2>5
    <3>2. e.w = r.w /\ e.destroyed = FALSE
      BY DEF FrameRead
    <3>. QED  BY <3>1, <3>2
  <2>8. ~Exists(r.w) => events' = events
    BY <2>1
  <2>. QED  BY <1>9, <2>3, <2>4, <2>6, <2>7, <2>8
<1>. QED  BY <1>8, <1>9

LEMMA BeginTypes ==
  ASSUME AppTypes, Queues, sent' = sent, NEW r \in Request, HandleBegin(r)
  PROVE  /\ notifs' = notifs /\ events' = events
         /\ AppTypes' \/ draining' # draining
<1>1. r.w \in Window
  BY RequestParts
<1>2. UNCHANGED <<events, notifs, real, elems, seen, pending>>
  BY DEF HandleBegin
<1>3. animating' \in Nat /\ enhanced' \in BOOLEAN /\ restore' \in BOOLEAN
  <2>1. animating' \in Nat
    BY DEF HandleBegin, AppTypes
  <2>2. CASE animating = 0
    BY <2>1, <2>2 DEF HandleBegin, AppTypes
  <2>3. CASE animating # 0
    BY <2>1, <2>3 DEF HandleBegin, AppTypes
  <2>. QED  BY <2>2, <2>3
<1>4. suspended' \subseteq Window
  BY <1>1 DEF HandleBegin, StopNotifications, AppTypes
<1>5. DOMAIN lastFrame' \subseteq Window /\ \A w \in DOMAIN lastFrame' : lastFrame'[w] \in Frame
  BY DEF HandleBegin, Without, AppTypes
<1>6. draining' = draining => AppTypes'
  BY <1>2, <1>3, <1>4, <1>5, SameInTime DEF AppTypes
<1>. QED  BY <1>2, <1>6

LEMMA FrameTypes ==
  ASSUME AppTypes, Queues, sent' = sent, NEW r \in Request, r.kind = "frame",
         HandleAnimationFrame(r)
  PROVE  /\ notifs' = notifs /\ events' = events
         /\ AppTypes' \/ draining' # draining
<1>1. r.w \in Window /\ r.frame \in Frame /\ InTime(r.w, r.txid) /\ r.setSize \in BOOLEAN
  BY RequestParts
<1>2. UNCHANGED <<events, notifs, real, elems, seen, lastFrame, animating, restore, enhanced,
                  suspended>>
  BY DEF HandleAnimationFrame
<1>. PICK p : p = [frame |-> r.frame, setSize |-> r.setSize, txid |-> r.txid]
  OBVIOUS
<1>3. p \in PendingFrame /\ InTime(r.w, p.txid)
  BY <1>1 DEF PendingFrame, InTime
<1>4. pending' = [v \in DOMAIN pending \cup {r.w} |-> IF v = r.w THEN p ELSE pending[v]]
  BY DEF HandleAnimationFrame, With
<1>5. DOMAIN pending' \subseteq Window
  BY <1>1, <1>4 DEF AppTypes
<1>6. \A w \in DOMAIN pending' : pending'[w] \in PendingFrame /\ InTime(w, pending'[w].txid)
  BY <1>3, <1>4 DEF AppTypes
<1>7. draining' = draining => AppTypes'
  BY <1>2, <1>5, <1>6, SameInTime DEF AppTypes
<1>. QED  BY <1>2, <1>7

LEMMA RequestTypesKept ==
  ASSUME AppTypes, Queues, sent' = sent, HandleRequest
  PROVE  AppTypes' /\ Queues'
<1>. PICK r : r = Head(batch)
  OBVIOUS
<1>1. r \in Request /\ batch' \in Seq(Request)
  BY SeqOps DEF Queues, HandleRequest
<1>2. requests' = requests /\ draining' = draining
  BY DEF HandleRequest
<1>3. CASE r.kind = "frame" /\ HandleAnimationFrame(r)
  BY <1>1, <1>2, <1>3, FrameTypes, SameInTime DEF Queues
<1>4. CASE r.kind = "begin" /\ HandleBegin(r)
  BY <1>1, <1>2, <1>4, BeginTypes, SameInTime DEF Queues
<1>5. CASE r.kind = "end" /\ HandleEnd(r)
  BY <1>1, <1>2, <1>5, EndTypes, SameInTime DEF Queues
<1>6. CASE r.kind = "set" /\ HandleSetWindowFrame(r)
  <2>1. /\ notifs' \in Seq(Notification) /\ events' \in Seq(EventMessage)
        /\ seen' \in [Window -> Nat] /\ \A w \in Window : InTime(w, seen'[w])
        /\ DOMAIN real' \subseteq Window /\ \A w \in DOMAIN real' : real'[w] \in Frame
    BY <1>1, <1>6, SetTypes
  <2>2. UNCHANGED <<elems, pending, lastFrame, animating, restore, enhanced, suspended>>
    BY <1>6 DEF HandleSetWindowFrame
  <2>3. AppTypes'
    BY <1>2, <2>1, <2>2, SameInTime DEF AppTypes
  <2>. QED  BY <1>1, <1>2, <2>1, <2>3, SameInTime DEF Queues
<1>. QED  BY <1>3, <1>4, <1>5, <1>6 DEF HandleRequest

LEMMA NotificationTypes ==
  ASSUME AppTypes, Queues, sent' = sent, HandleNotification
  PROVE  AppTypes' /\ Queues'
<1>. PICK n : n = Head(notifs)
  OBVIOUS
<1>1. n \in Notification /\ notifs' \in Seq(Notification) /\ n.w \in Window
  <2>1. notifs \in Seq(Notification) /\ notifs # << >> /\ notifs' = Tail(notifs)
    BY DEF Queues, HandleNotification
  <2>2. n \in Notification /\ notifs' \in Seq(Notification)
    BY <2>1, SeqOps
  <2>. QED  BY <2>2 DEF Notification
<1>2. UNCHANGED <<requests, real, batch, draining, seen, pending, lastFrame, animating, restore,
                  enhanced, suspended>>
  BY DEF HandleNotification
<1>3. elems' \subseteq Window
  BY DEF HandleNotification, AppTypes
<1>4. AppTypes'
  BY <1>2, <1>3, SameInTime DEF AppTypes
<1>5. events' \in Seq(EventMessage)
  <2>1. Destroyed(n.w) \in EventMessage
    BY <1>1 DEF Destroyed, EventMessage
  <2>2. ASSUME Exists(n.w) PROVE FrameRead(n.w, real[n.w], seen[n.w], FALSE) \in EventMessage
    BY <1>1, <2>2, ReadType DEF AppTypes, Exists
  <2>3. events' \in {events, Append(events, Destroyed(n.w))}
        \/ (Exists(n.w) /\ events' = Append(events, FrameRead(n.w, real[n.w], seen[n.w], FALSE)))
    BY DEF HandleNotification
  <2>4. events \in Seq(EventMessage)
    BY DEF Queues
  <2>5. CASE events' \in {events, Append(events, Destroyed(n.w))}
    BY <2>1, <2>4, <2>5, SeqOps
  <2>6. CASE Exists(n.w) /\ events' = Append(events, FrameRead(n.w, real[n.w], seen[n.w], FALSE))
    BY <2>2, <2>4, <2>6, SeqOps
  <2>. QED  BY <2>3, <2>5, <2>6
<1>. QED  BY <1>1, <1>2, <1>4, <1>5, SameInTime DEF Queues

-----------------------------------------------------------------------------
(* The reactor's steps, as the frames they write. *)
LEMMA CommandMoves ==
  ASSUME Types, NEW l \in Layouts, NEW ws \in SUBSET Window, NEW skip \in BOOLEAN,
         Command(l, ws, skip)
  PROVE  /\ \E moved : Moves(moved, frame, goal', skip)
         /\ goal' \in [Window -> Layouts] /\ asked' = goal'
<1>1. goal' \in [Window -> Layouts] /\ asked' = goal'
  BY DEF Command, Types, ReactorTypes
<1>2. UpdateLayout(frame, windows, goal', skip)
  BY DEF Command
<1>3. frame \in [Window -> Frame] /\ windows \in SUBSET Window /\ ReactorTypes
  BY DEF Types, ReactorTypes
<1>. PICK gl : gl = goal'
  OBVIOUS
<1>4. \E moved : Moves(moved, frame, gl, skip)
  BY <1>1, <1>2, <1>3, UpdateMoves
<1>. QED  BY <1>1, <1>4

(* A frame that is new moves the window in the reactor's state, and gives  *)
(* it a layout of its own.                                                 *)
LEMMA EventMoves ==
  ASSUME Types, HandleEvent
  PROVE  LET e == Head(events) IN
         \/ /\ ~e.destroyed /\ windows' = windows
            /\ e.txid # sent[e.w] \/ e.requested \/ e.frame = frame[e.w]
            /\ UNCHANGED <<frame, sent, goal, attempts, written, animQ>>
         \/ /\ ~e.destroyed /\ windows' = windows
            /\ e.txid = sent[e.w] /\ ~e.requested /\ e.frame # frame[e.w]
            /\ \E skip \in BOOLEAN :
                 \E moved : Moves(moved, [frame EXCEPT ![e.w] = e.frame], goal', skip)
            /\ goal' \in [Window -> Layouts]
         \/ /\ e.destroyed /\ windows' = windows \ {e.w} /\ goal' = goal
            /\ \E moved : Moves(moved, frame, goal', FALSE)
<1>. PICK e : e = Head(events)
  OBVIOUS
<1>0. e \in EventMessage /\ ReactorTypes
  BY SeqOps DEF Types, Queues, HandleEvent
<1>1. CASE e.destroyed
  <2>1. windows' = windows \ {e.w} /\ goal' = goal /\ UpdateLayout(frame, windows \ {e.w}, goal, FALSE)
    BY <1>1 DEF HandleEvent, HandleWindowDestroyed
  <2>2. \E moved : Moves(moved, frame, goal, FALSE)
    BY <1>0, <2>1, UpdateMoves DEF ReactorTypes
  <2>3. goal' = goal => \E moved : Moves(moved, frame, goal', FALSE)
    BY <2>2
  <2>. QED  BY <1>1, <2>1, <2>3
<1>2. CASE ~e.destroyed
  <2>1. HandleFrameChanged(e)
    BY <1>2 DEF HandleEvent
  <2>2. windows' = windows
    BY <2>1 DEF HandleFrameChanged
  <2>3. CASE e.txid # sent[e.w] \/ e.requested \/ e.frame = frame[e.w]
    BY <1>2, <2>1, <2>2, <2>3 DEF HandleFrameChanged
  <2>4. CASE ~(e.txid # sent[e.w] \/ e.requested \/ e.frame = frame[e.w])
    <3>. PICK gl, fr, skip :
           /\ gl = [goal EXCEPT ![e.w] = e.frame.size] /\ fr = [frame EXCEPT ![e.w] = e.frame]
           /\ skip = (e.frame.size # frame[e.w].size)
      OBVIOUS
    <3>1. goal' = gl /\ UpdateLayout(fr, windows, goal', skip)
      BY <2>1, <2>4 DEF HandleFrameChanged
    <3>2. e.w \in Window /\ e.frame \in Frame
      BY <1>0, <1>2 DEF EventMessage
    <3>3. e.frame.size \in Layouts
      BY <3>2 DEF Frame
    <3>4. gl \in [Window -> Layouts] /\ fr \in [Window -> Frame]
      BY <1>0, <3>2, <3>3 DEF ReactorTypes
    <3>5. UpdateLayout(fr, windows, gl, skip)
      BY <3>1
    <3>6. skip \in BOOLEAN /\ windows \in SUBSET Window
      BY <1>0 DEF ReactorTypes
    <3>7. \E moved : Moves(moved, fr, gl, skip)
      BY <1>0, <3>4, <3>5, <3>6, UpdateMoves
    <3>8. \E sk \in BOOLEAN : \E moved : Moves(moved, fr, goal', sk)
      BY <3>1, <3>6, <3>7
    <3>. QED  BY <1>2, <2>2, <2>4, <3>1, <3>4, <3>8
  <2>. QED  BY <2>3, <2>4
<1>. QED  BY <1>1, <1>2

-----------------------------------------------------------------------------
(* Types of the whole. *)
LEMMA UserTypes ==
  ASSUME Types, NEW w \in Window,
         UserCloses(w) \/ \E l \in Layouts : UserMoves(w, l)
  PROVE  Types'
<1>1. /\ UNCHANGED <<reactorVars, animVars, appVars, events, requests, animate, commands>>
      /\ moves' = moves + 1
  BY DEF UserCloses, UserMoves
<1>2. sent' = sent
  BY <1>1 DEF reactorVars
<1>3. ReactorTypes'
  BY <1>1 DEF Types, ReactorTypes, reactorVars
<1>4. AnimTypes'
  BY <1>1, <1>2, SameAnim DEF Types
<1>5. /\ DOMAIN real' \subseteq Window /\ \A v \in DOMAIN real' : real'[v] \in Frame
      /\ notifs' \in Seq(Notification)
  <2>1. CASE UserCloses(w)
    <3>1. [w |-> w, destroyed |-> TRUE] \in Notification
      BY DEF Notification
    <3>2. notifs' \in Seq(Notification)
      BY <2>1, <3>1, SeqOps DEF UserCloses, Types, Queues
    <3>. QED  BY <2>1, <3>2 DEF UserCloses, Without, Types, AppTypes
  <2>2. ASSUME NEW l \in Layouts, UserMoves(w, l)
        PROVE  /\ DOMAIN real' \subseteq Window /\ \A v \in DOMAIN real' : real'[v] \in Frame
               /\ notifs' \in Seq(Notification)
    <3>1. real' = [real EXCEPT ![w] = Target(l)] /\ Notify(real, real', {w})
      BY <2>2 DEF UserMoves
    <3>2. Target(l) \in Frame
      BY FramesFacts
    <3>3. notifs' \in Seq(Notification)
      BY <3>1, NotifyTypes DEF Types, Queues
    <3>. QED  BY <3>1, <3>2, <3>3 DEF Types, AppTypes
  <2>. QED  BY <2>1, <2>2
<1>6. AppTypes'
  BY <1>1, <1>2, <1>5, SameInTime DEF Types, AppTypes, appVars
<1>7. Queues'
  BY <1>1, <1>2, <1>5, SameInTime DEF Types, Queues, appVars
<1>. QED  BY <1>3, <1>4, <1>6, <1>7 DEF Types

(* The app and the animation manager leave the types of the reactor.       *)
LEMMA ReactorTypesKept ==
  ASSUME ReactorTypes, UNCHANGED <<reactorVars, animate, moves>>
  PROVE  ReactorTypes' /\ sent' = sent
BY DEF ReactorTypes, reactorVars

(* The reactor's own steps: what it sends is in time, and so is all that   *)
(* was sent before.                                                        *)
LEMMA ReactorStepTypes ==
  ASSUME Types, NEW fr \in [Window -> Frame], NEW gl, gl \in [Window -> Layouts],
         NEW skip \in BOOLEAN, NEW moved, Moves(moved, fr, gl, skip),
         goal' \in [Window -> Layouts], asked' \in [Window -> Layouts],
         windows' \subseteq windows, events' = events \/ (events # << >> /\ events' = Tail(events)),
         UNCHANGED <<active, requests, notifs, appVars, real, animate, moves>>
  PROVE  Types'
<1>1. /\ frame' \in [Window -> Frame] /\ written' \in [Window -> Frame]
      /\ sent' \in [Window -> Nat]
      /\ attempts' \in [Window -> [target : Frame, count : Nat]]
      /\ animQ' \in Seq(Message')
      /\ \A w \in Window : sent'[w] \in Nat /\ sent[w] \in Nat /\ sent[w] <= sent'[w]
  BY MovesTypes DEF Types, AnimTypes
<1>2. /\ \A w \in Window : \A id : InTime(w, id) => InTime(w, id)'
      /\ \A f : IsWrites(f) => IsWrites(f)'
      /\ Seq(Request) \subseteq Seq(Request') /\ Seq(EventMessage) \subseteq Seq(EventMessage')
  BY <1>1, StaysInTime
<1>3. ReactorTypes'
  BY <1>1 DEF Types, ReactorTypes
<1>4. AnimTypes'
  BY <1>1, <1>2 DEF Types, AnimTypes
<1>5. AppTypes'
  BY <1>2 DEF Types, AppTypes, appVars
<1>6. Queues'
  <2>1. events' \in Seq(EventMessage)
    BY SeqOps DEF Types, Queues
  <2>. QED  BY <1>2, <2>1 DEF Types, Queues, appVars
<1>. QED  BY <1>3, <1>4, <1>5, <1>6 DEF Types

LEMMA TypesKept ==
  ASSUME Types, [Next]_vars
  PROVE  Types'
<1>1. ASSUME NEW l \in Layouts, NEW ws \in SUBSET Window, NEW skip \in BOOLEAN,
             Command(l, ws, skip)
      PROVE  Types'
  <2>. PICK gl : gl = goal'
    OBVIOUS
  <2>1. /\ \E moved : Moves(moved, frame, gl, skip)
        /\ gl \in [Window -> Layouts] /\ goal' = gl /\ asked' = gl
    BY <1>1, CommandMoves
  <2>2. /\ windows' \subseteq windows /\ events' = events
        /\ UNCHANGED <<active, requests, notifs, appVars, real, animate, moves>>
    BY <1>1 DEF Command
  <2>3. frame \in [Window -> Frame]
    BY DEF Types, ReactorTypes
  <2>. QED  BY <2>1, <2>2, <2>3, ReactorStepTypes
<1>2. CASE HandleEvent
  <2>. PICK e, gl : e = Head(events) /\ gl = goal'
    OBVIOUS
  <2>1. /\ events # << >> /\ events' = Tail(events)
        /\ UNCHANGED <<asked, active, requests, notifs, appVars, real, animate, moves>>
    BY <1>2 DEF HandleEvent, userVars
  <2>2. e \in EventMessage
    BY <2>1, SeqOps DEF Types, Queues
  <2>3. asked \in [Window -> Layouts] /\ frame \in [Window -> Frame] /\ goal \in [Window -> Layouts]
    BY DEF Types, ReactorTypes
  <2>4. CASE /\ ~e.destroyed /\ windows' = windows
             /\ UNCHANGED <<frame, sent, goal, attempts, written, animQ>>
    <3>1. ReactorTypes' /\ sent' = sent
      BY <2>1, <2>4 DEF Types, ReactorTypes
    <3>2. AnimTypes' /\ AppTypes'
      BY <2>1, <2>4, SameAnim, SameApp DEF Types, animVars
    <3>3. events' \in Seq(EventMessage)
      BY <2>1, SeqOps DEF Types, Queues
    <3>4. Queues'
      BY <2>1, <3>1, <3>3, SameInTime DEF Types, Queues, appVars
    <3>. QED  BY <3>1, <3>2, <3>4 DEF Types
  <2>5. CASE /\ ~e.destroyed /\ windows' = windows /\ gl \in [Window -> Layouts]
             /\ \E skip \in BOOLEAN :
                  \E moved : Moves(moved, [frame EXCEPT ![e.w] = e.frame], gl, skip)
    <3>. PICK fr : fr = [frame EXCEPT ![e.w] = e.frame]
      OBVIOUS
    <3>1. fr \in [Window -> Frame]
      BY <2>2, <2>3, <2>5 DEF EventMessage
    <3>2. windows' \subseteq windows
      BY <2>5
    <3>3. \E skip \in BOOLEAN : \E moved : Moves(moved, fr, gl, skip)
      BY <2>5
    <3>. QED  BY <2>1, <2>3, <2>5, <3>1, <3>2, <3>3, ReactorStepTypes
  <2>6. CASE /\ e.destroyed /\ windows' = windows \ {e.w} /\ goal' = goal
             /\ \E moved : Moves(moved, frame, gl, FALSE)
    BY <2>1, <2>3, <2>6, ReactorStepTypes
  <2>. QED  BY <1>2, <2>4, <2>5, <2>6, EventMoves
<1>3. CASE HandleMessage
  <2>1. UNCHANGED <<reactorVars, animate, moves, events, notifs, appVars, real>>
    BY <1>3 DEF HandleMessage, userVars
  <2>2. ReactorTypes' /\ sent' = sent
    BY <2>1, ReactorTypesKept DEF Types
  <2>3. requests' \in Seq(Request) /\ AnimTypes'
    BY <1>3, <2>2, MessageTypes DEF Types
  <2>4. AppTypes'
    BY <2>1, <2>2, SameApp DEF Types
  <2>5. Queues'
    BY <2>1, <2>2, <2>3, SameInTime DEF Types, Queues, appVars
  <2>. QED  BY <2>2, <2>3, <2>4, <2>5 DEF Types
<1>4. CASE Tick
  <2>1. UNCHANGED <<reactorVars, animate, moves, events, notifs, appVars, real>>
    BY <1>4 DEF Tick, userVars
  <2>2. ReactorTypes' /\ sent' = sent
    BY <2>1, ReactorTypesKept DEF Types
  <2>3. requests' \in Seq(Request) /\ AnimTypes'
    BY <1>4, <2>2, TickTypes DEF Types
  <2>4. AppTypes'
    BY <2>1, <2>2, SameApp DEF Types
  <2>5. Queues'
    BY <2>1, <2>2, <2>3, SameInTime DEF Types, Queues, appVars
  <2>. QED  BY <2>2, <2>3, <2>4, <2>5 DEF Types
<1>5. CASE AppStep
  <2>1. UNCHANGED <<reactorVars, animate, moves, animVars>>
    BY <1>5 DEF AppStep, TakeBatch, HandleRequest, FlushAll, HandleNotification, userVars
  <2>2. ReactorTypes' /\ AnimTypes' /\ sent' = sent
    BY <2>1, ReactorTypesKept, SameAnim DEF Types
  <2>3. CASE TakeBatch
    <3>1. /\ draining' = TRUE /\ batch' = requests /\ requests' = << >>
          /\ UNCHANGED <<events, notifs, real, elems, seen, pending,
                         lastFrame, animating, restore, enhanced, suspended>>
      BY <2>3 DEF TakeBatch
    <3>2. AppTypes'
      BY <2>2, <3>1, SameInTime DEF Types, AppTypes
    <3>3. requests' \in Seq(Request)
      BY <3>1, SeqOps DEF Types, Queues
    <3>4. Queues'
      BY <2>2, <3>1, <3>3, SameInTime DEF Types, Queues
    <3>. QED  BY <2>2, <3>2, <3>4 DEF Types
  <2>4. CASE HandleRequest
    BY <2>2, <2>4, RequestTypesKept DEF Types
  <2>5. CASE FlushAll
    BY <2>1, <2>2, <2>5, FlushTypes DEF Types
  <2>6. CASE HandleNotification
    BY <2>2, <2>6, NotificationTypes DEF Types
  <2>. QED  BY <1>5, <2>3, <2>4, <2>5, <2>6 DEF AppStep
<1>6. ASSUME NEW w \in Window, UserCloses(w) \/ \E l \in Layouts : UserMoves(w, l) PROVE Types'
  BY <1>6, UserTypes
<1>7. CASE UNCHANGED vars
  <2>1. /\ UNCHANGED <<reactorVars, animVars, appVars, animate, moves>>
        /\ UNCHANGED <<events, requests, notifs, real>>
    BY <1>7 DEF vars, userVars
  <2>2. ReactorTypes' /\ AnimTypes' /\ AppTypes' /\ sent' = sent
    BY <2>1, ReactorTypesKept, SameAnim, SameApp DEF Types
  <2>3. Queues'
    BY <2>1, <2>2, SameInTime DEF Types, Queues, appVars
  <2>. QED  BY <2>2, <2>3 DEF Types
<1>. QED  BY <1>1, <1>2, <1>3, <1>4, <1>5, <1>6, <1>7 DEF Next

(* The types of the state and of everything on its way, transaction ids    *)
(* included: no id, wherever it is, is ahead of the last one sent for its  *)
(* window, so a read that carries the last id came after every write.      *)
THEOREM TypesInvariant == Spec => []Types
<1>1. Init => Types
  BY InitTypes
<1>2. Types /\ [Next]_vars => Types'
  BY TypesKept
<1>. QED  BY <1>1, <1>2, PTL DEF Spec

-----------------------------------------------------------------------------
(* The reactor knows the windows it is told of: it has those the app has   *)
(* registered and those of the events on their way, and what is destroyed  *)
(* is not heard of again.                                                  *)
Known ==
  /\ elems \subseteq windows
  /\ \A i \in 1..Len(events) : events[i].w \in windows
  /\ \A i \in 1..Len(events) : events[i].destroyed => events[i].w \notin elems
  /\ \A i, j \in 1..Len(events) : i < j /\ events[i].destroyed => events[j].w # events[i].w

(* An event of a registered window is one more known window. *)
LEMMA KnownGrows ==
  ASSUME Known, events \in Seq(EventMessage), NEW e \in EventMessage, e.w \in elems,
         events' = Append(events, e), windows' = windows,
         elems' = IF e.destroyed THEN elems \ {e.w} ELSE elems
  PROVE  Known'
<1>1. /\ Len(events') = Len(events) + 1 /\ Len(events) \in Nat
      /\ \A i \in 1..Len(events) : events'[i] = events[i]
      /\ events'[Len(events) + 1] = e
  OBVIOUS
<1>2. \A i \in 1..Len(events') : i \in 1..Len(events) \/ i = Len(events) + 1
  BY <1>1
<1>3. elems' \subseteq elems /\ (e.destroyed => e.w \notin elems')
  OBVIOUS
<1>4. \A i \in 1..Len(events') : events'[i].w \in windows'
  BY <1>1, <1>2 DEF Known
<1>5. \A i \in 1..Len(events') : events'[i].destroyed => events'[i].w \notin elems'
  BY <1>1, <1>2, <1>3 DEF Known
<1>6. ASSUME NEW i \in 1..Len(events'), NEW j \in 1..Len(events'), i < j, events'[i].destroyed
      PROVE  events'[j].w # events'[i].w
  <2>1. i \in 1..Len(events)
    BY <1>1, <1>6
  <2>2. CASE j \in 1..Len(events)
    BY <1>1, <1>6, <2>1, <2>2 DEF Known
  <2>3. CASE j = Len(events) + 1
    BY <1>1, <1>6, <2>1, <2>3 DEF Known
  <2>. QED  BY <1>2, <2>2, <2>3
<1>. QED  BY <1>3, <1>4, <1>5, <1>6 DEF Known

LEMMA KnownShrinks ==
  ASSUME Known, events \in Seq(EventMessage), events # << >>, events' = Tail(events),
         elems' = elems,
         windows' = windows \/ (Head(events).destroyed /\ windows' = windows \ {Head(events).w})
  PROVE  Known'
<1>. PICK n \in Nat : n = Len(events)
  OBVIOUS
<1>1. /\ n >= 1 /\ Len(events') = n - 1 /\ Head(events) = events[1] /\ 1 \in 1..n
      /\ \A i \in 1..n - 1 : events'[i] = events[i + 1] /\ i + 1 \in 1..n /\ 1 < i + 1
  OBVIOUS
<1>2. \A i \in 1..n - 1 : events[1].destroyed => events'[i].w # events[1].w
  BY <1>1 DEF Known
<1>3. \A i \in 1..n - 1 : events'[i].w \in windows
  BY <1>1 DEF Known
<1>4. \A i \in 1..n - 1 : events'[i].w \in windows'
  BY <1>1, <1>2, <1>3
<1>5. elems' \subseteq windows'
  BY <1>1 DEF Known
<1>6. \A i \in 1..n - 1 : events'[i].destroyed => events'[i].w \notin elems'
  BY <1>1 DEF Known
<1>7. ASSUME NEW i \in 1..n - 1, NEW j \in 1..n - 1, i < j, events'[i].destroyed
      PROVE  events'[j].w # events'[i].w
  <2>1. i + 1 < j + 1
    BY <1>7
  <2>. QED  BY <1>1, <1>7, <2>1 DEF Known
<1>. QED  BY <1>1, <1>4, <1>5, <1>6, <1>7 DEF Known

LEMMA KnownKept ==
  ASSUME Types, Known, [Next]_vars
  PROVE  Known'
<1>1. events \in Seq(EventMessage)
  BY DEF Types, Queues
<1>2. CASE UNCHANGED <<events, elems, windows>>
  BY <1>2 DEF Known
<1>3. ASSUME NEW l \in Layouts, NEW ws \in SUBSET Window, NEW skip \in BOOLEAN,
             Command(l, ws, skip)
      PROVE  Known'
  BY <1>2, <1>3 DEF Command, appVars
<1>4. CASE HandleEvent
  <2>1. events # << >> /\ events' = Tail(events) /\ elems' = elems
    BY <1>4 DEF HandleEvent, appVars
  <2>2. windows' = windows \/ (Head(events).destroyed /\ windows' = windows \ {Head(events).w})
    BY <1>4 DEF HandleEvent, HandleWindowDestroyed, HandleFrameChanged
  <2>. QED  BY <1>1, <2>1, <2>2, KnownShrinks
<1>5. CASE HandleMessage \/ Tick
  BY <1>2, <1>5 DEF HandleMessage, Tick, reactorVars, appVars
<1>6. CASE TakeBatch \/ FlushAll
  BY <1>2, <1>6 DEF TakeBatch, FlushAll, reactorVars
<1>7. CASE HandleRequest
  <2>. PICK r : r = Head(batch)
    OBVIOUS
  <2>1. windows' = windows /\ r \in Request
    BY <1>7, SeqOps DEF HandleRequest, reactorVars, Types, Queues
  <2>2. CASE HandleAnimationFrame(r) \/ HandleBegin(r)
    BY <1>2, <2>1, <2>2 DEF HandleAnimationFrame, HandleBegin
  <2>3. CASE r.kind = "set" /\ HandleSetWindowFrame(r)
    <3>1. elems' = elems
      BY <2>3 DEF HandleSetWindowFrame
    <3>2. CASE events' = events
      BY <1>2, <2>1, <3>1, <3>2
    <3>3. CASE events' # events
      <4>1. r.w \in elems /\ events' = Append(events, FrameRead(r.w, r.frame, r.txid, TRUE))
        BY <2>3, <3>3 DEF HandleSetWindowFrame
      <4>2. r.w \in Window /\ r.frame \in Frame /\ InTime(r.w, r.txid)
        BY <2>1, <2>3, RequestParts
      <4>. PICK e : e = FrameRead(r.w, r.frame, r.txid, TRUE)
        OBVIOUS
      <4>3. e \in EventMessage
        BY <4>2, ReadType
      <4>4. e.w = r.w /\ e.destroyed = FALSE
        BY DEF FrameRead
      <4>. QED  BY <1>1, <2>1, <3>1, <4>1, <4>3, <4>4, KnownGrows
    <3>. QED  BY <3>2, <3>3
  <2>4. CASE r.kind = "end" /\ HandleEnd(r)
    <3>1. elems' = elems /\ sent' = sent
      BY <1>7, <2>4 DEF HandleEnd, HandleRequest, reactorVars
    <3>2. CASE events' = events
      BY <1>2, <2>1, <3>1, <3>2
    <3>3. CASE events' # events
      <4>1. PICK e \in EventMessage :
              r.w \in elems /\ e.w = r.w /\ e.destroyed = FALSE /\ events' = Append(events, e)
        BY <2>1, <2>4, <3>1, <3>3, EndTypes DEF Types
      <4>. QED  BY <1>1, <2>1, <3>1, <4>1, KnownGrows
    <3>. QED  BY <3>2, <3>3
  <2>. QED  BY <1>7, <2>2, <2>3, <2>4 DEF HandleRequest
<1>8. CASE HandleNotification
  <2>. PICK n : n = Head(notifs)
    OBVIOUS
  <2>1. windows' = windows /\ n.w \in Window
    <3>1. windows' = windows /\ notifs # << >> /\ notifs \in Seq(Notification)
      BY <1>8 DEF HandleNotification, reactorVars, Types, Queues
    <3>2. n \in Notification
      BY <3>1, SeqOps
    <3>. QED  BY <3>1, <3>2 DEF Notification
  <2>2. CASE n.destroyed /\ n.w \in elems
    <3>1. elems' = elems \ {n.w} /\ events' = Append(events, Destroyed(n.w))
      BY <1>8, <2>2 DEF HandleNotification
    <3>. PICK e : e = Destroyed(n.w)
      OBVIOUS
    <3>2. e \in EventMessage /\ e.w = n.w /\ e.destroyed = TRUE
      BY <2>1 DEF Destroyed, EventMessage
    <3>. QED  BY <1>1, <2>1, <2>2, <3>1, <3>2, KnownGrows
  <2>3. CASE n.destroyed /\ n.w \notin elems
    <3>1. elems' = elems /\ events' = events
      BY <1>8, <2>3 DEF HandleNotification
    <3>. QED  BY <1>2, <2>1, <3>1
  <2>4. CASE ~n.destroyed /\ n.w \in elems /\ Exists(n.w)
    <3>1. elems' = elems /\ events' = Append(events, FrameRead(n.w, real[n.w], seen[n.w], FALSE))
      BY <1>8, <2>4 DEF HandleNotification
    <3>. PICK e : e = FrameRead(n.w, real[n.w], seen[n.w], FALSE)
      OBVIOUS
    <3>2. e \in EventMessage
      BY <2>1, <2>4, ReadType DEF Types, AppTypes, Exists
    <3>3. e.w = n.w /\ e.destroyed = FALSE
      BY DEF FrameRead
    <3>. QED  BY <1>1, <2>1, <2>4, <3>1, <3>2, <3>3, KnownGrows
  <2>5. CASE ~n.destroyed /\ ~(n.w \in elems /\ Exists(n.w))
    <3>1. elems' = elems /\ events' = events
      BY <1>8, <2>5 DEF HandleNotification
    <3>. QED  BY <1>2, <2>1, <3>1
  <2>. QED  BY <2>2, <2>3, <2>4, <2>5
<1>9. ASSUME NEW w \in Window, UserCloses(w) \/ \E l \in Layouts : UserMoves(w, l) PROVE Known'
  BY <1>2, <1>9 DEF UserCloses, UserMoves, reactorVars, appVars
<1>10. CASE UNCHANGED vars
  BY <1>2, <1>10 DEF vars, reactorVars, appVars
<1>. QED  BY <1>3, <1>4, <1>5, <1>6, <1>7, <1>8, <1>9, <1>10 DEF Next, AppStep

(* The reactor has every window whose frame it is told of, for any number  *)
(* of windows, closed at any time: the handler's unwrap is safe.           *)
THEOREM NoUnknownFrameHolds == Spec => []NoUnknownFrame
<1>1. Init => Known
  BY DEF Init, Known
<1>2. Types /\ Known /\ [Next]_vars => Known'
  BY KnownKept
<1>3. Types /\ Known => NoUnknownFrame
  <2>. SUFFICES ASSUME Types, Known, events # << >> PROVE Head(events).w \in windows
    BY DEF NoUnknownFrame
  <2>1. events \in Seq(EventMessage)
    BY DEF Types, Queues
  <2>2. 1 \in 1..Len(events) /\ Head(events) = events[1]
    BY <2>1
  <2>. QED  BY <2>2 DEF Known
<1>. QED  BY <1>1, <1>2, <1>3, TypesInvariant, PTL DEF Spec

-----------------------------------------------------------------------------
(* While nobody moves or closes a window and nothing is animated, every    *)
(* write or read with the last id of its window has the frame the reactor  *)
(* has, so that it never looks like a move of the user's.                  *)
CalmMessage ==
  {m \in Message : /\ m.skip
                   /\ \A w \in DOMAIN m.wins :
                        m.wins[w].txid = sent[w] => m.wins[w].finish = frame[w]}

CalmRequest ==
  {r \in Request : r.kind = "set" /\ (r.txid = sent[r.w] => r.frame = frame[r.w])}

CalmEvent ==
  {e \in EventMessage : ~e.destroyed /\ ~e.requested /\ e.txid = sent[e.w] => e.frame = frame[e.w]}

Calm ==
  /\ goal = asked
  /\ animQ \in Seq(CalmMessage) /\ active = NoAnimation
  /\ requests \in Seq(CalmRequest) /\ batch \in Seq(CalmRequest)
  /\ pending = << >>
  /\ events \in Seq(CalmEvent)
  /\ \A w \in DOMAIN real : seen[w] = sent[w] => real[w] = frame[w]

CalmInv == ~animate /\ moves = 0 => Calm

LEMMA InitCalm == Init => CalmInv
BY DEF Init, CalmInv, Calm

(* A write makes every earlier id an old one. *)
LEMMA MovesCalm ==
  ASSUME Types, Calm, ~animate, NEW gl \in [Window -> Layouts], NEW skip \in BOOLEAN,
         NEW moved, Moves(moved, frame, gl, skip)
  PROVE  /\ animQ' \in Seq(CalmMessage')
         /\ Seq(CalmRequest) \subseteq Seq(CalmRequest')
         /\ Seq(CalmEvent) \subseteq Seq(CalmEvent')
         /\ \A w \in Window : seen[w] = sent'[w] => seen[w] = sent[w] /\ frame'[w] = frame[w]
<1>1. /\ \A w \in Window : sent'[w] \in Nat /\ sent[w] \in Nat /\ sent[w] <= sent'[w]
      /\ animQ' \in Seq(Message')
  BY MovesTypes DEF Types, ReactorTypes, AnimTypes
<1>2. ASSUME NEW w \in Window, NEW id, InTime(w, id), id = sent'[w]
      PROVE  id = sent[w] /\ frame'[w] = frame[w]
  <2>1. CASE w \in moved
    <3>1. sent'[w] = sent[w] + 1
      BY <2>1 DEF Moves
    <3>. QED  BY <1>1, <1>2, <3>1 DEF InTime
  <2>2. CASE w \notin moved
    BY <1>2, <2>2 DEF Moves
  <2>. QED  BY <2>1, <2>2
<1>3. /\ Message \subseteq Message' /\ Request \subseteq Request' /\ EventMessage \subseteq EventMessage'
  BY <1>1, StaysInTime
<1>4. CalmRequest \subseteq CalmRequest'
  <2>. SUFFICES ASSUME NEW r \in CalmRequest PROVE r \in CalmRequest'
    OBVIOUS
  <2>1. r \in Request' /\ r \in Request /\ r.kind = "set" /\ (r.txid = sent[r.w] => r.frame = frame[r.w])
    BY <1>3 DEF CalmRequest
  <2>2. r.w \in Window /\ InTime(r.w, r.txid)
    BY <2>1, RequestParts
  <2>3. r.txid = sent'[r.w] => r.frame = frame'[r.w]
    BY <1>2, <2>1, <2>2
  <2>. QED  BY <2>1, <2>3 DEF CalmRequest
<1>5. CalmEvent \subseteq CalmEvent'
  <2>. SUFFICES ASSUME NEW e \in CalmEvent PROVE e \in CalmEvent'
    OBVIOUS
  <2>1. /\ e \in EventMessage' /\ e \in EventMessage
        /\ ~e.destroyed /\ ~e.requested /\ e.txid = sent[e.w] => e.frame = frame[e.w]
    BY <1>3 DEF CalmEvent
  <2>2. e.w \in Window /\ (~e.destroyed => InTime(e.w, e.txid))
    BY <2>1 DEF EventMessage
  <2>3. ~e.destroyed /\ ~e.requested /\ e.txid = sent'[e.w] => e.frame = frame'[e.w]
    BY <1>2, <2>1, <2>2
  <2>. QED  BY <2>1, <2>3 DEF CalmEvent
<1>6. CalmMessage \subseteq CalmMessage'
  <2>. SUFFICES ASSUME NEW m \in CalmMessage PROVE m \in CalmMessage'
    OBVIOUS
  <2>1. /\ m \in Message' /\ m \in Message /\ m.skip
        /\ \A w \in DOMAIN m.wins : m.wins[w].txid = sent[w] => m.wins[w].finish = frame[w]
    BY <1>3 DEF CalmMessage
  <2>2. \A w \in DOMAIN m.wins : w \in Window /\ InTime(w, m.wins[w].txid)
    BY <2>1 DEF Message, IsWrites
  <2>3. \A w \in DOMAIN m.wins : m.wins[w].txid = sent'[w] => m.wins[w].finish = frame'[w]
    BY <1>2, <2>1, <2>2
  <2>. QED  BY <2>1, <2>3 DEF CalmMessage
<1>7. animQ' \in Seq(CalmMessage')
  <2>1. animQ \in Seq(CalmMessage')
    BY <1>6, SeqMonotone DEF Calm
  <2>2. ASSUME moved = {} PROVE animQ' = animQ
    BY <2>2 DEF Moves
  <2>3. ASSUME moved # {} PROVE animQ' \in Seq(CalmMessage')
    <3>. PICK wins : wins = [w \in moved |-> [finish |-> Target(gl[w]), txid |-> sent[w] + 1]]
      OBVIOUS
    <3>. PICK m : m = [skip |-> skip \/ ~animate, wins |-> wins]
      OBVIOUS
    <3>1. animQ' = Append(animQ, m)
      BY <2>3 DEF Moves
    <3>2. m \in Message'
      BY <1>1, <3>1, LastType DEF Types, AnimTypes
    <3>3. m.skip /\ m.wins = wins
      OBVIOUS
    <3>4. \A w \in DOMAIN wins : wins[w].finish = frame'[w]
      BY DEF Moves
    <3>5. m \in CalmMessage'
      BY <3>2, <3>3, <3>4 DEF CalmMessage
    <3>6. Append(animQ, m) \in Seq(CalmMessage')
      BY <2>1, <3>5, SeqOps
    <3>. QED  BY <3>1, <3>6
  <2>. QED  BY <2>1, <2>2, <2>3
<1>8. \A w \in Window : seen[w] = sent'[w] => seen[w] = sent[w] /\ frame'[w] = frame[w]
  BY <1>2 DEF Types, AppTypes
<1>9. Seq(CalmRequest) \subseteq Seq(CalmRequest') /\ Seq(CalmEvent) \subseteq Seq(CalmEvent')
  BY <1>4, <1>5, SeqMonotone
<1>. QED  BY <1>7, <1>8, <1>9

LEMMA SameCalm ==
  ASSUME sent' = sent, frame' = frame
  PROVE  /\ Seq(CalmMessage) \subseteq Seq(CalmMessage')
         /\ Seq(CalmRequest) \subseteq Seq(CalmRequest')
         /\ Seq(CalmEvent) \subseteq Seq(CalmEvent')
<1>1. Message \subseteq Message' /\ Request \subseteq Request' /\ EventMessage \subseteq EventMessage'
  BY DEF Message, IsWrites, Request, EventMessage, InTime
<1>2. CalmMessage \subseteq CalmMessage'
  BY <1>1 DEF CalmMessage
<1>3. CalmRequest \subseteq CalmRequest' /\ CalmEvent \subseteq CalmEvent'
  BY <1>1 DEF CalmRequest, CalmEvent
<1>. QED  BY <1>2, <1>3, SeqMonotone

(* A skipped message becomes plain writes. *)
LEMMA CalmSkip ==
  ASSUME Types, Calm, HandleMessage
  PROVE  requests' \in Seq(CalmRequest) /\ active' = NoAnimation
<1>. PICK m : m = Head(animQ)
  OBVIOUS
<1>1. m \in CalmMessage
  BY SeqOps DEF Calm, HandleMessage
<1>. PICK wins, ws : wins = m.wins /\ ws = DOMAIN wins
  OBVIOUS
<1>2. m \in Message /\ m.skip /\ \A w \in ws : wins[w].txid = sent[w] => wins[w].finish = frame[w]
  BY <1>1 DEF CalmMessage
<1>3. ws \subseteq Window /\ IsWrites(wins)
  BY <1>2 DEF Message, IsWrites
<1>4. SkipToEnd(wins)
  BY <1>2 DEF HandleMessage
<1>. PICK f : f = [w \in ws |-> <<SetFrame(w, wins[w])>>]
  OBVIOUS
<1>5. ASSUME NEW w \in ws PROVE <<SetFrame(w, wins[w])>> \in Seq(CalmRequest)
  <2>1. SetFrame(w, wins[w]) \in Request
    BY <1>3, FramesFacts, RequestTypes DEF IsWrites
  <2>2. SetFrame(w, wins[w]) \in CalmRequest
    BY <1>2, <2>1 DEF CalmRequest, SetFrame
  <2>. QED  BY <2>2, OneAndTwo
<1>6. f \in [ws -> Seq(CalmRequest)]
  BY <1>5
<1>7. ForEach(f) \in Seq(CalmRequest)
  BY <1>3, <1>6, ForEachOne
<1>8. FinishAll(active.wins) \in Seq(CalmRequest)
  <2>1. active.wins = << >>
    BY DEF Calm, NoAnimation
  <2>. PICK g : g = [w \in DOMAIN active.wins |->
                       <<AnimationFrame(w, active.wins[w], Frames), End(w)>>]
    OBVIOUS
  <2>2. g \in [{} -> Seq(CalmRequest)] /\ {} \subseteq Window
    BY <2>1
  <2>3. ForEach(g) \in Seq(CalmRequest)
    BY <2>2, ForEachOne
  <2>. QED  BY <2>3 DEF FinishAll
<1>9. requests' = requests \o (FinishAll(active.wins) \o ForEach(f)) /\ active' = NoAnimation
  BY <1>4 DEF SkipToEnd, Send
<1>10. requests' \in Seq(CalmRequest)
  BY <1>7, <1>8, <1>9, SeqOps DEF Calm
<1>. QED  BY <1>9, <1>10

LEMMA CalmReactor ==
  ASSUME Types, Calm, ~animate, NEW gl \in [Window -> Layouts], NEW skip \in BOOLEAN,
         \E moved : Moves(moved, frame, gl, skip), goal' = asked',
         events' = events \/ (events # << >> /\ events' = Tail(events)),
         UNCHANGED <<active, requests, appVars, real>>
  PROVE  Calm'
<1>1. /\ animQ' \in Seq(CalmMessage')
      /\ Seq(CalmRequest) \subseteq Seq(CalmRequest')
      /\ Seq(CalmEvent) \subseteq Seq(CalmEvent')
      /\ \A w \in Window : seen[w] = sent'[w] => seen[w] = sent[w] /\ frame'[w] = frame[w]
  BY MovesCalm
<1>2. events' \in Seq(CalmEvent)
  BY SeqOps DEF Calm
<1>3. DOMAIN real \subseteq Window
  BY DEF Types, AppTypes
<1>4. /\ requests' = requests /\ batch' = batch /\ pending' = pending /\ active' = active
      /\ seen' = seen /\ real' = real
  BY DEF appVars
<1>5. \A w \in DOMAIN real' : seen'[w] = sent'[w] => real'[w] = frame'[w]
  BY <1>1, <1>3, <1>4 DEF Calm
<1>6. requests' \in Seq(CalmRequest') /\ batch' \in Seq(CalmRequest') /\ events' \in Seq(CalmEvent')
  BY <1>1, <1>2, <1>4 DEF Calm
<1>7. active' = NoAnimation /\ pending' = << >>
  BY <1>4 DEF Calm
<1>. QED  BY <1>1, <1>5, <1>6, <1>7 DEF Calm, NoAnimation

LEMMA CalmKept ==
  ASSUME Types, CalmInv, [Next]_vars
  PROVE  CalmInv'
<1>. SUFFICES ASSUME ~animate', moves' = 0
              PROVE  Calm'
  BY DEF CalmInv
<1>1. ~animate /\ moves = 0 /\ ~ \E w \in Window : UserCloses(w) \/ \E l \in Layouts : UserMoves(w, l)
  <2>1. \A m \in Nat : m + 1 # 0
    OBVIOUS
  <2>2. moves \in Nat
    BY DEF Types, ReactorTypes
  <2>3. ~ \E w \in Window : UserCloses(w) \/ \E l \in Layouts : UserMoves(w, l)
    BY <2>1, <2>2 DEF UserCloses, UserMoves
  <2>4. UNCHANGED <<animate, moves>>
    BY <2>3 DEF Next, Command, HandleEvent, HandleMessage, Tick, AppStep, TakeBatch, HandleRequest,
                FlushAll, HandleNotification, userVars, vars
  <2>. QED  BY <2>3, <2>4
<1>2. Calm
  BY <1>1 DEF CalmInv
<1>3. ASSUME NEW l \in Layouts, NEW ws \in SUBSET Window, NEW skip \in BOOLEAN,
             Command(l, ws, skip)
      PROVE  Calm'
  <2>. PICK gl : gl = goal'
    OBVIOUS
  <2>1. (\E moved : Moves(moved, frame, gl, skip)) /\ gl \in [Window -> Layouts] /\ goal' = asked'
    BY <1>3, CommandMoves
  <2>2. events' = events /\ UNCHANGED <<active, requests, appVars, real>>
    BY <1>3 DEF Command
  <2>. QED  BY <1>1, <1>2, <2>1, <2>2, CalmReactor
<1>4. CASE HandleEvent
  <2>. PICK e, gl : e = Head(events) /\ gl = goal'
    OBVIOUS
  <2>1. /\ events # << >> /\ events' = Tail(events)
        /\ UNCHANGED <<asked, active, requests, appVars, real>>
    BY <1>4 DEF HandleEvent
  <2>2. e \in CalmEvent /\ events' \in Seq(CalmEvent)
    BY <1>2, <2>1, SeqOps DEF Calm
  <2>3. CASE ~e.destroyed /\ UNCHANGED <<frame, sent, goal, attempts, written, animQ>>
    <3>1. /\ Seq(CalmMessage) \subseteq Seq(CalmMessage')
          /\ Seq(CalmRequest) \subseteq Seq(CalmRequest')
          /\ Seq(CalmEvent) \subseteq Seq(CalmEvent')
      BY <2>3, SameCalm
    <3>. QED  BY <1>2, <2>1, <2>2, <2>3, <3>1 DEF Calm, appVars, NoAnimation
  <2>4. CASE e.txid = sent[e.w] /\ ~e.requested /\ ~e.destroyed /\ e.frame # frame[e.w]
    BY <2>2, <2>4 DEF CalmEvent
  <2>5. CASE goal' = goal /\ \E moved : Moves(moved, frame, gl, FALSE)
    <3>1. gl \in [Window -> Layouts] /\ goal' = asked'
      BY <1>2, <2>1, <2>5 DEF Types, ReactorTypes, Calm
    <3>. QED  BY <1>1, <1>2, <2>1, <2>5, <3>1, CalmReactor
  <2>. QED  BY <1>4, <2>3, <2>4, <2>5, EventMoves
<1>5. CASE HandleMessage
  <2>1. UNCHANGED <<reactorVars, events, appVars, real>> /\ animQ # << >> /\ animQ' = Tail(animQ)
    BY <1>5 DEF HandleMessage
  <2>2. /\ Seq(CalmMessage) \subseteq Seq(CalmMessage')
        /\ Seq(CalmRequest) \subseteq Seq(CalmRequest')
        /\ Seq(CalmEvent) \subseteq Seq(CalmEvent')
    BY <2>1, SameCalm DEF reactorVars
  <2>3. requests' \in Seq(CalmRequest) /\ active' = NoAnimation
    BY <1>2, <1>5, CalmSkip
  <2>4. animQ' \in Seq(CalmMessage)
    BY <1>2, <2>1, SeqOps DEF Calm
  <2>. QED  BY <1>2, <2>1, <2>2, <2>3, <2>4 DEF Calm, appVars, reactorVars, NoAnimation
<1>6. CASE Tick
  BY <1>2, <1>6 DEF Tick, Calm, NoAnimation
<1>7. CASE AppStep
  <2>1. UNCHANGED <<reactorVars, animVars>>
    BY <1>7 DEF AppStep, TakeBatch, HandleRequest, FlushAll, HandleNotification
  <2>2. /\ Seq(CalmMessage) \subseteq Seq(CalmMessage')
        /\ Seq(CalmRequest) \subseteq Seq(CalmRequest')
        /\ Seq(CalmEvent) \subseteq Seq(CalmEvent')
    BY <2>1, SameCalm DEF reactorVars
  <2>3. goal' = asked' /\ animQ' \in Seq(CalmMessage') /\ active' = NoAnimation
    BY <1>2, <2>1, <2>2 DEF Calm, reactorVars, animVars
  <2>4. UNCHANGED <<sent, frame>>
    BY <2>1 DEF reactorVars
  <2>5. CASE TakeBatch
    <3>1. batch' = requests /\ requests' = << >> /\ UNCHANGED <<events, real, seen, pending>>
      BY <2>5 DEF TakeBatch
    <3>2. << >> \in Seq(CalmRequest')
      OBVIOUS
    <3>. QED  BY <1>2, <2>2, <2>3, <2>4, <3>1, <3>2 DEF Calm, NoAnimation
  <2>6. CASE HandleRequest
    <3>. PICK r : r = Head(batch)
      OBVIOUS
    <3>1. r \in CalmRequest /\ batch' \in Seq(CalmRequest) /\ requests' = requests
      BY <1>2, <2>6, SeqOps DEF Calm, HandleRequest
    <3>2. r \in Request /\ r.kind = "set" /\ (r.txid = sent[r.w] => r.frame = frame[r.w])
      BY <3>1 DEF CalmRequest
    <3>3. HandleSetWindowFrame(r) /\ pending' = pending
      BY <2>6, <3>2 DEF HandleRequest, HandleSetWindowFrame
    <3>4. r.w \in Window /\ r.frame \in Frame /\ InTime(r.w, r.txid)
      BY <3>2, RequestParts
    <3>5. \A w \in DOMAIN real' : seen'[w] = sent'[w] => real'[w] = frame'[w]
      <4>1. CASE r.w \notin elems
        BY <1>2, <2>4, <3>3, <4>1 DEF HandleSetWindowFrame, Calm
      <4>2. CASE r.w \in elems /\ ~Exists(r.w)
        <5>1. seen' = [seen EXCEPT ![r.w] = r.txid] /\ real' = real /\ r.w \notin DOMAIN real
          BY <3>3, <4>2 DEF HandleSetWindowFrame, Exists
        <5>2. seen \in [Window -> Nat] /\ DOMAIN real \subseteq Window
          BY DEF Types, AppTypes
        <5>3. \A w \in DOMAIN real : seen'[w] = seen[w]
          BY <5>1, <5>2
        <5>. QED  BY <1>2, <2>4, <5>1, <5>3 DEF Calm
      <4>3. CASE r.w \in elems /\ Exists(r.w)
        <5>1. seen' = [seen EXCEPT ![r.w] = r.txid] /\ real' = [real EXCEPT ![r.w] = r.frame]
          BY <3>3, <4>3 DEF HandleSetWindowFrame
        <5>2. seen \in [Window -> Nat]
          BY DEF Types, AppTypes
        <5>. QED  BY <1>2, <2>4, <3>2, <3>4, <5>1, <5>2 DEF Calm
      <4>. QED  BY <4>1, <4>2, <4>3
    <3>6. events' \in Seq(CalmEvent)
      <4>1. CASE events' = events
        BY <1>2, <4>1 DEF Calm
      <4>2. CASE events' = Append(events, FrameRead(r.w, r.frame, r.txid, TRUE))
        <5>1. FrameRead(r.w, r.frame, r.txid, TRUE) \in EventMessage
          BY <3>4, ReadType
        <5>2. FrameRead(r.w, r.frame, r.txid, TRUE) \in CalmEvent
          BY <5>1 DEF CalmEvent, FrameRead
        <5>. QED  BY <1>2, <4>2, <5>2, SeqOps DEF Calm
      <4>. QED  BY <3>3, <4>1, <4>2 DEF HandleSetWindowFrame
    <3>. QED  BY <1>2, <2>2, <2>3, <3>1, <3>3, <3>5, <3>6 DEF Calm, NoAnimation
  <2>7. CASE FlushAll
    <3>1. pending = << >> /\ DOMAIN pending = {}
      BY <1>2 DEF Calm
    <3>2. real' = [w \in DOMAIN real |-> real[w]]
      BY <2>7, <3>1 DEF FlushAll, Flushed
    <3>3. seen' = [w \in Window |-> seen[w]] /\ DOMAIN real \subseteq Window
      BY <2>7, <3>1 DEF FlushAll, FlushedSeen, Types, AppTypes
    <3>4. \A w \in DOMAIN real' : seen'[w] = sent'[w] => real'[w] = frame'[w]
      BY <1>2, <2>4, <3>2, <3>3 DEF Calm
    <3>5. pending' = << >> /\ UNCHANGED <<events, requests, batch>>
      BY <2>7 DEF FlushAll
    <3>. QED  BY <1>2, <2>2, <2>3, <3>4, <3>5 DEF Calm, NoAnimation
  <2>8. CASE HandleNotification
    <3>. PICK n : n = Head(notifs)
      OBVIOUS
    <3>1. n.w \in Window
      <4>1. notifs # << >> /\ notifs \in Seq(Notification)
        BY <2>8 DEF HandleNotification, Types, Queues
      <4>2. n \in Notification
        BY <4>1, SeqOps
      <4>. QED  BY <4>2 DEF Notification
    <3>2. UNCHANGED <<requests, real, batch, seen, pending>>
      BY <2>8 DEF HandleNotification
    <3>3. events' \in Seq(CalmEvent)
      <4>1. CASE events' = events
        BY <1>2, <4>1 DEF Calm
      <4>2. CASE events' = Append(events, Destroyed(n.w))
        <5>1. Destroyed(n.w) \in CalmEvent
          BY <3>1 DEF Destroyed, CalmEvent, EventMessage
        <5>. QED  BY <1>2, <4>2, <5>1, SeqOps DEF Calm
      <4>3. CASE Exists(n.w) /\ events' = Append(events, FrameRead(n.w, real[n.w], seen[n.w], FALSE))
        <5>1. FrameRead(n.w, real[n.w], seen[n.w], FALSE) \in EventMessage
          BY <3>1, <4>3, ReadType DEF Types, AppTypes, Exists
        <5>2. seen[n.w] = sent[n.w] => real[n.w] = frame[n.w]
          BY <1>2, <4>3 DEF Calm, Exists
        <5>3. FrameRead(n.w, real[n.w], seen[n.w], FALSE) \in CalmEvent
          BY <5>1, <5>2 DEF CalmEvent, FrameRead
        <5>. QED  BY <1>2, <4>3, <5>3, SeqOps DEF Calm
      <4>. QED  BY <2>8, <4>1, <4>2, <4>3 DEF HandleNotification
    <3>. QED  BY <1>2, <2>2, <2>3, <2>4, <3>2, <3>3 DEF Calm, NoAnimation
  <2>. QED  BY <1>7, <2>5, <2>6, <2>7, <2>8 DEF AppStep
<1>8. CASE UNCHANGED vars
  <2>1. UNCHANGED <<reactorVars, animVars, appVars, events, requests, real>>
    BY <1>8 DEF vars
  <2>2. /\ Seq(CalmMessage) \subseteq Seq(CalmMessage')
        /\ Seq(CalmRequest) \subseteq Seq(CalmRequest')
        /\ Seq(CalmEvent) \subseteq Seq(CalmEvent')
    BY <2>1, SameCalm DEF reactorVars
  <2>. QED  BY <1>2, <2>1, <2>2 DEF Calm, reactorVars, animVars, appVars, NoAnimation
<1>. QED  BY <1>1, <1>3, <1>4, <1>5, <1>6, <1>7, <1>8 DEF Next

(* Without animations the reactor never takes the effect of its own writes *)
(* for the user's: whatever reads and writes are on their way, however     *)
(* late, the layout of a window nobody moved is the one last asked for.    *)
THEOREM LayoutAsAskedHolds == Spec => []LayoutAsAsked
<1>1. Types /\ CalmInv /\ [Next]_vars => CalmInv'
  BY CalmKept
<1>2. CalmInv => LayoutAsAsked
  BY DEF CalmInv, Calm, LayoutAsAsked
<1>. QED  BY <1>1, <1>2, InitCalm, TypesInvariant, PTL DEF Spec

-----------------------------------------------------------------------------
(* What requests make of a window, in the end: whether it is animated,     *)
(* whether its size is as of its last frame, that frame and its id.        *)
Local == [open : BOOLEAN, sure : BOOLEAN, at : Frame, id : Nat]

Does(w, s, r, u) ==
  IF r.w # w THEN u = s
  ELSE \/ /\ r.kind = "begin" /\ ~s.open /\ u.open /\ ~u.sure
          /\ u.at = s.at /\ u.id = s.id
       \/ /\ r.kind = "frame" /\ s.open /\ u.open /\ u.sure = r.setSize
          /\ u.at = r.frame /\ u.id = r.txid /\ s.id <= r.txid
       \/ /\ r.kind = "end" /\ s.open /\ s.sure /\ ~u.open
          /\ u.at = s.at /\ u.id = s.id
       \/ /\ r.kind = "set" /\ ~s.open /\ ~u.open
          /\ u.at = r.frame /\ u.id = r.txid /\ s.id < r.txid

(* The requests q take the window w from a to b. *)
Leads(w, q, a, b) ==
  \E o \in [0..Len(q) -> Local] :
    /\ o[0] = a /\ o[Len(q)] = b
    /\ \A i \in 1..Len(q) : Does(w, o[i - 1], q[i], o[i])

LEMMA LeadsNone ==
  ASSUME NEW w, NEW a \in Local
  PROVE  Leads(w, << >>, a, a) /\ \A b : Leads(w, << >>, a, b) => b = a
<1>1. Len(<< >>) = 0
  OBVIOUS
<1>2. Leads(w, << >>, a, a)
  <2>. PICK o : o = [i \in 0..0 |-> a]
    OBVIOUS
  <2>1. o \in [0..0 -> Local] /\ o[0] = a
    OBVIOUS
  <2>2. \A i \in 1..0 : FALSE
    OBVIOUS
  <2>. QED  BY <1>1, <2>1, <2>2 DEF Leads
<1>3. \A b : Leads(w, << >>, a, b) => b = a
  BY <1>1 DEF Leads
<1>. QED  BY <1>2, <1>3

LEMMA LeadsOne ==
  ASSUME NEW w, NEW a \in Local, NEW b \in Local, NEW r, Does(w, a, r, b)
  PROVE  Leads(w, <<r>>, a, b)
<1>. PICK o : o = [i \in 0..1 |-> IF i = 0 THEN a ELSE b]
  OBVIOUS
<1>1. o \in [0..1 -> Local] /\ o[0] = a /\ o[1] = b /\ Len(<<r>>) = 1 /\ <<r>>[1] = r
  OBVIOUS
<1>2. \A i \in 1..1 : i = 1 /\ i - 1 = 0
  OBVIOUS
<1>. QED  BY <1>1, <1>2 DEF Leads

LEMMA LeadsJoin ==
  ASSUME NEW w, NEW S, NEW p \in Seq(S), NEW q \in Seq(S), NEW a, NEW b, NEW c,
         Leads(w, p, a, b), Leads(w, q, b, c)
  PROVE  Leads(w, p \o q, a, c)
<1>. PICK m, n : m = Len(p) /\ n = Len(q)
  OBVIOUS
<1>0. m \in Nat /\ n \in Nat /\ Len(p \o q) = m + n
  OBVIOUS
<1>1. PICK o \in [0..m -> Local] : /\ o[0] = a /\ o[m] = b
                                   /\ \A i \in 1..m : Does(w, o[i - 1], p[i], o[i])
  BY DEF Leads
<1>2. PICK h \in [0..n -> Local] : /\ h[0] = b /\ h[n] = c
                                   /\ \A i \in 1..n : Does(w, h[i - 1], q[i], h[i])
  BY DEF Leads
<1>. PICK g : g = [i \in 0..(m + n) |-> IF i <= m THEN o[i] ELSE h[i - m]]
  OBVIOUS
<1>3. g \in [0..(m + n) -> Local]
  <2>1. \A i \in 0..(m + n) : IF i <= m THEN i \in 0..m ELSE i - m \in 0..n
    BY <1>0
  <2>. QED  BY <2>1
<1>4. g[0] = a
  BY <1>0, <1>1
<1>5. g[m + n] = c
  <2>1. CASE n = 0
    BY <1>0, <1>1, <1>2, <2>1
  <2>2. CASE n # 0
    <3>1. ~(m + n <= m) /\ (m + n) - m = n /\ m + n \in 0..(m + n)
      BY <1>0, <2>2
    <3>. QED  BY <1>2, <3>1
  <2>. QED  BY <2>1, <2>2
<1>6. ASSUME NEW i \in 1..(m + n) PROVE Does(w, g[i - 1], (p \o q)[i], g[i])
  <2>1. CASE i <= m
    <3>1. i \in 1..m /\ i - 1 <= m /\ i - 1 \in 0..(m + n) /\ i \in 0..(m + n)
      BY <1>0, <2>1
    <3>2. (p \o q)[i] = p[i] /\ g[i - 1] = o[i - 1] /\ g[i] = o[i]
      BY <2>1, <3>1
    <3>. QED  BY <1>1, <3>1, <3>2
  <2>2. CASE i > m
    <3>1. i - m \in 1..n /\ i \in 0..(m + n) /\ i - 1 \in 0..(m + n) /\ ~(i <= m)
      BY <1>0, <2>2
    <3>2. (p \o q)[i] = q[i - m] /\ g[i] = h[i - m]
      BY <1>0, <3>1
    <3>3. g[i - 1] = h[(i - m) - 1]
      <4>1. CASE i - 1 = m
        <5>1. (i - m) - 1 = 0 /\ m <= m
          BY <1>0, <4>1
        <5>2. g[i - 1] = o[m]
          BY <3>1, <4>1, <5>1
        <5>. QED  BY <1>1, <1>2, <5>1, <5>2
      <4>2. CASE i - 1 # m
        <5>1. ~(i - 1 <= m) /\ (i - 1) - m = (i - m) - 1
          BY <1>0, <2>2, <4>2
        <5>. QED  BY <3>1, <5>1
      <4>. QED  BY <4>1, <4>2
    <3>. QED  BY <1>2, <3>1, <3>2, <3>3
  <2>. QED  BY <1>0, <2>1, <2>2
<1>. HIDE DEF Local
<1>. QED  BY <1>0, <1>3, <1>4, <1>5, <1>6 DEF Leads

LEMMA LeadsHead ==
  ASSUME NEW w, NEW S, NEW q \in Seq(S), q # << >>, NEW a, NEW b, Leads(w, q, a, b)
  PROVE  \E m \in Local : Does(w, a, Head(q), m) /\ Leads(w, Tail(q), m, b)
<1>. PICK n : n = Len(q)
  OBVIOUS
<1>0. n \in Nat /\ n # 0 /\ Len(Tail(q)) = n - 1 /\ Head(q) = q[1] /\ n - 1 \in Nat
  OBVIOUS
<1>1. PICK o \in [0..n -> Local] : /\ o[0] = a /\ o[n] = b
                                   /\ \A i \in 1..n : Does(w, o[i - 1], q[i], o[i])
  BY DEF Leads
<1>. PICK g : g = [i \in 0..(n - 1) |-> o[i + 1]]
  OBVIOUS
<1>2. \A i \in 0..(n - 1) : i + 1 \in 0..n
  BY <1>0
<1>3. g \in [0..(n - 1) -> Local]
  BY <1>2
<1>4. g[0] = o[1] /\ g[n - 1] = b /\ 1 \in 1..n
  BY <1>0, <1>1
<1>5. ASSUME NEW i \in 1..(n - 1) PROVE Does(w, g[i - 1], Tail(q)[i], g[i])
  <2>1. /\ i + 1 \in 1..n /\ (i + 1) - 1 = i /\ (i - 1) + 1 = i
        /\ i - 1 \in 0..(n - 1) /\ i \in 0..(n - 1)
    BY <1>0
  <2>2. Tail(q)[i] = q[i + 1] /\ g[i - 1] = o[i] /\ g[i] = o[i + 1]
    BY <1>0, <2>1
  <2>3. Does(w, o[(i + 1) - 1], q[i + 1], o[i + 1])
    BY <1>1, <2>1
  <2>. QED  BY <2>1, <2>2, <2>3
<1>6. Leads(w, Tail(q), o[1], b)
  BY <1>0, <1>3, <1>4, <1>5 DEF Leads
<1>7. Does(w, a, Head(q), o[1])
  <2>1. Does(w, o[1 - 1], q[1], o[1]) /\ 1 - 1 = 0
    BY <1>1, <1>4
  <2>. QED  BY <1>0, <1>1, <2>1
<1>8. o[1] \in Local
  BY <1>0
<1>. QED  BY <1>6, <1>7, <1>8

LEMMA LeadsPast ==
  ASSUME NEW w, NEW S, NEW q \in Seq(S), \A i \in 1..Len(q) : q[i].w # w, NEW a \in Local
  PROVE  Leads(w, q, a, a)
<1>. PICK o : o = [i \in 0..Len(q) |-> a]
  OBVIOUS
<1>0. Len(q) \in Nat
  OBVIOUS
<1>1. o \in [0..Len(q) -> Local] /\ o[0] = a /\ o[Len(q)] = a
  BY <1>0
<1>2. ASSUME NEW i \in 1..Len(q) PROVE Does(w, o[i - 1], q[i], o[i])
  <2>1. i - 1 \in 0..Len(q) /\ i \in 0..Len(q)
    BY <1>0
  <2>. QED  BY <2>1 DEF Does
<1>. QED  BY <1>1, <1>2 DEF Leads

(* Of the requests that are for one window after the other, those for w. *)
LEMMA LeadsEach ==
  ASSUME NEW w \in Window, NEW ws, ws \subseteq Window, NEW S, NEW f \in [ws -> Seq(S)],
         \A v \in ws : v # w => \A i \in 1..Len(f[v]) : f[v][i].w # w,
         NEW a \in Local, NEW b \in Local,
         w \in ws => Leads(w, f[w], a, b), w \notin ws => a = b
  PROVE  Leads(w, ForEach(f), a, b)
<1>. PICK n, q : n = Cardinality(ws) /\ q = SetToSeq(ws)
  OBVIOUS
<1>1. IsFiniteSet(ws)
  BY FramesFacts, FS_Subset
<1>2. /\ q \in [1..n -> ws] /\ n \in Nat
      /\ \A i, j \in 1..n : i # j => q[i] # q[j]
      /\ \A v \in ws : \E i \in 1..n : q[i] = v
  BY <1>1, SetToSeqLists
<1>. PICK ss : ss = [i \in DOMAIN q |-> f[q[i]]]
  OBVIOUS
<1>3. ss \in [1..n -> Seq(S)] /\ \A i \in 1..n : ss[i] = f[q[i]]
  BY <1>2
<1>4. ForEach(f) = FlattenSeq(ss)
  BY <1>2 DEF ForEach
<1>5. PICK h : Flattening(ss, n, S, h)
  BY <1>2, <1>3, FlattenParts
<1>6. /\ h \in [0..n -> Seq(S)] /\ h[0] = << >> /\ h[n] = FlattenSeq(ss)
      /\ \A i \in 1..n : h[i] = h[i - 1] \o ss[i]
  BY <1>5 DEF Flattening
<1>. DEFINE Come(i) == \E j \in 1..i : q[j] = w
            At(i) == IF Come(i) THEN b ELSE a
            P == {i \in Nat : i <= n => Leads(w, h[i], a, At(i))}
<1>7. 0 \in P
  <2>1. ~Come(0)
    OBVIOUS
  <2>2. Leads(w, << >>, a, a)
    BY LeadsNone
  <2>. QED  BY <1>6, <2>1, <2>2
<1>8. ASSUME NEW i \in P PROVE i + 1 \in P
  <2>. SUFFICES ASSUME i + 1 <= n PROVE Leads(w, h[i + 1], a, At(i + 1))
    OBVIOUS
  <2>1. i \in Nat /\ i <= n /\ i + 1 \in 1..n /\ (i + 1) - 1 = i /\ i \in 0..n
    BY <1>2
  <2>2. Leads(w, h[i], a, At(i)) /\ At(i) \in Local
    BY <2>1
  <2>3. h[i + 1] = h[i] \o ss[i + 1] /\ h[i] \in Seq(S) /\ ss[i + 1] \in Seq(S)
    BY <1>3, <1>6, <2>1
  <2>4. Leads(w, ss[i + 1], At(i), At(i + 1))
    <3>1. CASE q[i + 1] = w
      <4>1. ~Come(i)
        <5>1. \A j \in 1..i : j \in 1..n /\ j # i + 1
          <6>1. n \in Nat
            BY <1>2
          <6>. QED  BY <2>1, <6>1
        <5>. QED  BY <1>2, <2>1, <3>1, <5>1
      <4>2. Come(i + 1)
        <5>1. i + 1 \in 1..(i + 1)
          BY <2>1
        <5>. QED  BY <3>1, <5>1
      <4>3. w \in ws /\ ss[i + 1] = f[w]
        BY <1>2, <1>3, <2>1, <3>1
      <4>. QED  BY <4>1, <4>2, <4>3
    <3>2. CASE q[i + 1] # w
      <4>1. Come(i) <=> Come(i + 1)
        <5>1. /\ \A j \in 1..i : j \in 1..(i + 1)
              /\ \A j \in 1..(i + 1) : j # i + 1 => j \in 1..i
          <6>1. \A m \in Nat : /\ \A j \in 1..m : j \in 1..(m + 1)
                               /\ \A j \in 1..(m + 1) : j # m + 1 => j \in 1..m
            OBVIOUS
          <6>. QED  BY <2>1, <6>1
        <5>. QED  BY <3>2, <5>1
      <4>2. \A j \in 1..Len(ss[i + 1]) : ss[i + 1][j].w # w
        BY <1>2, <1>3, <2>1, <3>2
      <4>3. Leads(w, ss[i + 1], At(i), At(i))
        BY <2>2, <2>3, <4>2, LeadsPast
      <4>. QED  BY <4>1, <4>3
    <3>. QED  BY <3>1, <3>2
  <2>. HIDE DEF At
  <2>. QED  BY <2>2, <2>3, <2>4, LeadsJoin
<1>9. n \in P
  <2>1. P \in SUBSET Nat
    OBVIOUS
  <2>. HIDE DEF P
  <2>. QED  BY <1>2, <1>7, <1>8, <2>1, SetInduction
<1>10. Leads(w, h[n], a, At(n))
  BY <1>2, <1>9
<1>11. At(n) = b
  BY <1>2
<1>. QED  BY <1>4, <1>6, <1>10, <1>11

-----------------------------------------------------------------------------
(* What the animation manager makes of a window: h is what it has begun to *)
(* make of it, q what it is asked for later.  Ids are in order, and what   *)
(* has the last one sent, id, also has the frame written last.             *)
Ends(w, h, q, id, written_w) ==
  /\ \A i \in 1..Len(q) : w \in DOMAIN q[i].wins => h.txid < q[i].wins[w].txid
  /\ \A i, j \in 1..Len(q) :
       i < j /\ w \in DOMAIN q[i].wins /\ w \in DOMAIN q[j].wins =>
         q[i].wins[w].txid < q[j].wins[w].txid
  /\ \/ h.txid = id /\ h.finish = written_w
     \/ \E i \in 1..Len(q) : /\ w \in DOMAIN q[i].wins
                             /\ q[i].wins[w].txid = id /\ q[i].wins[w].finish = written_w

Held(w, s) ==
  IF w \in DOMAIN active.wins THEN active.wins[w] ELSE [finish |-> s.at, txid |-> s.id]

Managed(w, s) ==
  /\ s.open <=> w \in DOMAIN active.wins
  /\ w \in DOMAIN active.wins => s.id <= active.wins[w].txid
  /\ Ends(w, Held(w, s), animQ, sent[w], written[w])

LEMMA EndsPop ==
  ASSUME NEW w, NEW h, NEW S, NEW q \in Seq(S), q # << >>, NEW id \in Nat, NEW f,
         Ends(w, h, q, id, f),
         \A i \in 1..Len(q) :
           w \in DOMAIN q[i].wins => q[i].wins[w].txid \in Nat /\ q[i].wins[w].txid <= id
  PROVE  /\ w \in DOMAIN Head(q).wins =>
              Ends(w, Head(q).wins[w], Tail(q), id, f) /\ h.txid < Head(q).wins[w].txid
         /\ w \notin DOMAIN Head(q).wins => Ends(w, h, Tail(q), id, f)
<1>. PICK n : n = Len(q)
  OBVIOUS
<1>1. n \in Nat /\ n # 0 /\ Len(Tail(q)) = n - 1 /\ Head(q) = q[1] /\ 1 \in 1..n
  OBVIOUS
<1>2. /\ \A i \in 1..(n - 1) : Tail(q)[i] = q[i + 1] /\ i + 1 \in 1..n /\ 1 < i + 1
      /\ \A i, j \in 1..(n - 1) : i < j => i + 1 < j + 1
      /\ \A i \in 1..n : i # 1 => i - 1 \in 1..(n - 1) /\ (i - 1) + 1 = i
  BY <1>1
<1>3. /\ \A i \in 1..n : w \in DOMAIN q[i].wins => h.txid < q[i].wins[w].txid
      /\ \A i, j \in 1..n :
           i < j /\ w \in DOMAIN q[i].wins /\ w \in DOMAIN q[j].wins =>
             q[i].wins[w].txid < q[j].wins[w].txid
      /\ \/ h.txid = id /\ h.finish = f
         \/ \E i \in 1..n : /\ w \in DOMAIN q[i].wins
                            /\ q[i].wins[w].txid = id /\ q[i].wins[w].finish = f
  BY DEF Ends
<1>. PICK p : p = Tail(q)
  OBVIOUS
<1>4. \A i, j \in 1..(n - 1) :
        i < j /\ w \in DOMAIN p[i].wins /\ w \in DOMAIN p[j].wins =>
          p[i].wins[w].txid < p[j].wins[w].txid
  BY <1>2, <1>3
<1>5. ASSUME NEW i \in 1..n, i # 1, w \in DOMAIN q[i].wins,
             q[i].wins[w].txid = id, q[i].wins[w].finish = f
      PROVE  \E j \in 1..(n - 1) : /\ w \in DOMAIN p[j].wins
                                   /\ p[j].wins[w].txid = id /\ p[j].wins[w].finish = f
  <2>1. i - 1 \in 1..(n - 1) /\ p[i - 1] = q[i]
    BY <1>2, <1>5
  <2>. QED  BY <1>5, <2>1
<1>6. ASSUME w \in DOMAIN q[1].wins
      PROVE  Ends(w, q[1].wins[w], p, id, f) /\ h.txid < q[1].wins[w].txid
  <2>1. h.txid < q[1].wins[w].txid
    BY <1>1, <1>3, <1>6
  <2>2. \A i \in 1..(n - 1) : w \in DOMAIN p[i].wins => q[1].wins[w].txid < p[i].wins[w].txid
    BY <1>1, <1>2, <1>3, <1>6
  <2>3. \/ q[1].wins[w].txid = id /\ q[1].wins[w].finish = f
        \/ \E j \in 1..(n - 1) : /\ w \in DOMAIN p[j].wins
                                 /\ p[j].wins[w].txid = id /\ p[j].wins[w].finish = f
    <3>1. ~(h.txid = id)
      <4>1. q[1].wins[w].txid \in Nat /\ q[1].wins[w].txid <= id
        BY <1>1, <1>6
      <4>. QED  BY <2>1, <4>1
    <3>2. CASE \E i \in 1..n : /\ w \in DOMAIN q[i].wins
                               /\ q[i].wins[w].txid = id /\ q[i].wins[w].finish = f
      BY <1>5, <3>2
    <3>. QED  BY <1>3, <3>1, <3>2
  <2>. QED  BY <1>1, <1>4, <2>1, <2>2, <2>3 DEF Ends
<1>7. ASSUME w \notin DOMAIN q[1].wins
      PROVE  Ends(w, h, p, id, f)
  <2>1. \A i \in 1..(n - 1) : w \in DOMAIN p[i].wins => h.txid < p[i].wins[w].txid
    BY <1>2, <1>3
  <2>2. \/ h.txid = id /\ h.finish = f
        \/ \E j \in 1..(n - 1) : /\ w \in DOMAIN p[j].wins
                                 /\ p[j].wins[w].txid = id /\ p[j].wins[w].finish = f
    BY <1>3, <1>5, <1>7
  <2>. QED  BY <1>1, <1>4, <2>1, <2>2 DEF Ends
<1>. QED  BY <1>1, <1>6, <1>7

LEMMA EndsPush ==
  ASSUME NEW w, NEW h, NEW S, NEW q \in Seq(S), NEW id \in Nat, NEW f, Ends(w, h, q, id, f),
         h.txid \in Nat, h.txid <= id,
         \A i \in 1..Len(q) :
           w \in DOMAIN q[i].wins => q[i].wins[w].txid \in Nat /\ q[i].wins[w].txid <= id,
         NEW m \in S
  PROVE  /\ w \notin DOMAIN m.wins => Ends(w, h, Append(q, m), id, f)
         /\ w \in DOMAIN m.wins /\ m.wins[w].txid = id + 1 =>
              Ends(w, h, Append(q, m), id + 1, m.wins[w].finish)
<1>. PICK n, p : n = Len(q) /\ p = Append(q, m)
  OBVIOUS
<1>1. /\ n \in Nat /\ Len(p) = n + 1 /\ p[n + 1] = m
      /\ \A i \in 1..n : p[i] = q[i]
  OBVIOUS
<1>2. /\ \A i \in 1..n : i \in 1..(n + 1)
      /\ \A i \in 1..(n + 1) : i # n + 1 => i \in 1..n
      /\ \A i, j \in 1..(n + 1) : i < j => i \in 1..n
      /\ n + 1 \in 1..(n + 1)
  BY <1>1
<1>3. /\ \A i \in 1..n : w \in DOMAIN q[i].wins => h.txid < q[i].wins[w].txid
      /\ \A i, j \in 1..n :
           i < j /\ w \in DOMAIN q[i].wins /\ w \in DOMAIN q[j].wins =>
             q[i].wins[w].txid < q[j].wins[w].txid
      /\ \/ h.txid = id /\ h.finish = f
         \/ \E i \in 1..n : /\ w \in DOMAIN q[i].wins
                            /\ q[i].wins[w].txid = id /\ q[i].wins[w].finish = f
  BY DEF Ends
<1>4. ASSUME w \notin DOMAIN m.wins PROVE Ends(w, h, p, id, f)
  <2>1. \A i \in 1..(n + 1) : w \in DOMAIN p[i].wins => i \in 1..n /\ p[i] = q[i]
    BY <1>1, <1>2, <1>4
  <2>2. \A i \in 1..(n + 1) : w \in DOMAIN p[i].wins => h.txid < p[i].wins[w].txid
    BY <1>3, <2>1
  <2>3. \A i, j \in 1..(n + 1) :
          i < j /\ w \in DOMAIN p[i].wins /\ w \in DOMAIN p[j].wins =>
            p[i].wins[w].txid < p[j].wins[w].txid
    BY <1>3, <2>1
  <2>4. \/ h.txid = id /\ h.finish = f
        \/ \E i \in 1..(n + 1) : /\ w \in DOMAIN p[i].wins
                                 /\ p[i].wins[w].txid = id /\ p[i].wins[w].finish = f
    BY <1>1, <1>2, <1>3
  <2>. QED  BY <1>1, <2>2, <2>3, <2>4 DEF Ends
<1>5. ASSUME w \in DOMAIN m.wins, m.wins[w].txid = id + 1
      PROVE  Ends(w, h, p, id + 1, m.wins[w].finish)
  <2>1. /\ h.txid < id + 1
        /\ \A i \in 1..n : w \in DOMAIN q[i].wins => q[i].wins[w].txid < id + 1
    <3>1. \A k \in Nat : k <= id => k < id + 1
      OBVIOUS
    <3>. QED  BY <3>1
  <2>2. \A i \in 1..(n + 1) : w \in DOMAIN p[i].wins => h.txid < p[i].wins[w].txid
    BY <1>1, <1>2, <1>3, <1>5, <2>1
  <2>3. ASSUME NEW i \in 1..(n + 1), NEW j \in 1..(n + 1), i < j,
               w \in DOMAIN p[i].wins, w \in DOMAIN p[j].wins
        PROVE  p[i].wins[w].txid < p[j].wins[w].txid
    <3>1. i \in 1..n /\ p[i] = q[i]
      BY <1>1, <1>2, <2>3
    <3>2. CASE j = n + 1
      BY <1>1, <1>5, <2>1, <2>3, <3>1, <3>2
    <3>3. CASE j # n + 1
      BY <1>1, <1>2, <1>3, <2>3, <3>1, <3>3
    <3>. QED  BY <3>2, <3>3
  <2>4. \E i \in 1..(n + 1) : /\ w \in DOMAIN p[i].wins
                              /\ p[i].wins[w].txid = id + 1
                              /\ p[i].wins[w].finish = m.wins[w].finish
    BY <1>1, <1>2, <1>5
  <2>. QED  BY <1>1, <2>2, <2>3, <2>4 DEF Ends
<1>. QED  BY <1>4, <1>5

(* What the manager holds is in time, with all it was asked for. *)
LEMMA HeldInTime ==
  ASSUME Types, NEW w \in Window, NEW s \in Local, Managed(w, s)
  PROVE  /\ Held(w, s).txid \in Nat /\ Held(w, s).txid <= sent[w]
         /\ s.id <= sent[w] /\ sent[w] \in Nat
         /\ \A i \in 1..Len(animQ) :
              w \in DOMAIN animQ[i].wins => InTime(w, animQ[i].wins[w].txid)
<1>1. \A i \in 1..Len(animQ) : animQ[i] \in Message
  BY DEF Types, AnimTypes
<1>2. \A i \in 1..Len(animQ) :
        w \in DOMAIN animQ[i].wins => InTime(w, animQ[i].wins[w].txid)
  BY <1>1 DEF Message, IsWrites
<1>3. sent[w] \in Nat /\ s.id \in Nat
  BY DEF Types, ReactorTypes, Local
<1>. PICK h : h = Held(w, s)
  OBVIOUS
<1>4. h.txid \in Nat
  <2>1. CASE w \in DOMAIN active.wins
    BY <2>1 DEF Held, Types, AnimTypes, IsWrites, Write
  <2>2. CASE w \notin DOMAIN active.wins
    BY <1>3, <2>2 DEF Held
  <2>. QED  BY <2>1, <2>2
<1>5. Ends(w, h, animQ, sent[w], written[w])
  BY DEF Managed
<1>6. h.txid <= sent[w]
  <2>1. CASE h.txid = sent[w]
    BY <1>3, <2>1
  <2>2. ASSUME NEW i \in 1..Len(animQ), w \in DOMAIN animQ[i].wins, animQ[i].wins[w].txid = sent[w]
        PROVE  h.txid <= sent[w]
    <3>1. h.txid < animQ[i].wins[w].txid
      BY <1>5, <2>2 DEF Ends
    <3>. QED  BY <1>3, <1>4, <2>2, <3>1
  <2>. QED  BY <1>5, <2>1, <2>2 DEF Ends
<1>7. s.id <= h.txid
  <2>1. CASE w \in DOMAIN active.wins
    BY <2>1 DEF Held, Managed
  <2>2. CASE w \notin DOMAIN active.wins
    BY <1>3, <2>2 DEF Held
  <2>. QED  BY <2>1, <2>2
<1>. QED  BY <1>2, <1>3, <1>4, <1>6, <1>7

LEMMA MovesManaged ==
  ASSUME Types, NEW fr, NEW gl, NEW skip, NEW moved, Moves(moved, fr, gl, skip), active' = active,
         NEW w \in Window, NEW s \in Local, Managed(w, s)
  PROVE  Managed(w, s)'
<1>. PICK h, q, id, f : h = Held(w, s) /\ q = animQ /\ id = sent[w] /\ f = written[w]
  OBVIOUS
<1>1. Ends(w, h, q, id, f) /\ id \in Nat /\ h.txid \in Nat /\ h.txid <= id /\ q \in Seq(Message)
  BY HeldInTime DEF Managed, Types, AnimTypes
<1>2. \A i \in 1..Len(q) :
           w \in DOMAIN q[i].wins => q[i].wins[w].txid \in Nat /\ q[i].wins[w].txid <= id
  BY HeldInTime DEF InTime
<1>3. Held(w, s)' = h
  BY DEF Held
<1>4. Ends(w, h, animQ', sent'[w], written'[w])
  <2>1. CASE moved = {}
    <3>1. animQ' = q /\ sent'[w] = id /\ written'[w] = f
      BY <2>1 DEF Moves
    <3>. QED  BY <1>1, <3>1
  <2>2. CASE moved # {}
    <3>. PICK m : m = [skip |-> skip \/ ~animate,
                       wins |-> [v \in moved |->
                                  [finish |-> Target(gl[v]), txid |-> sent[v] + 1]]]
      OBVIOUS
    <3>1. animQ' = Append(q, m)
      BY <2>2 DEF Moves
    <3>2. DOMAIN m.wins = moved
      OBVIOUS
    <3>3. q \in Seq(Message \cup {m}) /\ m \in Message \cup {m}
      BY <1>1, SeqMonotone
    <3>4. /\ w \notin DOMAIN m.wins => Ends(w, h, Append(q, m), id, f)
          /\ w \in DOMAIN m.wins /\ m.wins[w].txid = id + 1 =>
               Ends(w, h, Append(q, m), id + 1, m.wins[w].finish)
      BY <1>1, <1>2, <3>3, EndsPush
    <3>5. CASE w \in moved
      <4>1. sent'[w] = id + 1 /\ written'[w] = m.wins[w].finish /\ m.wins[w].txid = id + 1
        BY <3>5 DEF Moves
      <4>. QED  BY <3>1, <3>2, <3>4, <3>5, <4>1
    <3>6. CASE w \notin moved
      <4>1. sent'[w] = id /\ written'[w] = f
        BY <3>6 DEF Moves
      <4>. QED  BY <3>1, <3>2, <3>4, <3>6, <4>1
    <3>. QED  BY <3>5, <3>6
  <2>. QED  BY <2>1, <2>2
<1>. QED  BY <1>3, <1>4 DEF Managed

-----------------------------------------------------------------------------
(* What the requests of the animation manager do. *)
LEMMA FrameDoes ==
  ASSUME NEW w \in Window, NEW a \in Write, NEW k \in 1..Frames,
         NEW s \in Local, s.open, s.id <= a.txid
  PROVE  \E t \in Local :
           /\ Does(w, s, AnimationFrame(w, a, k), t)
           /\ t.open /\ t.id = a.txid
           /\ k = Frames => t.sure /\ t.at = a.finish
<1>1. PICK l \in Layouts : a.finish = Target(l)
  BY DEF Write, Finals
<1>2. a.txid \in Nat
  BY DEF Write
<1>. PICK f, b : /\ f = [a.finish EXCEPT !.pos = <<a.finish.pos[1], k>>]
                 /\ b = (k * 2 = Frames \/ k = Frames)
  OBVIOUS
<1>3. f \in Frame /\ b \in BOOLEAN
  BY <1>1 DEF Target, Frame
<1>. PICK t : t = [open |-> TRUE, sure |-> b, at |-> f, id |-> a.txid]
  OBVIOUS
<1>4. t \in Local /\ t.open /\ t.sure = b /\ t.at = f /\ t.id = a.txid
  BY <1>2, <1>3 DEF Local
<1>5. AnimationFrame(w, a, k) = [kind |-> "frame", w |-> w, txid |-> a.txid, frame |-> f, setSize |-> b]
  BY DEF AnimationFrame
<1>6. Does(w, s, AnimationFrame(w, a, k), t)
  BY <1>4, <1>5 DEF Does
<1>7. k = Frames => b /\ f = a.finish
  <2>1. a.finish = [pos |-> <<l, Frames>>, size |-> l]
    BY <1>1 DEF Target
  <2>2. f = [pos |-> <<l, k>>, size |-> l]
    BY <2>1
  <2>. QED  BY <2>1, <2>2
<1>. QED  BY <1>4, <1>6, <1>7

LEMMA EndDoes ==
  ASSUME NEW w \in Window, NEW s \in Local, s.open, s.sure
  PROVE  \E t \in Local : Does(w, s, End(w), t) /\ ~t.open /\ t.at = s.at /\ t.id = s.id
<1>. PICK t : t = [open |-> FALSE, sure |-> TRUE, at |-> s.at, id |-> s.id]
  OBVIOUS
<1>1. t \in Local /\ ~t.open /\ t.at = s.at /\ t.id = s.id
  BY DEF Local
<1>2. Does(w, s, End(w), t)
  BY <1>1 DEF Does, End
<1>. QED  BY <1>1, <1>2

LEMMA BeginDoes ==
  ASSUME NEW w \in Window, NEW s \in Local, ~s.open
  PROVE  \E t \in Local : Does(w, s, Begin(w), t) /\ t.open /\ t.at = s.at /\ t.id = s.id
<1>. PICK t : t = [open |-> TRUE, sure |-> FALSE, at |-> s.at, id |-> s.id]
  OBVIOUS
<1>1. t \in Local /\ t.open /\ ~t.sure /\ t.at = s.at /\ t.id = s.id
  BY DEF Local
<1>2. Does(w, s, Begin(w), t)
  BY <1>1 DEF Does, Begin
<1>. QED  BY <1>1, <1>2

LEMMA SetDoes ==
  ASSUME NEW w \in Window, NEW a \in Write, NEW s \in Local, ~s.open, s.id < a.txid
  PROVE  \E t \in Local : /\ Does(w, s, SetFrame(w, a), t)
                          /\ ~t.open /\ t.at = a.finish /\ t.id = a.txid
<1>. PICK t : t = [open |-> FALSE, sure |-> TRUE, at |-> a.finish, id |-> a.txid]
  OBVIOUS
<1>1. t \in Local /\ ~t.open /\ t.at = a.finish /\ t.id = a.txid
  BY FramesFacts DEF Local, Write
<1>2. Does(w, s, SetFrame(w, a), t)
  BY <1>1 DEF Does, SetFrame
<1>. QED  BY <1>1, <1>2

LEMMA TwoJoined ==
  ASSUME NEW S, NEW x \in S, NEW y \in S
  PROVE  <<x>> \o <<y>> = <<x, y>>
<1>1. /\ Len(<<x>>) = 1 /\ Len(<<y>>) = 1 /\ Len(<<x, y>>) = 2
      /\ <<x>>[1] = x /\ <<y>>[1] = y /\ <<x, y>>[1] = x /\ <<x, y>>[2] = y
      /\ <<x>> \in Seq(S) /\ <<y>> \in Seq(S) /\ <<x, y>> \in Seq(S)
  OBVIOUS
<1>2. /\ <<x>> \o <<y>> \in Seq(S) /\ Len(<<x>> \o <<y>>) = 2
      /\ (<<x>> \o <<y>>)[1] = x /\ (<<x>> \o <<y>>)[2] = y
  BY <1>1
<1>3. \A i \in 1..2 : i = 1 \/ i = 2
  OBVIOUS
<1>4. \A i \in 1..2 : (<<x>> \o <<y>>)[i] = <<x, y>>[i]
  BY <1>1, <1>2, <1>3
<1>. PICK p, q : p = <<x>> \o <<y>> /\ q = <<x, y>>
  OBVIOUS
<1>5. p \in Seq(S) /\ q \in Seq(S) /\ Len(p) = 2 /\ Len(q) = 2 /\ \A i \in 1..2 : p[i] = q[i]
  BY <1>1, <1>2, <1>4
<1>6. p = q
  BY <1>5, SeqEqual
<1>. QED  BY <1>6

(* The last frame and the end of every window animated. *)
LEMMA FinishLeads ==
  ASSUME NEW wins, IsWrites(wins), NEW w \in Window, NEW s \in Local,
         s.open <=> w \in DOMAIN wins, w \in DOMAIN wins => s.id <= wins[w].txid
  PROVE  \E t \in Local :
           /\ Leads(w, FinishAll(wins), s, t) /\ ~t.open
           /\ w \in DOMAIN wins => t.at = wins[w].finish /\ t.id = wins[w].txid
           /\ w \notin DOMAIN wins => t = s
<1>. PICK ws, f : /\ ws = DOMAIN wins
                  /\ f = [v \in ws |-> <<AnimationFrame(v, wins[v], Frames), End(v)>>]
  OBVIOUS
<1>1. /\ ws \subseteq Window /\ Frames \in 1..Frames
      /\ \A v \in ws : v \in Window /\ wins[v] \in Write /\ InTime(v, wins[v].txid)
  BY FramesFacts DEF IsWrites
<1>2. FinishAll(wins) = ForEach(f)
  BY DEF FinishAll
<1>3. ASSUME NEW v \in ws
      PROVE  /\ AnimationFrame(v, wins[v], Frames) \in Request /\ End(v) \in Request
             /\ f[v] \in Seq(Request)
             /\ v # w => \A i \in 1..Len(f[v]) : f[v][i].w # w
  <2>1. AnimationFrame(v, wins[v], Frames) \in Request /\ End(v) \in Request
    BY <1>1, RequestTypes
  <2>2. AnimationFrame(v, wins[v], Frames).w = v /\ End(v).w = v
    BY DEF AnimationFrame, End
  <2>. PICK x, y : x = AnimationFrame(v, wins[v], Frames) /\ y = End(v)
    OBVIOUS
  <2>3. f[v] = <<x, y>>
    OBVIOUS
  <2>4. Len(<<x, y>>) = 2 /\ <<x, y>>[1] = x /\ <<x, y>>[2] = y /\ \A i \in 1..2 : i = 1 \/ i = 2
    OBVIOUS
  <2>. QED  BY <2>1, <2>2, <2>3, <2>4, OneAndTwo
<1>4. f \in [ws -> Seq(Request)]
  BY <1>3
<1>5. CASE w \notin ws
  <2>1. \A v \in ws : v # w => \A i \in 1..Len(f[v]) : f[v][i].w # w
    BY <1>3
  <2>2. (w \in ws => Leads(w, f[w], s, s)) /\ (w \notin ws => s = s)
    BY <1>5
  <2>3. Leads(w, ForEach(f), s, s)
    BY <1>1, <1>4, <2>1, <2>2, LeadsEach
  <2>. QED  BY <1>2, <1>5, <2>3
<1>6. CASE w \in ws
  <2>. PICK x, y : x = AnimationFrame(w, wins[w], Frames) /\ y = End(w)
    OBVIOUS
  <2>1. wins[w] \in Write /\ s.open /\ s.id <= wins[w].txid
    BY <1>1, <1>6
  <2>2. PICK m \in Local : /\ Does(w, s, x, m) /\ m.open /\ m.id = wins[w].txid
                           /\ m.sure /\ m.at = wins[w].finish
    BY <1>1, <2>1, FrameDoes
  <2>3. PICK t \in Local : Does(w, m, y, t) /\ ~t.open /\ t.at = m.at /\ t.id = m.id
    BY <2>2, EndDoes
  <2>4. Leads(w, <<x>>, s, m) /\ Leads(w, <<y>>, m, t)
    BY <2>2, <2>3, LeadsOne
  <2>5. <<x>> \in Seq(Request) /\ <<y>> \in Seq(Request) /\ <<x>> \o <<y>> = <<x, y>>
    <3>1. x \in Request /\ y \in Request
      BY <1>3, <1>6
    <3>. QED  BY <3>1, OneAndTwo, TwoJoined
  <2>6. Leads(w, f[w], s, t)
    <3>1. Leads(w, <<x>> \o <<y>>, s, t)
      BY <2>4, <2>5, LeadsJoin
    <3>2. f[w] = <<x>> \o <<y>>
      BY <1>6, <2>5
    <3>. QED  BY <3>1, <3>2
  <2>7. Leads(w, ForEach(f), s, t)
    BY <1>1, <1>3, <1>4, <1>6, <2>6, LeadsEach
  <2>. QED  BY <1>2, <1>6, <2>2, <2>3, <2>7
<1>. QED  BY <1>5, <1>6

(* One request, g, for each of the windows ws. *)
Once(f, g, ws) ==
  /\ ws \subseteq Window /\ g \in [ws -> Request]
  /\ \A v \in ws : g[v].w = v
  /\ f = [v \in ws |-> <<g[v]>>]

LEMMA EachOnce ==
  ASSUME NEW ws, NEW f, NEW g, Once(f, g, ws), NEW w \in Window, NEW s \in Local, NEW t \in Local,
         w \in ws => Does(w, s, g[w], t), w \notin ws => t = s
  PROVE  Leads(w, ForEach(f), s, t) /\ ForEach(f) \in Seq(Request)
<1>0. ws \subseteq Window
  BY DEF Once
<1>1. ASSUME NEW v \in ws
      PROVE  /\ f[v] \in Seq(Request) /\ f[v] = <<g[v]>>
             /\ v # w => \A i \in 1..Len(f[v]) : f[v][i].w # w
  <2>. PICK x : x = g[v]
    OBVIOUS
  <2>1. f[v] = <<x>> /\ x \in Request /\ x.w = v
    BY DEF Once
  <2>2. Len(<<x>>) = 1 /\ <<x>>[1] = x /\ \A i \in 1..1 : i = 1
    OBVIOUS
  <2>. QED  BY <2>1, <2>2, OneAndTwo
<1>3. f \in [ws -> Seq(Request)]
  BY <1>1 DEF Once
<1>4. w \in ws => Leads(w, f[w], s, t)
  <2>. SUFFICES ASSUME w \in ws PROVE Leads(w, f[w], s, t)
    OBVIOUS
  <2>1. Leads(w, <<g[w]>>, s, t)
    BY LeadsOne
  <2>. QED  BY <1>1, <2>1
<1>5. w \notin ws => s = t
  OBVIOUS
<1>6. \A v \in ws : v # w => \A i \in 1..Len(f[v]) : f[v][i].w # w
  BY <1>1
<1>7. Leads(w, ForEach(f), s, t)
  BY <1>0, <1>3, <1>4, <1>5, <1>6, LeadsEach
<1>. QED  BY <1>0, <1>3, <1>7, ForEachOne

-----------------------------------------------------------------------------
(* The manager's steps keep its part in order. *)
LEMMA SendLeads ==
  ASSUME Types, NEW p \in Seq(Request), requests' = requests \o p, batch' = batch,
         NEW w, NEW a, NEW s, NEW t, Leads(w, batch \o requests, a, s), Leads(w, p, s, t)
  PROVE  Leads(w, (batch \o requests)', a, t)
<1>. PICK b, r : b = batch /\ r = requests
  OBVIOUS
<1>1. b \in Seq(Request) /\ r \in Seq(Request)
  BY DEF Types, Queues
<1>2. Leads(w, b \o r, a, s)
  OBVIOUS
<1>3. b \o r \in Seq(Request)
  BY <1>1, SeqOps
<1>4. Leads(w, (b \o r) \o p, a, t)
  BY <1>2, <1>3, LeadsJoin
<1>5. (b \o r) \o p = b \o (r \o p)
  BY <1>1, ConcatAssociative
<1>6. (batch \o requests)' = b \o (r \o p)
  OBVIOUS
<1>. QED  BY <1>4, <1>5, <1>6

LEMMA SkipManaged ==
  ASSUME Types, NEW m, m = Head(animQ), animQ # << >>, animQ' = Tail(animQ),
         SkipToEnd(m.wins), batch' = batch, UNCHANGED <<sent, written>>,
         NEW w \in Window, NEW a, NEW s \in Local, Leads(w, batch \o requests, a, s), Managed(w, s)
  PROVE  \E t \in Local : Leads(w, (batch \o requests)', a, t) /\ Managed(w, t)'
<1>. PICK wins, ws, f : /\ wins = m.wins /\ ws = DOMAIN wins
                        /\ f = [v \in ws |-> <<SetFrame(v, wins[v])>>]
  OBVIOUS
<1>1. animQ \in Seq(Message) /\ m \in Message
  BY SeqOps DEF Types, AnimTypes
<1>2. /\ ws \subseteq Window /\ IsWrites(wins) /\ IsWrites(active.wins)
      /\ \A v \in ws : wins[v] \in Write /\ InTime(v, wins[v].txid)
  BY <1>1 DEF Message, Types, AnimTypes, IsWrites
<1>3. /\ requests' = requests \o (FinishAll(active.wins) \o ForEach(f))
      /\ active' = NoAnimation
  BY DEF SkipToEnd, Send
<1>4. /\ s.open <=> w \in DOMAIN active.wins
      /\ w \in DOMAIN active.wins => s.id <= active.wins[w].txid
      /\ Ends(w, Held(w, s), animQ, sent[w], written[w])
  BY DEF Managed
<1>5. PICK n \in Local :
        /\ Leads(w, FinishAll(active.wins), s, n) /\ ~n.open
        /\ w \in DOMAIN active.wins => n.at = active.wins[w].finish /\ n.id = active.wins[w].txid
        /\ w \notin DOMAIN active.wins => n = s
  BY <1>2, <1>4, FinishLeads
<1>. PICK h : h = Held(w, s)
  OBVIOUS
<1>6. h.txid = n.id /\ h.finish = n.at
  BY <1>5 DEF Held
<1>in. /\ sent[w] \in Nat
       /\ \A i \in 1..Len(animQ) :
            w \in DOMAIN animQ[i].wins =>
              animQ[i].wins[w].txid \in Nat /\ animQ[i].wins[w].txid <= sent[w]
  BY HeldInTime DEF InTime
<1>7. /\ w \in ws => Ends(w, wins[w], Tail(animQ), sent[w], written[w]) /\ h.txid < wins[w].txid
      /\ w \notin ws => Ends(w, h, Tail(animQ), sent[w], written[w])
  BY <1>1, <1>4, <1>in, EndsPop
<1>8. \E t \in Local :
        /\ w \in ws => /\ Does(w, n, SetFrame(w, wins[w]), t)
                       /\ ~t.open /\ t.at = wins[w].finish /\ t.id = wins[w].txid
        /\ w \notin ws => t = n
  <2>1. CASE w \in ws
    <3>1. n.id < wins[w].txid /\ wins[w] \in Write
      BY <1>2, <1>6, <1>7, <2>1
    <3>2. \E t \in Local : /\ Does(w, n, SetFrame(w, wins[w]), t)
                           /\ ~t.open /\ t.at = wins[w].finish /\ t.id = wins[w].txid
      BY <1>5, <3>1, SetDoes
    <3>. QED  BY <2>1, <3>2
  <2>2. CASE w \notin ws
    BY <2>2
  <2>. QED  BY <2>1, <2>2
<1>9. PICK t \in Local :
        /\ w \in ws => /\ Does(w, n, SetFrame(w, wins[w]), t)
                       /\ ~t.open /\ t.at = wins[w].finish /\ t.id = wins[w].txid
        /\ w \notin ws => t = n
  BY <1>8
<1>10. Leads(w, ForEach(f), n, t) /\ ForEach(f) \in Seq(Request)
  <2>. PICK g : g = [v \in ws |-> SetFrame(v, wins[v])]
    OBVIOUS
  <2>1. \A v \in ws : SetFrame(v, wins[v]) \in Request /\ SetFrame(v, wins[v]).w = v
    <3>. SUFFICES ASSUME NEW v \in ws
                  PROVE  SetFrame(v, wins[v]) \in Request /\ SetFrame(v, wins[v]).w = v
      OBVIOUS
    <3>1. v \in Window /\ Frames \in 1..Frames
      BY <1>2, FramesFacts
    <3>2. SetFrame(v, wins[v]) \in Request
      BY <1>2, <3>1, RequestTypes
    <3>. QED  BY <3>2 DEF SetFrame
  <2>2. g \in [ws -> Request] /\ \A v \in ws : g[v].w = v
    BY <2>1
  <2>3. f = [v \in ws |-> <<g[v]>>]
    OBVIOUS
  <2>4. (w \in ws => Does(w, n, g[w], t)) /\ (w \notin ws => t = n)
    BY <1>9
  <2>5. Once(f, g, ws)
    BY <1>2, <2>2, <2>3 DEF Once
  <2>. QED  BY <1>9, <2>4, <2>5, EachOnce
<1>11. FinishAll(active.wins) \in Seq(Request)
  BY <1>2, FinishAllType
<1>12. Leads(w, (batch \o requests)', a, t)
  <2>. PICK p : p = FinishAll(active.wins) \o ForEach(f)
    OBVIOUS
  <2>1. Leads(w, p, s, t) /\ p \in Seq(Request)
    BY <1>5, <1>10, <1>11, LeadsJoin, SeqOps
  <2>. QED  BY <1>3, <2>1, SendLeads
<1>13. Managed(w, t)'
  <2>1. ~t.open /\ DOMAIN active'.wins = {}
    BY <1>3, <1>5, <1>9 DEF NoAnimation
  <2>. PICK g : g = [finish |-> t.at, txid |-> t.id]
    OBVIOUS
  <2>2. Held(w, t)' = g
    BY <2>1 DEF Held
  <2>3. Ends(w, g, Tail(animQ), sent[w], written[w])
    <3>1. CASE w \in ws
      <4>1. g.txid = wins[w].txid /\ g.finish = wins[w].finish
        BY <1>9, <3>1
      <4>. QED  BY <1>7, <3>1, <4>1 DEF Ends
    <3>2. CASE w \notin ws
      <4>1. g.txid = h.txid /\ g.finish = h.finish
        BY <1>6, <1>9, <3>2
      <4>. QED  BY <1>7, <3>2, <4>1 DEF Ends
    <3>. QED  BY <3>1, <3>2
  <2>4. Ends(w, g, animQ', sent'[w], written'[w])
    BY <2>3
  <2>. QED  BY <2>1, <2>2, <2>4 DEF Managed
<1>. QED  BY <1>12, <1>13

LEMMA ReplaceManaged ==
  ASSUME Types, NEW m, m = Head(animQ), animQ # << >>, animQ' = Tail(animQ),
         Replace(m.wins), batch' = batch, UNCHANGED <<sent, written>>,
         NEW w \in Window, NEW a, NEW s \in Local, Leads(w, batch \o requests, a, s), Managed(w, s)
  PROVE  \E t \in Local : Leads(w, (batch \o requests)', a, t) /\ Managed(w, t)'
<1>. PICK wins, ws, was, f : /\ wins = m.wins /\ ws = DOMAIN wins /\ was = DOMAIN active.wins
                             /\ f = [v \in ws \ was |-> <<Begin(v)>>]
  OBVIOUS
<1>1. animQ \in Seq(Message) /\ m \in Message
  BY SeqOps DEF Types, AnimTypes
<1>2. ws \subseteq Window /\ was \subseteq Window
  BY <1>1 DEF Message, Types, AnimTypes, IsWrites
<1>3. /\ requests' = requests \o ForEach(f)
      /\ active'.wins = [v \in ws \cup was |-> IF v \in ws THEN wins[v] ELSE active.wins[v]]
  BY DEF Replace, Send, CarriedOver
<1>4. /\ s.open <=> w \in was
      /\ w \in was => s.id <= active.wins[w].txid
      /\ Ends(w, Held(w, s), animQ, sent[w], written[w])
  BY DEF Managed
<1>. PICK h : h = Held(w, s)
  OBVIOUS
<1>in. /\ sent[w] \in Nat
       /\ \A i \in 1..Len(animQ) :
            w \in DOMAIN animQ[i].wins =>
              animQ[i].wins[w].txid \in Nat /\ animQ[i].wins[w].txid <= sent[w]
  BY HeldInTime DEF InTime
<1>5. /\ w \in ws => Ends(w, wins[w], Tail(animQ), sent[w], written[w]) /\ h.txid < wins[w].txid
      /\ w \notin ws => Ends(w, h, Tail(animQ), sent[w], written[w])
  BY <1>1, <1>4, <1>in, EndsPop
<1>6. PICK t \in Local :
        /\ w \in ws \ was => Does(w, s, Begin(w), t) /\ t.open
        /\ w \notin ws \ was => t = s
        /\ t.at = s.at /\ t.id = s.id
  <2>1. CASE w \in ws \ was
    BY <1>4, <2>1, BeginDoes
  <2>2. CASE w \notin ws \ was
    BY <2>2
  <2>. QED  BY <2>1, <2>2
<1>7. Leads(w, ForEach(f), s, t) /\ ForEach(f) \in Seq(Request)
  <2>. PICK g : g = [v \in ws \ was |-> Begin(v)]
    OBVIOUS
  <2>1. \A v \in ws \ was : Begin(v) \in Request /\ Begin(v).w = v
    BY <1>2 DEF Begin, Request
  <2>2. g \in [ws \ was -> Request] /\ \A v \in ws \ was : g[v].w = v
    BY <2>1
  <2>3. f = [v \in ws \ was |-> <<g[v]>>]
    OBVIOUS
  <2>4. (w \in ws \ was => Does(w, s, g[w], t)) /\ (w \notin ws \ was => t = s)
    BY <1>6
  <2>5. ws \ was \subseteq Window
    BY <1>2
  <2>6. Once(f, g, ws \ was)
    BY <2>2, <2>3, <2>5 DEF Once
  <2>. QED  BY <1>6, <2>4, <2>6, EachOnce
<1>8. Leads(w, (batch \o requests)', a, t)
  BY <1>3, <1>7, SendLeads
<1>9. Managed(w, t)'
  <2>1. t.open <=> w \in ws \cup was
    BY <1>4, <1>6
  <2>2. DOMAIN active'.wins = ws \cup was
    BY <1>3
  <2>3. CASE w \in ws
    <3>1. active'.wins[w] = wins[w]
      BY <1>3, <2>3
    <3>2. s.id <= h.txid /\ s.id \in Nat /\ h.txid \in Nat /\ wins[w].txid \in Nat
      <4>1. s.id \in Nat /\ h.txid \in Nat
        BY HeldInTime DEF Local
      <4>2. s.id <= h.txid
        <5>1. CASE w \in was
          BY <1>4, <5>1 DEF Held
        <5>2. CASE w \notin was
          BY <4>1, <5>2 DEF Held
        <5>. QED  BY <5>1, <5>2
      <4>. QED  BY <1>1, <2>3, <4>1, <4>2 DEF Message, IsWrites, InTime
    <3>3. t.id <= wins[w].txid
      BY <1>5, <1>6, <2>3, <3>2
    <3>4. Held(w, t)' = wins[w]
      BY <2>2, <2>3, <3>1 DEF Held
    <3>5. Ends(w, wins[w], animQ', sent'[w], written'[w])
      BY <1>5, <2>3
    <3>. QED  BY <2>1, <2>2, <3>1, <3>3, <3>4, <3>5 DEF Managed
  <2>4. CASE w \notin ws /\ w \in was
    <3>1. active'.wins[w] = active.wins[w] /\ h = active.wins[w]
      BY <1>3, <2>4 DEF Held
    <3>2. Held(w, t)' = h
      BY <2>2, <2>4, <3>1 DEF Held
    <3>3. Ends(w, h, animQ', sent'[w], written'[w])
      BY <1>5, <2>4
    <3>4. t.id <= active'.wins[w].txid
      BY <1>4, <1>6, <2>4, <3>1
    <3>. QED  BY <2>1, <2>2, <3>2, <3>3, <3>4 DEF Managed
  <2>5. CASE w \notin ws /\ w \notin was
    <3>1. Held(w, t)' = [finish |-> t.at, txid |-> t.id] /\ h = [finish |-> s.at, txid |-> s.id]
      BY <2>2, <2>5 DEF Held
    <3>2. Held(w, t)' = h
      BY <1>6, <3>1
    <3>3. Ends(w, h, animQ', sent'[w], written'[w])
      BY <1>5, <2>5
    <3>. QED  BY <2>1, <2>2, <2>5, <3>2, <3>3 DEF Managed
  <2>. QED  BY <2>3, <2>4, <2>5
<1>. QED  BY <1>8, <1>9

LEMMA TickManaged ==
  ASSUME Types, Tick, batch' = batch, UNCHANGED <<sent, written>>,
         NEW w \in Window, NEW a, NEW s \in Local, Leads(w, batch \o requests, a, s), Managed(w, s)
  PROVE  \E t \in Local : Leads(w, (batch \o requests)', a, t) /\ Managed(w, t)'
<1>. PICK ws, wins, k : ws = DOMAIN wins /\ wins = active.wins /\ k = active.next
  OBVIOUS
<1>1. /\ ws \subseteq Window /\ k \in 1..Frames
      /\ \A v \in ws : v \in Window /\ wins[v] \in Write /\ InTime(v, wins[v].txid)
  BY DEF Types, AnimTypes, IsWrites
<1>. PICK g, f : /\ g = [v \in ws |-> AnimationFrame(v, wins[v], k)]
                 /\ f = [v \in ws |-> <<AnimationFrame(v, wins[v], k)>>]
  OBVIOUS
<1>. PICK e, d : e = [v \in ws |-> End(v)] /\ d = [v \in ws |-> <<End(v)>>]
  OBVIOUS
<1>2. /\ k = Frames => requests' = requests \o (ForEach(f) \o ForEach(d)) /\ active' = NoAnimation
      /\ k # Frames => requests' = requests \o ForEach(f) /\ active'.wins = wins
      /\ animQ' = animQ
  <2>1. k # Frames => active'.wins = wins
    BY DEF Tick, Types, AnimTypes
  <2>. QED  BY <2>1 DEF Tick, Send
<1>3. Once(f, g, ws) /\ Once(d, e, ws)
  <2>1. ASSUME NEW v \in ws
        PROVE  /\ g[v] \in Request /\ g[v].w = v /\ f[v] = <<g[v]>>
               /\ e[v] \in Request /\ e[v].w = v /\ d[v] = <<e[v]>>
    <3>1. AnimationFrame(v, wins[v], k) \in Request /\ End(v) \in Request
      BY <1>1, RequestTypes
    <3>. QED  BY <3>1 DEF AnimationFrame, End
  <2>2. g \in [ws -> Request] /\ e \in [ws -> Request]
    BY <2>1
  <2>3. f = [v \in ws |-> <<g[v]>>] /\ d = [v \in ws |-> <<e[v]>>]
    OBVIOUS
  <2>. QED  BY <1>1, <2>1, <2>2, <2>3 DEF Once
<1>4. /\ s.open <=> w \in ws
      /\ w \in ws => s.id <= wins[w].txid
      /\ Ends(w, Held(w, s), animQ, sent[w], written[w])
  BY DEF Managed
<1>5. PICK n \in Local :
        /\ w \in ws => /\ Does(w, s, g[w], n)
                       /\ n.open /\ n.id = wins[w].txid
                       /\ k = Frames => n.sure /\ n.at = wins[w].finish
        /\ w \notin ws => n = s
  <2>1. CASE w \in ws
    <3>1. wins[w] \in Write /\ s.open /\ s.id <= wins[w].txid /\ g[w] = AnimationFrame(w, wins[w], k)
      BY <1>1, <1>4, <2>1
    <3>2. \E t \in Local : /\ Does(w, s, AnimationFrame(w, wins[w], k), t)
                           /\ t.open /\ t.id = wins[w].txid
                           /\ k = Frames => t.sure /\ t.at = wins[w].finish
      BY <1>1, <3>1, FrameDoes
    <3>. QED  BY <2>1, <3>1, <3>2
  <2>2. CASE w \notin ws
    BY <2>2
  <2>. QED  BY <2>1, <2>2
<1>6. Leads(w, ForEach(f), s, n) /\ ForEach(f) \in Seq(Request)
  BY <1>3, <1>5, EachOnce
<1>7. CASE k # Frames
  <2>1. Leads(w, (batch \o requests)', a, n)
    BY <1>2, <1>6, <1>7, SendLeads
  <2>2. Held(w, n)' = Held(w, s)
    BY <1>2, <1>5, <1>7 DEF Held
  <2>3. n.open <=> w \in ws
    BY <1>4, <1>5
  <2>4. w \in ws => n.id <= wins[w].txid
    BY <1>1, <1>5 DEF Write
  <2>. QED  BY <1>2, <1>4, <1>7, <2>1, <2>2, <2>3, <2>4 DEF Managed
<1>8. CASE k = Frames
  <2>1. PICK t \in Local :
          /\ w \in ws => Does(w, n, e[w], t)
          /\ w \notin ws => t = n
          /\ ~t.open /\ t.at = n.at /\ t.id = n.id
    <3>1. CASE w \in ws
      BY <1>5, <1>8, <3>1, EndDoes
    <3>2. CASE w \notin ws
      BY <1>4, <1>5, <3>2
    <3>. QED  BY <3>1, <3>2
  <2>2. Leads(w, ForEach(d), n, t) /\ ForEach(d) \in Seq(Request)
    BY <1>3, <2>1, EachOnce
  <2>. PICK p : p = ForEach(f) \o ForEach(d)
    OBVIOUS
  <2>3. Leads(w, p, s, t) /\ p \in Seq(Request)
    BY <1>6, <2>2, LeadsJoin, SeqOps
  <2>4. Leads(w, (batch \o requests)', a, t)
    BY <1>2, <1>8, <2>3, SendLeads
  <2>. PICK h, u : h = Held(w, s) /\ u = [finish |-> t.at, txid |-> t.id]
    OBVIOUS
  <2>5. h.finish = u.finish /\ h.txid = u.txid
    BY <1>5, <1>8, <2>1 DEF Held
  <2>6. Ends(w, u, animQ, sent[w], written[w])
    BY <1>4, <2>5 DEF Ends
  <2>7. DOMAIN active'.wins = {}
    BY <1>2, <1>8 DEF NoAnimation
  <2>8. Held(w, t)' = u
    BY <2>7 DEF Held
  <2>9. Ends(w, u, animQ', sent'[w], written'[w])
    BY <1>2, <2>6
  <2>. QED  BY <2>1, <2>4, <2>7, <2>8, <2>9 DEF Managed
<1>. QED  BY <1>7, <1>8

-----------------------------------------------------------------------------
(* What the app has of a window, before the requests it has not handled.   *)
Present(w, s) ==
  /\ w \in suspended /\ w \in elems => s.open
  /\ w \in DOMAIN pending =>
       s.open /\ s.at = pending[w].frame /\ s.sure = pending[w].setSize
  /\ w \in elems /\ s.open /\ s.sure /\ w \notin DOMAIN pending =>
       w \in DOMAIN lastFrame /\ lastFrame[w] = s.at
  /\ w \in elems => s.id = IF w \in DOMAIN pending THEN pending[w].txid ELSE seen[w]
  /\ moves = 0 /\ ~s.open => real[w] = s.at

Undisturbed ==
  moves = 0 =>
    /\ elems = Window /\ real \in [Window -> Frame]
    /\ notifs \in Seq([w : Window, destroyed : {FALSE}])

LEMMA FramePresent ==
  ASSUME NEW r, r.kind = "frame", HandleAnimationFrame(r), moves' = moves,
         NEW w, NEW s \in Local, NEW t, Present(w, s), Does(w, s, r, t)
  PROVE  Present(w, t)'
<1>. PICK p : p = [frame |-> r.frame, setSize |-> r.setSize, txid |-> r.txid]
  OBVIOUS
<1>1. /\ pending' = [v \in DOMAIN pending \cup {r.w} |-> IF v = r.w THEN p ELSE pending[v]]
      /\ UNCHANGED <<real, elems, seen, lastFrame, suspended>>
  BY DEF HandleAnimationFrame, With
<1>2. CASE r.w # w
  <2>1. t = s /\ (w \in DOMAIN pending' <=> w \in DOMAIN pending)
        /\ (w \in DOMAIN pending => pending'[w] = pending[w])
    BY <1>1, <1>2 DEF Does
  <2>. QED  BY <1>1, <2>1 DEF Present
<1>3. CASE r.w = w
  <2>1. t.open /\ t.sure = r.setSize /\ t.at = r.frame /\ t.id = r.txid
    BY <1>3 DEF Does
  <2>2. w \in DOMAIN pending' /\ pending'[w] = p
    BY <1>1, <1>3
  <2>. QED  BY <1>1, <2>1, <2>2 DEF Present
<1>. QED  BY <1>2, <1>3

LEMMA BeginPresent ==
  ASSUME NEW r, r.kind = "begin", HandleBegin(r), moves' = moves,
         NEW w, NEW s \in Local, NEW t, Present(w, s), Does(w, s, r, t)
  PROVE  Present(w, t)'
<1>1. /\ r.w \in elems => /\ lastFrame' = [v \in DOMAIN lastFrame \ {r.w} |-> lastFrame[v]]
                          /\ suspended' = suspended \cup {r.w}
      /\ r.w \notin elems => UNCHANGED <<lastFrame, suspended>>
      /\ UNCHANGED <<real, elems, seen, pending>>
  BY DEF HandleBegin, Without, StopNotifications
<1>2. CASE r.w # w
  <2>1. t = s /\ (w \in suspended' <=> w \in suspended)
        /\ (w \in DOMAIN lastFrame' <=> w \in DOMAIN lastFrame)
        /\ (w \in DOMAIN lastFrame => lastFrame'[w] = lastFrame[w])
    BY <1>1, <1>2 DEF Does
  <2>. QED  BY <1>1, <2>1 DEF Present
<1>3. CASE r.w = w
  <2>1. t.open /\ ~t.sure /\ t.at = s.at /\ t.id = s.id /\ ~s.open
    BY <1>3 DEF Does
  <2>. QED  BY <1>1, <2>1 DEF Present
<1>. QED  BY <1>2, <1>3

LEMMA SetPresent ==
  ASSUME Types, Undisturbed, NEW r \in Request, r.kind = "set", HandleSetWindowFrame(r),
         moves' = moves,
         NEW w \in Window, NEW s \in Local, NEW t, Present(w, s), Does(w, s, r, t)
  PROVE  Present(w, t)'
<1>1. /\ UNCHANGED <<elems, pending, lastFrame, suspended>>
      /\ r.w \notin elems => UNCHANGED <<seen, real>>
      /\ r.w \in elems => seen' = [seen EXCEPT ![r.w] = r.txid]
      /\ r.w \in elems /\ r.w \in DOMAIN real => real' = [real EXCEPT ![r.w] = r.frame]
      /\ r.w \in elems /\ r.w \notin DOMAIN real => real' = real
  BY DEF HandleSetWindowFrame, Exists
<1>2. seen \in [Window -> Nat]
  BY DEF Types, AppTypes
<1>3. moves = 0 => elems = Window /\ DOMAIN real = Window
  BY DEF Undisturbed
<1>4. CASE r.w # w
  <2>1. t = s /\ seen'[w] = seen[w] /\ (moves = 0 => real'[w] = real[w])
    BY <1>1, <1>2, <1>3, <1>4 DEF Does
  <2>. QED  BY <1>1, <2>1 DEF Present
<1>5. CASE r.w = w
  <2>1. ~t.open /\ t.at = r.frame /\ t.id = r.txid /\ ~s.open
    BY <1>5 DEF Does
  <2>2. w \notin DOMAIN pending /\ ~(w \in suspended /\ w \in elems)
    BY <2>1 DEF Present
  <2>3. w \in elems => seen'[w] = r.txid
    BY <1>1, <1>2, <1>5
  <2>4. moves = 0 => real'[w] = r.frame
    BY <1>1, <1>3, <1>5
  <2>. QED  BY <1>1, <2>1, <2>2, <2>3, <2>4 DEF Present
<1>. QED  BY <1>4, <1>5

LEMMA EndPresent ==
  ASSUME Types, Undisturbed, NEW r \in Request, r.kind = "end", HandleEnd(r), moves' = moves,
         NEW w \in Window, NEW s \in Local, NEW t, Present(w, s), Does(w, s, r, t)
  PROVE  Present(w, t)'
<1>. PICK flushed, last, sized :
       /\ flushed = Flushed({r.w}) /\ last = FlushedLast({r.w})
       /\ sized = {v \in {r.w} \cap DOMAIN pending \cap elems : pending[v].setSize}
  OBVIOUS
<1>1. /\ pending' = [v \in DOMAIN pending \ {r.w} |-> pending[v]]
      /\ elems' = elems
      /\ r.w \notin elems => UNCHANGED <<seen, lastFrame, real, suspended>>
      /\ r.w \in elems =>
           /\ seen' = FlushedSeen({r.w})
           /\ lastFrame' = [v \in DOMAIN last \ {r.w} |-> last[v]]
           /\ real' = [v \in DOMAIN real |->
                         IF v = r.w /\ v \in DOMAIN last THEN last[v] ELSE flushed[v]]
           /\ suspended' = suspended \ {r.w}
  BY DEF HandleEnd, Without, RestartNotifications
<1>2. last = [v \in DOMAIN lastFrame \cup sized |->
                IF v \in sized THEN pending[v].frame ELSE lastFrame[v]]
  BY DEF FlushedLast
<1>3. moves = 0 => elems = Window /\ DOMAIN real = Window
  BY DEF Undisturbed
<1>4. CASE r.w # w
  <2>1. t = s
    BY <1>4 DEF Does
  <2>2. (w \in DOMAIN pending' <=> w \in DOMAIN pending)
        /\ (w \in DOMAIN pending => pending'[w] = pending[w])
    BY <1>1, <1>4
  <2>3. (w \in suspended' <=> w \in suspended) /\ seen'[w] = seen[w]
    BY <1>1, <1>4 DEF FlushedSeen
  <2>4. (w \in DOMAIN lastFrame' <=> w \in DOMAIN lastFrame)
        /\ (w \in DOMAIN lastFrame => lastFrame'[w] = lastFrame[w])
    <3>1. w \notin sized
      BY <1>4
    <3>. QED  BY <1>1, <1>2, <1>4, <3>1
  <2>5. moves = 0 => real'[w] = real[w]
    <3>1. moves = 0 => flushed[w] = real[w]
      BY <1>3, <1>4 DEF Flushed
    <3>. QED  BY <1>1, <1>3, <1>4, <3>1
  <2>. QED  BY <1>1, <2>1, <2>2, <2>3, <2>4, <2>5 DEF Present
<1>5. CASE r.w = w
  <2>1. s.open /\ s.sure /\ ~t.open /\ t.at = s.at /\ t.id = s.id
    BY <1>5 DEF Does
  <2>2. w \notin DOMAIN pending' /\ ~(w \in suspended' /\ w \in elems')
    BY <1>1, <1>5
  <2>3. w \in elems => s.id = seen'[w]
    BY <1>1, <1>5 DEF FlushedSeen, Present
  <2>4. moves = 0 => real'[w] = s.at
    <3>. SUFFICES ASSUME moves = 0 PROVE real'[w] = s.at
      OBVIOUS
    <3>1. w \in elems /\ w \in DOMAIN real
      BY <1>3
    <3>2. w \in DOMAIN last /\ last[w] = s.at
      <4>1. CASE w \in DOMAIN pending
        <5>1. pending[w].setSize /\ pending[w].frame = s.at
          BY <2>1, <4>1 DEF Present
        <5>2. w \in sized
          BY <1>5, <3>1, <4>1, <5>1
        <5>. QED  BY <1>2, <5>1, <5>2
      <4>2. CASE w \notin DOMAIN pending
        <5>1. w \in DOMAIN lastFrame /\ lastFrame[w] = s.at
          BY <2>1, <3>1, <4>2 DEF Present
        <5>. QED  BY <1>2, <4>2, <5>1
      <4>. QED  BY <4>1, <4>2
    <3>. QED  BY <1>1, <1>5, <3>1, <3>2
  <2>5. elems' = elems
    BY <1>1
  <2>. QED  BY <2>1, <2>2, <2>3, <2>4, <2>5 DEF Present
<1>. QED  BY <1>4, <1>5

(* At the end of a batch what is pending is what the app has. *)
LEMMA FlushPresent ==
  ASSUME Types, Undisturbed, FlushAll, NEW w \in Window, NEW s \in Local, Present(w, s)
  PROVE  Present(w, s)'
<1>. PICK sized : sized = {v \in Window \cap DOMAIN pending \cap elems : pending[v].setSize}
  OBVIOUS
<1>1. /\ DOMAIN pending' = {} /\ UNCHANGED <<elems, suspended, moves>>
      /\ real' = Flushed(Window) /\ seen' = FlushedSeen(Window)
      /\ lastFrame' = [v \in DOMAIN lastFrame \cup sized |->
                         IF v \in sized THEN pending[v].frame ELSE lastFrame[v]]
  BY DEF FlushAll, FlushedLast, userVars
<1>2. w \in elems => s.id = seen'[w]
  BY <1>1 DEF FlushedSeen, Present
<1>3. ASSUME moves = 0, ~s.open PROVE real'[w] = s.at
  <2>1. w \in DOMAIN real /\ w \notin DOMAIN pending /\ real[w] = s.at
    BY <1>3 DEF Undisturbed, Present
  <2>. QED  BY <1>1, <2>1 DEF Flushed
<1>4. ASSUME w \in elems, s.open, s.sure PROVE w \in DOMAIN lastFrame' /\ lastFrame'[w] = s.at
  <2>1. CASE w \in DOMAIN pending
    <3>1. pending[w].setSize /\ pending[w].frame = s.at
      BY <1>4, <2>1 DEF Present
    <3>2. w \in sized
      BY <1>4, <2>1, <3>1
    <3>. QED  BY <1>1, <3>1, <3>2
  <2>2. CASE w \notin DOMAIN pending
    <3>1. w \in DOMAIN lastFrame /\ lastFrame[w] = s.at /\ w \notin sized
      BY <1>4, <2>2 DEF Present
    <3>. QED  BY <1>1, <3>1
  <2>. QED  BY <2>1, <2>2
<1>5. w \in suspended /\ w \in elems => s.open
  BY DEF Present
<1>. QED  BY <1>1, <1>2, <1>3, <1>4, <1>5 DEF Present

-----------------------------------------------------------------------------
(* The app counts the windows that are animated, and keeps its enhanced UI *)
(* off while there are any.                                                *)
OpenIn(s) == {w \in Window : s[w].open}

Counted(s) ==
  /\ animating = Cardinality(OpenIn(s))
  /\ OpenIn(s) = {} => enhanced = EnhancedUi /\ restore = FALSE
  /\ OpenIn(s) # {} => restore = EnhancedUi /\ enhanced = FALSE

LEMMA RequestCounted ==
  ASSUME Types, HandleRequest, NEW r, r = Head(batch),
         NEW s \in [Window -> Local], NEW t \in [Window -> Local], Counted(s),
         \A w \in Window : Does(w, s[w], r, t[w])
  PROVE  Counted(t)'
<1>. PICK o, p : o = OpenIn(s) /\ p = OpenIn(t)
  OBVIOUS
<1>1. IsFiniteSet(o) /\ Cardinality(o) \in Nat /\ (Cardinality(o) = 0 <=> o = {})
  <2>1. o \subseteq Window
    BY DEF OpenIn
  <2>2. IsFiniteSet(o)
    BY <2>1, FramesFacts, FS_Subset
  <2>. QED  BY <2>2, FS_CardinalityType, FS_EmptySet
<1>2. r \in Request /\ r.w \in Window
  <2>1. r \in Request
    BY SeqOps DEF HandleRequest, Types, Queues
  <2>. QED  BY <2>1, RequestParts
<1>3. \A w \in Window : w # r.w => t[w] = s[w]
  BY DEF Does
<1>4. \A w \in Window : w # r.w => (w \in o <=> w \in p)
  BY <1>3 DEF OpenIn
<1>5. /\ animating = Cardinality(o)
      /\ o = {} => enhanced = EnhancedUi /\ restore = FALSE
      /\ o # {} => restore = EnhancedUi /\ enhanced = FALSE
  BY DEF Counted
<1>6. Does(r.w, s[r.w], r, t[r.w])
  BY <1>2
<1>7. SUFFICES /\ animating' = Cardinality(p)
               /\ p = {} => enhanced' = EnhancedUi /\ restore' = FALSE
               /\ p # {} => restore' = EnhancedUi /\ enhanced' = FALSE
  BY DEF Counted, OpenIn
<1>8. CASE r.kind = "begin"
  <2>1. HandleBegin(r)
    BY <1>8 DEF HandleRequest
  <2>2. r.w \notin o /\ r.w \in p
    BY <1>2, <1>6, <1>8 DEF Does, OpenIn
  <2>3. p = o \cup {r.w}
    BY <1>2, <1>4, <2>2 DEF OpenIn
  <2>4. Cardinality(p) = Cardinality(o) + 1
    BY <1>1, <2>2, <2>3, FS_AddElement
  <2>5. animating' = Cardinality(p) /\ p # {}
    BY <1>5, <2>1, <2>2, <2>4 DEF HandleBegin
  <2>6. CASE animating = 0
    <3>1. restore' = enhanced /\ enhanced' = FALSE /\ enhanced = EnhancedUi
      BY <1>1, <1>5, <2>1, <2>6 DEF HandleBegin
    <3>. QED  BY <2>5, <3>1
  <2>7. CASE animating # 0
    <3>1. restore' = restore /\ enhanced' = enhanced /\ restore = EnhancedUi /\ enhanced = FALSE
      BY <1>1, <1>5, <2>1, <2>7 DEF HandleBegin
    <3>. QED  BY <2>5, <3>1
  <2>. QED  BY <2>6, <2>7
<1>9. CASE r.kind = "end"
  <2>1. HandleEnd(r)
    BY <1>9 DEF HandleRequest
  <2>2. r.w \in o /\ r.w \notin p
    BY <1>2, <1>6, <1>9 DEF Does, OpenIn
  <2>3. p = o \ {r.w}
    BY <1>2, <1>4, <2>2 DEF OpenIn
  <2>4. IsFiniteSet(p) /\ Cardinality(p) = Cardinality(o) - 1
    BY <1>1, <2>2, <2>3, FS_RemoveElement
  <2>5. Cardinality(p) \in Nat /\ (Cardinality(p) = 0 <=> p = {})
    BY <2>4, FS_CardinalityType, FS_EmptySet
  <2>6. animating # 0 /\ (animating <= 1 <=> p = {}) /\ restore = EnhancedUi /\ enhanced = FALSE
    BY <1>1, <1>5, <2>2, <2>4, <2>5
  <2>7. animating' = Cardinality(p)
    BY <1>5, <2>1, <2>4, <2>6 DEF HandleEnd
  <2>8. /\ enhanced' = (enhanced \/ (animating <= 1 /\ restore))
        /\ restore' = (restore /\ ~(animating <= 1))
    BY <2>1 DEF HandleEnd
  <2>9. EnhancedUi \in BOOLEAN
    BY FramesFacts
  <2>10. CASE p = {}
    <3>1. enhanced' = EnhancedUi /\ restore' = FALSE
      BY <2>6, <2>8, <2>9, <2>10
    <3>. QED  BY <2>7, <2>10, <3>1
  <2>11. CASE p # {}
    <3>1. restore' = EnhancedUi /\ enhanced' = FALSE
      BY <2>6, <2>8, <2>9, <2>11
    <3>. QED  BY <2>7, <2>11, <3>1
  <2>. QED  BY <2>10, <2>11
<1>10. CASE r.kind \in {"frame", "set"}
  <2>1. UNCHANGED <<animating, restore, enhanced>>
    BY <1>10 DEF HandleRequest, HandleAnimationFrame, HandleSetWindowFrame
  <2>2. r.w \in o <=> r.w \in p
    BY <1>2, <1>6, <1>10 DEF Does, OpenIn
  <2>3. o = p
    BY <1>4, <2>2 DEF OpenIn
  <2>. QED  BY <1>5, <2>1, <2>3
<1>. QED  BY <1>2, <1>8, <1>9, <1>10, RequestParts

-----------------------------------------------------------------------------
(* While the user does nothing all windows stay, and only move. *)
LEMMA NotifyReads ==
  ASSUME notifs \in Seq([w : Window, destroyed : {FALSE}]), NEW old, NEW new, NEW ws,
         ws \subseteq Window, Notify(old, new, ws)
  PROVE  notifs' \in Seq([w : Window, destroyed : {FALSE}])
<1>. PICK changed, f : /\ changed = {w \in ws \cap DOMAIN new : old[w] # new[w]} \ suspended
                       /\ f = [w \in changed |-> <<[w |-> w, destroyed |-> FALSE]>>]
  OBVIOUS
<1>1. changed \subseteq Window
  OBVIOUS
<1>. PICK S : S = [w : Window, destroyed : {FALSE}]
  OBVIOUS
<1>2. ASSUME NEW w \in changed PROVE <<[w |-> w, destroyed |-> FALSE]>> \in Seq(S)
  <2>1. [w |-> w, destroyed |-> FALSE] \in S
    BY <1>1
  <2>. QED  BY <2>1, OneAndTwo
<1>3. f \in [changed -> Seq(S)]
  BY <1>2
<1>4. ForEach(f) \in Seq(S)
  BY <1>1, <1>3, ForEachOne
<1>5. notifs' = notifs \o ForEach(f)
  BY DEF Notify
<1>. QED  BY <1>4, <1>5, SeqOps

LEMMA UndisturbedKept ==
  ASSUME Types, Types', Undisturbed, [Next]_vars
  PROVE  Undisturbed'
<1>. PICK S : S = [w : Window, destroyed : {FALSE}]
  OBVIOUS
<1>. SUFFICES ASSUME moves' = 0
              PROVE  elems' = Window /\ real' \in [Window -> Frame] /\ notifs' \in Seq(S)
  BY DEF Undisturbed
<1>1. moves = 0 /\ ~ \E w \in Window : UserCloses(w) \/ \E l \in Layouts : UserMoves(w, l)
  <2>1. \A m \in Nat : m + 1 # 0
    OBVIOUS
  <2>2. moves \in Nat
    BY DEF Types, ReactorTypes
  <2>3. ~ \E w \in Window : UserCloses(w) \/ \E l \in Layouts : UserMoves(w, l)
    BY <2>1, <2>2 DEF UserCloses, UserMoves
  <2>4. UNCHANGED moves
    BY <2>3 DEF Next, Command, HandleEvent, HandleMessage, Tick, AppStep, TakeBatch, HandleRequest,
                FlushAll, HandleNotification, userVars, vars
  <2>. QED  BY <2>3, <2>4
<1>2. elems = Window /\ real \in [Window -> Frame] /\ notifs \in Seq(S)
  BY <1>1 DEF Undisturbed
<1>3. \A w \in DOMAIN real' : real'[w] \in Frame
  BY DEF Types, AppTypes
<1>4. CASE UNCHANGED <<elems, real, notifs>>
  BY <1>2, <1>4
<1>5. CASE HandleRequest
  <2>. PICK r : r = Head(batch)
    OBVIOUS
  <2>1. r \in Request /\ r.w \in Window /\ {r.w} \subseteq Window
    <3>1. r \in Request
      BY <1>5, SeqOps DEF HandleRequest, Types, Queues
    <3>. QED  BY <3>1, RequestParts
  <2>2. CASE HandleAnimationFrame(r) \/ HandleBegin(r)
    BY <1>4, <2>2 DEF HandleAnimationFrame, HandleBegin
  <2>3. CASE r.kind = "set" /\ HandleSetWindowFrame(r)
    <3>1. /\ elems' = elems /\ real' = [real EXCEPT ![r.w] = r.frame]
          /\ Notify(real, real', {r.w})
      BY <1>2, <2>1, <2>3 DEF HandleSetWindowFrame, Exists
    <3>2. notifs' \in Seq(S)
      BY <1>2, <2>1, <3>1, NotifyReads
    <3>3. real' = [w \in Window |-> real'[w]]
      BY <1>2, <3>1
    <3>. QED  BY <1>2, <1>3, <3>1, <3>2, <3>3
  <2>4. CASE r.kind = "end" /\ HandleEnd(r)
    <3>1. /\ elems' = elems
          /\ real' = [w \in DOMAIN real |->
                        IF w = r.w /\ w \in DOMAIN FlushedLast({r.w}) THEN FlushedLast({r.w})[w]
                        ELSE Flushed({r.w})[w]]
          /\ Notify(real, real', {r.w})
      BY <1>2, <2>1, <2>4 DEF HandleEnd
    <3>2. notifs' \in Seq(S)
      BY <1>2, <2>1, <3>1, NotifyReads
    <3>3. real' = [w \in Window |-> real'[w]]
      BY <1>2, <3>1
    <3>. QED  BY <1>2, <1>3, <3>1, <3>2, <3>3
  <2>. QED  BY <1>5, <2>2, <2>3, <2>4 DEF HandleRequest
<1>6. CASE FlushAll
  <2>1. elems' = elems /\ real' = Flushed(Window) /\ Notify(real, real', Window)
    BY <1>6 DEF FlushAll
  <2>2. notifs' \in Seq(S)
    BY <1>2, <2>1, NotifyReads
  <2>3. real' = [w \in Window |-> real'[w]]
    BY <1>2, <2>1 DEF Flushed
  <2>. QED  BY <1>2, <1>3, <2>1, <2>2, <2>3
<1>7. CASE HandleNotification
  <2>. PICK n : n = Head(notifs)
    OBVIOUS
  <2>1. n \in S /\ notifs' \in Seq(S) /\ real' = real
    BY <1>2, <1>7, SeqOps DEF HandleNotification
  <2>2. n.destroyed = FALSE
    BY <2>1
  <2>3. elems' = elems
    BY <1>7, <2>2 DEF HandleNotification
  <2>. QED  BY <1>2, <2>1, <2>3
<1>8. CASE \E l \in Layouts, ws \in SUBSET Window \ {{}}, skip \in BOOLEAN : Command(l, ws, skip)
  BY <1>4, <1>8 DEF Command, appVars
<1>9. CASE HandleEvent \/ HandleMessage \/ Tick \/ TakeBatch
  BY <1>4, <1>9 DEF HandleEvent, HandleMessage, Tick, TakeBatch, appVars
<1>10. CASE UNCHANGED vars
  BY <1>4, <1>10 DEF vars, appVars
<1>. QED  BY <1>1, <1>5, <1>6, <1>7, <1>8, <1>9, <1>10 DEF Next, AppStep

-----------------------------------------------------------------------------
(* Whatever is on its way to a window, it fits what the app has of it and  *)
(* what the animation manager makes of it: s is what the app has of each   *)
(* window now, t what it has after all requests sent so far.               *)
Fits(s, t) ==
  /\ s \in [Window -> Local] /\ t \in [Window -> Local]
  /\ \A w \in Window : Leads(w, batch \o requests, s[w], t[w])
  /\ \A w \in Window : Present(w, s[w])
  /\ \A w \in Window : Managed(w, t[w])
  /\ Counted(s)

Drained == ~draining => batch = << >> /\ pending = << >>

LEMMA SameFits ==
  ASSUME NEW s, NEW t, Fits(s, t), batch' \o requests' = batch \o requests,
         UNCHANGED <<animVars, sent, written>>,
         \A w \in Window : Present(w, s[w])',
         UNCHANGED <<animating, restore, enhanced>>
  PROVE  Fits(s, t)'
<1>1. Counted(s)'
  BY DEF Fits, Counted, OpenIn
<1>2. \A w \in Window : Managed(w, t[w])'
  BY DEF Fits, Managed, Held, animVars
<1>3. \A w \in Window : Leads(w, (batch \o requests)', s[w], t[w])
  BY DEF Fits
<1>. QED  BY <1>1, <1>2, <1>3 DEF Fits

LEMMA ManagerFits ==
  ASSUME Types, NEW s, NEW t, Fits(s, t), UNCHANGED <<appVars, real, moves>>,
         \A w \in Window :
           \E u \in Local : Leads(w, (batch \o requests)', s[w], u) /\ Managed(w, u)'
  PROVE  \E x, y : Fits(x, y)'
<1>1. PICK u : u = [w \in Window |->
                     CHOOSE v \in Local : Leads(w, (batch \o requests)', s[w], v) /\ Managed(w, v)']
  OBVIOUS
<1>2. ASSUME NEW w \in Window
      PROVE  u[w] \in Local /\ Leads(w, (batch \o requests)', s[w], u[w]) /\ Managed(w, u[w])'
  BY <1>1
<1>3. u \in [Window -> Local]
  BY <1>1, <1>2
<1>4. Counted(s)'
  BY DEF Fits, Counted, OpenIn, appVars
<1>5. \A w \in Window : Present(w, s[w])'
  BY DEF Fits, Present, appVars
<1>6. \A w \in Window : Leads(w, (batch \o requests)', s[w], u[w]) /\ Managed(w, u[w])'
  BY <1>2
<1>7. Fits(s, u)'
  BY <1>3, <1>4, <1>5, <1>6 DEF Fits
<1>. QED  BY <1>7

LEMMA RequestFits ==
  ASSUME Types, Undisturbed, HandleRequest, NEW s, NEW t, Fits(s, t)
  PROVE  \E x, y : Fits(x, y)'
<1>. PICK r, b, q : r = Head(batch) /\ b = batch /\ q = requests
  OBVIOUS
<1>1. /\ b \in Seq(Request) /\ b # << >> /\ q \in Seq(Request) /\ r \in Request
      /\ batch' = Tail(b) /\ requests' = q
      /\ UNCHANGED <<animVars, sent, written, moves>>
  BY SeqOps DEF HandleRequest, Types, Queues, reactorVars, userVars
<1>. PICK p : p = b \o q
  OBVIOUS
<1>2. p \in Seq(Request) /\ p # << >> /\ Head(p) = r /\ Tail(p) = Tail(b) \o q
  <2>1. Head(p) = Head(b) /\ p \in Seq(Request) /\ p # << >>
    BY <1>1
  <2>2. Len(Tail(b)) = Len(b) - 1 /\ Tail(b) \in Seq(Request) /\ Len(b) \in Nat /\ Len(q) \in Nat
        /\ Len(b) # 0 /\ Len(p) = Len(b) + Len(q) /\ Len(Tail(p)) = Len(p) - 1
        /\ Tail(p) \in Seq(Request) /\ Tail(b) \o q \in Seq(Request)
        /\ Len(Tail(b) \o q) = Len(Tail(b)) + Len(q)
    BY <1>1, <2>1
  <2>3. \A i \in 1..(Len(p) - 1) : Tail(p)[i] = (Tail(b) \o q)[i]
    BY <1>1, <2>1, <2>2
  <2>4. Len(Tail(p)) = Len(Tail(b) \o q)
    BY <2>2
  <2>5. Tail(p) = Tail(b) \o q
    BY <2>2, <2>3, <2>4, SeqEqual
  <2>. QED  BY <2>1, <2>5
<1>3. \A w \in Window : \E v \in Local : Does(w, s[w], r, v) /\ Leads(w, Tail(p), v, t[w])
  <2>1. \A w \in Window : Leads(w, p, s[w], t[w])
    BY DEF Fits
  <2>. QED  BY <1>2, <2>1, LeadsHead
<1>4. PICK u : u = [w \in Window |->
                     CHOOSE v \in Local : Does(w, s[w], r, v) /\ Leads(w, Tail(p), v, t[w])]
  OBVIOUS
<1>5. ASSUME NEW w \in Window
      PROVE  u[w] \in Local /\ Does(w, s[w], r, u[w]) /\ Leads(w, Tail(p), u[w], t[w])
  BY <1>3, <1>4
<1>6. u \in [Window -> Local]
  BY <1>4, <1>5
<1>7. Counted(u)'
  BY <1>5, <1>6, RequestCounted DEF Fits
<1>8. ASSUME NEW w \in Window PROVE Present(w, u[w])'
  <2>1. Present(w, s[w]) /\ Does(w, s[w], r, u[w]) /\ s[w] \in Local
    BY <1>5 DEF Fits
  <2>2. CASE r.kind = "frame" /\ HandleAnimationFrame(r)
    BY <1>1, <2>1, <2>2, FramePresent
  <2>3. CASE r.kind = "begin" /\ HandleBegin(r)
    BY <1>1, <2>1, <2>3, BeginPresent
  <2>4. CASE r.kind = "set" /\ HandleSetWindowFrame(r)
    BY <1>1, <2>1, <2>4, SetPresent
  <2>5. CASE r.kind = "end" /\ HandleEnd(r)
    BY <1>1, <2>1, <2>5, EndPresent
  <2>. QED  BY <2>2, <2>3, <2>4, <2>5 DEF HandleRequest
<1>9. \A w \in Window : Managed(w, t[w])'
  BY <1>1 DEF Fits, Managed, Held, animVars
<1>10. \A w \in Window : Leads(w, (batch \o requests)', u[w], t[w])
  BY <1>1, <1>2, <1>5
<1>11. t \in [Window -> Local]
  BY DEF Fits
<1>12. Fits(u, t)'
  BY <1>6, <1>7, <1>8, <1>9, <1>10, <1>11 DEF Fits
<1>. QED  BY <1>12

LEMMA ReactorFits ==
  ASSUME Types, NEW s, NEW t, Fits(s, t), UNCHANGED <<appVars, real, moves, requests, active>>,
         \/ UNCHANGED <<animQ, sent, written>>
         \/ \E fr, gl, skip, moved : Moves(moved, fr, gl, skip)
  PROVE  Fits(s, t)'
<1>1. ASSUME NEW w \in Window PROVE Managed(w, t[w])'
  <2>1. Managed(w, t[w]) /\ t[w] \in Local /\ active' = active
    BY DEF Fits
  <2>2. CASE UNCHANGED <<animQ, sent, written>>
    BY <2>1, <2>2 DEF Managed, Held
  <2>3. CASE \E fr, gl, skip, moved : Moves(moved, fr, gl, skip)
    BY <2>1, <2>3, MovesManaged
  <2>. QED  BY <2>2, <2>3
<1>2. Counted(s)'
  BY DEF Fits, Counted, OpenIn, appVars
<1>3. \A w \in Window : Present(w, s[w])'
  BY DEF Fits, Present, appVars
<1>4. \A w \in Window : Leads(w, (batch \o requests)', s[w], t[w])
  BY DEF Fits, appVars
<1>. QED  BY <1>1, <1>2, <1>3, <1>4 DEF Fits

LEMMA FitsKept ==
  ASSUME Types, Undisturbed, Drained, NEW s, NEW t, Fits(s, t), [Next]_vars
  PROVE  \E x, y : Fits(x, y)'
<1>0. \A w \in Window : Present(w, s[w])
  BY DEF Fits
<1>1. ASSUME NEW l \in Layouts, NEW ws \in SUBSET Window, NEW skip \in BOOLEAN,
             Command(l, ws, skip)
      PROVE  Fits(s, t)'
  <2>1. UNCHANGED <<appVars, real, moves, requests, active>>
    BY <1>1 DEF Command
  <2>. PICK gl : gl = goal'
    OBVIOUS
  <2>2. \E moved : Moves(moved, frame, gl, skip)
    BY <1>1, CommandMoves
  <2>. QED  BY <2>1, <2>2, ReactorFits
<1>2. ASSUME HandleEvent PROVE Fits(s, t)'
  <2>. PICK e, gl : e = Head(events) /\ gl = goal'
    OBVIOUS
  <2>1. UNCHANGED <<appVars, real, moves, requests, active>>
    BY <1>2 DEF HandleEvent, userVars
  <2>2. \/ UNCHANGED <<animQ, sent, written>>
        \/ \E skip \in BOOLEAN : \E moved : Moves(moved, [frame EXCEPT ![e.w] = e.frame], gl, skip)
        \/ \E moved : Moves(moved, frame, gl, FALSE)
    BY <1>2, EventMoves
  <2>. PICK fr : fr = [frame EXCEPT ![e.w] = e.frame]
    OBVIOUS
  <2>3. CASE UNCHANGED <<animQ, sent, written>>
    BY <2>1, <2>3, ReactorFits
  <2>4. CASE \E skip \in BOOLEAN : \E moved : Moves(moved, fr, gl, skip)
    BY <2>1, <2>4, ReactorFits
  <2>5. CASE \E moved : Moves(moved, frame, gl, FALSE)
    BY <2>1, <2>5, ReactorFits
  <2>. QED  BY <2>2, <2>3, <2>4, <2>5
<1>3. ASSUME HandleMessage PROVE \E x, y : Fits(x, y)'
  <2>. PICK m : m = Head(animQ)
    OBVIOUS
  <2>1. /\ animQ # << >> /\ animQ' = Tail(animQ) /\ batch' = batch
        /\ UNCHANGED <<sent, written, appVars, real, moves>>
        /\ SkipToEnd(m.wins) \/ Replace(m.wins)
    BY <1>3 DEF HandleMessage, appVars, reactorVars, userVars
  <2>2. ASSUME NEW w \in Window
        PROVE  \E u \in Local : Leads(w, (batch \o requests)', s[w], u) /\ Managed(w, u)'
    <3>1. t[w] \in Local /\ Leads(w, batch \o requests, s[w], t[w]) /\ Managed(w, t[w])
      BY DEF Fits
    <3>2. CASE SkipToEnd(m.wins)
      BY <2>1, <3>1, <3>2, SkipManaged
    <3>3. CASE Replace(m.wins)
      BY <2>1, <3>1, <3>3, ReplaceManaged
    <3>. QED  BY <2>1, <3>2, <3>3
  <2>. QED  BY <2>1, <2>2, ManagerFits
<1>4. ASSUME Tick PROVE \E x, y : Fits(x, y)'
  <2>1. batch' = batch /\ UNCHANGED <<sent, written, appVars, real, moves>>
    BY <1>4 DEF Tick, appVars, reactorVars, userVars
  <2>2. ASSUME NEW w \in Window
        PROVE  \E u \in Local : Leads(w, (batch \o requests)', s[w], u) /\ Managed(w, u)'
    <3>1. t[w] \in Local /\ Leads(w, batch \o requests, s[w], t[w]) /\ Managed(w, t[w])
      BY DEF Fits
    <3>. QED  BY <1>4, <2>1, <3>1, TickManaged
  <2>. QED  BY <2>1, <2>2, ManagerFits
<1>5. ASSUME TakeBatch PROVE Fits(s, t)'
  <2>1. /\ batch' = requests /\ requests' = << >> /\ batch = << >>
        /\ UNCHANGED <<animVars, sent, written, animating, restore, enhanced>>
        /\ UNCHANGED <<suspended, elems, pending, lastFrame, seen, real, moves>>
    BY <1>5 DEF TakeBatch, Drained, reactorVars, userVars
  <2>2. batch' \o requests' = batch \o requests
    <3>1. requests \in Seq(Request)
      BY DEF Types, Queues
    <3>2. requests \o << >> = << >> \o requests
      BY <3>1, ConcatEmptySeq
    <3>. QED  BY <2>1, <3>2
  <2>3. \A w \in Window : Present(w, s[w])'
    BY <1>0, <2>1 DEF Present
  <2>. QED  BY <2>1, <2>2, <2>3, SameFits
<1>6. ASSUME FlushAll PROVE Fits(s, t)'
  <2>1. /\ batch' = batch /\ requests' = requests
        /\ UNCHANGED <<animVars, sent, written, animating, restore, enhanced>>
    BY <1>6 DEF FlushAll, reactorVars
  <2>2. \A w \in Window : Present(w, s[w])'
    BY <1>0, <1>6, FlushPresent DEF Fits
  <2>. QED  BY <2>1, <2>2, SameFits
<1>7. ASSUME HandleNotification PROVE Fits(s, t)'
  <2>1. /\ batch' = batch /\ requests' = requests /\ elems' \subseteq elems
        /\ UNCHANGED <<animVars, sent, written, animating, restore, enhanced>>
        /\ UNCHANGED <<suspended, pending, lastFrame, seen, real, moves>>
    BY <1>7 DEF HandleNotification, reactorVars, userVars
  <2>2. \A w \in Window : Present(w, s[w])'
    BY <1>0, <2>1 DEF Present
  <2>. QED  BY <2>1, <2>2, SameFits
<1>8. ASSUME NEW w \in Window, UserCloses(w) \/ \E l \in Layouts : UserMoves(w, l)
      PROVE  Fits(s, t)'
  <2>1. UNCHANGED <<reactorVars, animVars, appVars, requests>> /\ moves' = moves + 1
    BY <1>8 DEF UserCloses, UserMoves
  <2>2. moves' # 0
    <3>1. moves \in Nat
      BY DEF Types, ReactorTypes
    <3>. QED  BY <2>1, <3>1
  <2>3. \A v \in Window : Present(v, s[v])'
    BY <1>0, <2>1, <2>2 DEF Present, appVars
  <2>4. batch' = batch /\ UNCHANGED <<sent, written, animating, restore, enhanced>>
    BY <2>1 DEF reactorVars, appVars
  <2>. QED  BY <2>1, <2>3, <2>4, SameFits
<1>9. ASSUME UNCHANGED vars PROVE Fits(s, t)'
  <2>1. UNCHANGED <<reactorVars, animVars, appVars, requests, real, moves>>
    BY <1>9 DEF vars, userVars
  <2>2. \A v \in Window : Present(v, s[v])'
    BY <1>0, <2>1 DEF Present, appVars
  <2>3. batch' = batch /\ UNCHANGED <<sent, written, animating, restore, enhanced>>
    BY <2>1 DEF reactorVars, appVars
  <2>. QED  BY <2>1, <2>2, <2>3, SameFits
<1>10. ASSUME HandleRequest PROVE \E x, y : Fits(x, y)'
  BY <1>10, RequestFits
<1>. HIDE DEF Fits
<1>. QED
  BY <1>1, <1>2, <1>3, <1>4, <1>5, <1>6, <1>7, <1>8, <1>9, <1>10 DEF Next, AppStep

LEMMA DrainedKept ==
  ASSUME Drained, [Next]_vars
  PROVE  Drained'
<1>1. CASE UNCHANGED <<draining, batch, pending>>
  BY <1>1 DEF Drained
<1>2. CASE TakeBatch \/ HandleRequest \/ FlushAll
  BY <1>2 DEF TakeBatch, HandleRequest, FlushAll, Drained
<1>3. CASE HandleNotification
  BY <1>1, <1>3 DEF HandleNotification
<1>4. CASE \E l \in Layouts, ws \in SUBSET Window \ {{}}, skip \in BOOLEAN : Command(l, ws, skip)
  BY <1>1, <1>4 DEF Command, appVars
<1>5. CASE HandleEvent \/ HandleMessage \/ Tick
  BY <1>1, <1>5 DEF HandleEvent, HandleMessage, Tick, appVars
<1>6. CASE \E w \in Window : UserCloses(w) \/ \E l \in Layouts : UserMoves(w, l)
  BY <1>1, <1>6 DEF UserCloses, UserMoves, appVars
<1>7. CASE UNCHANGED vars
  BY <1>1, <1>7 DEF vars, appVars
<1>. QED  BY <1>2, <1>3, <1>4, <1>5, <1>6, <1>7 DEF Next, AppStep

Animated == Undisturbed /\ Drained /\ \E s, t : Fits(s, t)

LEMMA InitAnimated == Init => Animated
<1>. SUFFICES ASSUME Init PROVE Animated
  OBVIOUS
<1>0. Types
  BY InitTypes
<1>1. Undisturbed
  <2>1. Target(0) \in Frame
    BY FramesFacts
  <2>2. << >> \in Seq([w : Window, destroyed : {FALSE}])
    OBVIOUS
  <2>. QED  BY <2>1, <2>2 DEF Init, Undisturbed
<1>2. Drained
  BY DEF Init, Drained
<1>. PICK o, s : /\ o = [open |-> FALSE, sure |-> FALSE, at |-> Target(0), id |-> 0]
                 /\ s = [w \in Window |-> o]
  OBVIOUS
<1>3. o \in Local
  BY FramesFacts DEF Local
<1>4. s \in [Window -> Local] /\ \A w \in Window : s[w] = o
  BY <1>3
<1>5. \A w \in Window : Leads(w, batch \o requests, s[w], s[w])
  <2>1. batch \o requests = << >>
    BY DEF Init
  <2>. QED  BY <1>3, <1>4, <2>1, LeadsNone
<1>6. \A w \in Window : Present(w, s[w])
  <2>1. DOMAIN << >> = {}
    OBVIOUS
  <2>. QED  BY <1>4, <2>1 DEF Init, Present
<1>7. ASSUME NEW w \in Window PROVE Managed(w, s[w])
  <2>1. DOMAIN active.wins = {} /\ Len(animQ) = 0 /\ sent[w] = 0 /\ written[w] = Target(0)
    BY DEF Init, NoAnimation
  <2>2. Held(w, s[w]).txid = 0 /\ Held(w, s[w]).finish = Target(0)
    BY <1>4, <2>1 DEF Held
  <2>3. Ends(w, Held(w, s[w]), animQ, sent[w], written[w])
    BY <2>1, <2>2 DEF Ends
  <2>. QED  BY <1>4, <2>1, <2>3 DEF Managed
<1>8. Counted(s)
  <2>1. OpenIn(s) = {}
    BY <1>4 DEF OpenIn
  <2>. QED  BY <2>1, FS_EmptySet DEF Init, Counted
<1>9. Fits(s, s)
  BY <1>4, <1>5, <1>6, <1>7, <1>8 DEF Fits
<1>. QED  BY <1>1, <1>2, <1>9 DEF Animated

THEOREM AnimatedHolds == Spec => []Animated
<1>1. Types /\ Types' /\ Animated /\ [Next]_vars => Animated'
  <2>. SUFFICES ASSUME Types, Types', Animated, [Next]_vars PROVE Animated'
    OBVIOUS
  <2>1. PICK s, t : Fits(s, t)
    BY DEF Animated
  <2>2. Undisturbed /\ Drained
    BY DEF Animated
  <2>3. \E x, y : Fits(x, y)'
    BY <2>1, <2>2, FitsKept
  <2>4. Undisturbed' /\ Drained'
    BY <2>2, UndisturbedKept, DrainedKept
  <2>. QED  BY <2>3, <2>4 DEF Animated
<1>. QED  BY <1>1, InitAnimated, TypesInvariant, PTL DEF Spec

(* Quiet means that nothing is between what the app has of a window and    *)
(* what the manager has.                                                   *)
LEMMA QuietFits ==
  ASSUME Types, Drained, Quiet, NEW s, NEW t, Fits(s, t)
  PROVE  /\ pending = << >> /\ OpenIn(s) = {}
         /\ \A w \in Window : ~s[w].open /\ s[w].id = sent[w] /\ s[w].at = written[w]
<1>1. batch = << >> /\ pending = << >> /\ requests = << >> /\ animQ = << >>
      /\ DOMAIN active.wins = {}
  BY DEF Quiet, Drained
<1>2. ASSUME NEW w \in Window
      PROVE  ~s[w].open /\ s[w].id = sent[w] /\ s[w].at = written[w]
  <2>1. batch \o requests = << >>
    BY <1>1
  <2>2. Leads(w, batch \o requests, s[w], t[w]) /\ s[w] \in Local /\ Managed(w, t[w])
    BY DEF Fits
  <2>3. Leads(w, << >>, s[w], t[w])
    BY <2>1, <2>2
  <2>4. t[w] = s[w]
    BY <2>2, <2>3, LeadsNone
  <2>5. Held(w, s[w]).txid = s[w].id /\ Held(w, s[w]).finish = s[w].at
    BY <1>1 DEF Held
  <2>6. Ends(w, Held(w, s[w]), animQ, sent[w], written[w]) /\ ~s[w].open
    BY <1>1, <2>2, <2>4 DEF Managed
  <2>7. Len(animQ) = 0 /\ \A i \in 1..0 : FALSE
    BY <1>1
  <2>. QED  BY <2>5, <2>6, <2>7 DEF Ends
<1>. QED  BY <1>1, <1>2 DEF OpenIn

(* Once nothing is on its way no window is animated in the app's eyes: its *)
(* enhanced UI is back and its notifications are on, however animations    *)
(* were replaced, skipped or cut short by a closed window.                 *)
THEOREM AnimationsBalancedHolds == Spec => []AnimationsBalanced
<1>1. Types /\ Animated => AnimationsBalanced
  <2>. SUFFICES ASSUME Types, Animated, Quiet
                PROVE  animating = 0 /\ suspended \cap elems = {} /\ enhanced = EnhancedUi
    BY DEF AnimationsBalanced
  <2>1. PICK s, t : Fits(s, t)
    BY DEF Animated
  <2>2. OpenIn(s) = {} /\ \A w \in Window : ~s[w].open
    BY <2>1, QuietFits DEF Animated
  <2>3. animating = Cardinality({}) /\ enhanced = EnhancedUi
    BY <2>1, <2>2 DEF Fits, Counted
  <2>4. \A w \in Window : ~(w \in suspended /\ w \in elems)
    BY <2>1, <2>2 DEF Fits, Present
  <2>5. elems \subseteq Window
    BY DEF Types, AppTypes
  <2>. QED  BY <2>3, <2>4, <2>5, FS_EmptySet
<1>. QED  BY <1>1, TypesInvariant, AnimatedHolds, PTL

(* The last write wins, for any number of windows and writes, and however  *)
(* many steps an animation has.                                            *)
THEOREM LastWriteWinsHolds == Spec => []LastWriteWins
<1>1. Types /\ Animated => LastWriteWins
  <2>. SUFFICES ASSUME Types, Animated, Quiet, moves = 0 PROVE real = written
    BY DEF LastWriteWins
  <2>1. PICK s, t : Fits(s, t)
    BY DEF Animated
  <2>2. \A w \in Window : ~s[w].open /\ s[w].at = written[w]
    BY <2>1, QuietFits DEF Animated
  <2>3. \A w \in Window : real[w] = written[w]
    BY <2>1, <2>2 DEF Fits, Present
  <2>4. real \in [Window -> Frame] /\ written \in [Window -> Frame]
    BY DEF Animated, Undisturbed, Types, ReactorTypes
  <2>. QED  BY <2>3, <2>4
<1>. QED  BY <1>1, TypesInvariant, AnimatedHolds, PTL

-----------------------------------------------------------------------------
(* What the reactor will make of a window from the events q on their way:  *)
(* those it does not ignore tell it something, and the last of them what   *)
(* the frame is.                                                           *)
Tells(e, w, id) == e.w = w /\ ~e.destroyed /\ ~e.requested /\ e.txid = id

Hears(w, q, id, at, f) ==
  \/ f = at /\ \A i \in 1..Len(q) : ~Tells(q[i], w, id)
  \/ \E i \in 1..Len(q) : /\ Tells(q[i], w, id) /\ q[i].frame = at
                          /\ \A j \in 1..Len(q) : j > i => ~Tells(q[j], w, id)

LEMMA HearsPush ==
  ASSUME NEW w, NEW S, NEW q \in Seq(S), NEW e \in S, NEW id, NEW at, NEW f
  PROVE  /\ ~Tells(e, w, id) /\ Hears(w, q, id, at, f) => Hears(w, Append(q, e), id, at, f)
         /\ Tells(e, w, id) /\ e.frame = at => Hears(w, Append(q, e), id, at, f)
<1>. PICK n, p : n = Len(q) /\ p = Append(q, e)
  OBVIOUS
<1>1. n \in Nat /\ Len(p) = n + 1 /\ p[n + 1] = e /\ \A i \in 1..n : p[i] = q[i]
  OBVIOUS
<1>2. /\ \A i \in 1..n : i \in 1..(n + 1)
      /\ \A i \in 1..(n + 1) : i \in 1..n \/ i = n + 1
      /\ n + 1 \in 1..(n + 1) /\ \A i \in 1..(n + 1) : ~(i > n + 1)
  BY <1>1
<1>3. ASSUME Tells(e, w, id), e.frame = at PROVE Hears(w, p, id, at, f)
  <2>1. Tells(p[n + 1], w, id) /\ p[n + 1].frame = at /\ n + 1 \in 1..Len(p)
        /\ \A j \in 1..Len(p) : j > n + 1 => ~Tells(p[j], w, id)
    BY <1>1, <1>2, <1>3
  <2>. QED  BY <2>1 DEF Hears
<1>4. ASSUME ~Tells(e, w, id), Hears(w, q, id, at, f) PROVE Hears(w, p, id, at, f)
  <2>1. CASE f = at /\ \A i \in 1..n : ~Tells(q[i], w, id)
    <3>1. \A i \in 1..Len(p) : ~Tells(p[i], w, id)
      BY <1>1, <1>2, <1>4, <2>1
    <3>. QED  BY <2>1, <3>1 DEF Hears
  <2>2. ASSUME NEW i \in 1..n, Tells(q[i], w, id), q[i].frame = at,
               \A j \in 1..n : j > i => ~Tells(q[j], w, id)
        PROVE  Hears(w, p, id, at, f)
    <3>1. i \in 1..Len(p) /\ Tells(p[i], w, id) /\ p[i].frame = at
      BY <1>1, <1>2, <2>2
    <3>2. \A j \in 1..Len(p) : j > i => ~Tells(p[j], w, id)
      BY <1>1, <1>2, <1>4, <2>2
    <3>. QED  BY <3>1, <3>2 DEF Hears
  <2>. QED  BY <1>4, <2>1, <2>2 DEF Hears
<1>. QED  BY <1>3, <1>4

(* An event that tells something leaves its frame. *)
LEMMA HearsPop ==
  ASSUME NEW w, NEW S, NEW q \in Seq(S), q # << >>, NEW id, NEW at, NEW f, Hears(w, q, id, at, f)
  PROVE  /\ ~Tells(Head(q), w, id) => Hears(w, Tail(q), id, at, f)
         /\ Tells(Head(q), w, id) => Hears(w, Tail(q), id, at, Head(q).frame)
<1>. PICK n, p, g : /\ n = Len(q) /\ p = Tail(q)
                    /\ g = IF Tells(Head(q), w, id) THEN Head(q).frame ELSE f
  OBVIOUS
<1>1. n \in Nat /\ n # 0 /\ Len(p) = n - 1 /\ Head(q) = q[1] /\ \A i \in 1..(n - 1) : p[i] = q[i + 1]
  OBVIOUS
<1>2. /\ \A i \in 1..(n - 1) : i + 1 \in 1..n /\ i + 1 > 1
      /\ \A i \in 1..n : i # 1 => i - 1 \in 1..(n - 1) /\ (i - 1) + 1 = i
      /\ \A i \in 1..n : \A j \in 1..(n - 1) : j > i - 1 => j + 1 > i
      /\ 1 \in 1..n
  BY <1>1
<1>3. Hears(w, p, id, at, g)
  <2>1. CASE f = at /\ \A i \in 1..n : ~Tells(q[i], w, id)
    <3>1. g = at /\ \A i \in 1..Len(p) : ~Tells(p[i], w, id)
      BY <1>1, <1>2, <2>1
    <3>. QED  BY <3>1 DEF Hears
  <2>2. ASSUME NEW i \in 1..n, Tells(q[i], w, id), q[i].frame = at,
               \A j \in 1..n : j > i => ~Tells(q[j], w, id)
        PROVE  Hears(w, p, id, at, g)
    <3>1. CASE i = 1
      <4>1. g = at /\ \A j \in 1..Len(p) : ~Tells(p[j], w, id)
        BY <1>1, <1>2, <2>2, <3>1
      <4>. QED  BY <4>1 DEF Hears
    <3>2. CASE i # 1
      <4>1. i - 1 \in 1..Len(p) /\ Tells(p[i - 1], w, id) /\ p[i - 1].frame = at
        BY <1>1, <1>2, <2>2, <3>2
      <4>2. \A j \in 1..Len(p) : j > i - 1 => ~Tells(p[j], w, id)
        BY <1>1, <1>2, <2>2
      <4>. QED  BY <4>1, <4>2 DEF Hears
    <3>. QED  BY <3>1, <3>2
  <2>. QED  BY <2>1, <2>2 DEF Hears
<1>. QED  BY <1>3

-----------------------------------------------------------------------------
(* Requests that only set frames do so with growing ids. *)
Sets == [kind : {"set"}, w : Window, frame : Finals, txid : Nat]

LEMMA SetsGrow ==
  ASSUME NEW w, NEW q \in Seq(Sets), NEW a, NEW b, Leads(w, q, a, b)
  PROVE  a.id <= b.id /\ (a.id = b.id => a.at = b.at)
<1>. PICK n : n = Len(q)
  OBVIOUS
<1>1. PICK o \in [0..n -> Local] : /\ o[0] = a /\ o[n] = b
                                   /\ \A i \in 1..n : Does(w, o[i - 1], q[i], o[i])
  BY DEF Leads
<1>2. n \in Nat /\ \A i \in 1..n : q[i] \in Sets
  OBVIOUS
<1>. DEFINE P == {i \in Nat : i <= n => a.id <= o[i].id /\ (a.id = o[i].id => a.at = o[i].at)}
<1>3. \A i \in 0..n : o[i].id \in Nat
  BY DEF Local
<1>4. 0 \in P
  <2>1. 0 \in 0..n
    BY <1>2
  <2>. QED  BY <1>1, <1>3, <2>1
<1>5. ASSUME NEW i \in P PROVE i + 1 \in P
  <2>. SUFFICES ASSUME i + 1 <= n
                PROVE  a.id <= o[i + 1].id /\ (a.id = o[i + 1].id => a.at = o[i + 1].at)
    OBVIOUS
  <2>1. i \in Nat /\ i <= n /\ i + 1 \in 1..n /\ (i + 1) - 1 = i /\ i \in 0..n /\ i + 1 \in 0..n /\ 0 \in 0..n
    BY <1>2
  <2>2. a.id <= o[i].id /\ (a.id = o[i].id => a.at = o[i].at)
    BY <2>1
  <2>3. Does(w, o[(i + 1) - 1], q[i + 1], o[i + 1])
    BY <1>1, <2>1
  <2>4. o[i + 1] = o[i] \/ o[i].id < o[i + 1].id
    <3>1. q[i + 1].kind = "set"
      BY <1>2, <2>1 DEF Sets
    <3>2. Does(w, o[i], q[i + 1], o[i + 1])
      BY <2>1, <2>3
    <3>. QED  BY <3>1, <3>2 DEF Does
  <2>5. a.id \in Nat /\ o[i].id \in Nat /\ o[i + 1].id \in Nat
    BY <1>1, <1>3, <2>1
  <2>6. CASE o[i + 1] = o[i]
    BY <2>2, <2>6
  <2>7. CASE o[i].id < o[i + 1].id
    <3>1. \A x, y, z \in Nat : x <= y /\ y < z => x <= z /\ x # z
      OBVIOUS
    <3>. QED  BY <2>2, <2>5, <2>7, <3>1
  <2>. QED  BY <2>4, <2>6, <2>7
<1>6. n \in P
  <2>1. P \in SUBSET Nat
    OBVIOUS
  <2>. HIDE DEF P
  <2>. QED  BY <1>2, <1>4, <1>5, <2>1, SetInduction
<1>. QED  BY <1>1, <1>2, <1>6

-----------------------------------------------------------------------------
(* Without animations the reactor will know where a window is: it has      *)
(* written the frame that is still to be set, or it will be told of the    *)
(* frame there is.                                                         *)
Told(w) == \E i \in 1..Len(notifs) : notifs[i].w = w

Agreed(w) ==
  /\ \A i \in 1..Len(events) : events[i].w = w /\ ~events[i].destroyed => events[i].txid <= seen[w]
  /\ seen[w] # sent[w] => frame[w] = written[w]
  /\ w \in DOMAIN real /\ seen[w] = sent[w] =>
       Told(w) \/ Hears(w, events, sent[w], real[w], frame[w])

Plain ==
  /\ active = NoAnimation /\ pending = << >> /\ suspended = {}
  /\ requests \in Seq(Sets) /\ batch \in Seq(Sets)
  /\ \A i \in 1..Len(animQ) : animQ[i].skip
  /\ DOMAIN real \subseteq elems
  /\ \A i \in 1..Len(notifs) : notifs[i].destroyed => notifs[i].w \notin DOMAIN real
  /\ \A w \in elems : Agreed(w)

PlainInv == ~animate => Plain

LEMMA InitPlain == Init => PlainInv
<1>. SUFFICES ASSUME Init PROVE Plain
  BY DEF PlainInv
<1>1. << >> \in Seq(Sets) /\ Len(<< >>) = 0 /\ \A i \in 1..0 : FALSE
  OBVIOUS
<1>2. ASSUME NEW w \in elems PROVE Agreed(w)
  <2>1. events = << >> /\ seen[w] = sent[w] /\ frame[w] = real[w]
    BY <1>2 DEF Init
  <2>2. Hears(w, events, sent[w], real[w], frame[w])
    BY <1>1, <2>1 DEF Hears
  <2>. QED  BY <1>1, <2>1, <2>2 DEF Agreed
<1>. QED  BY <1>1, <1>2 DEF Init, Plain

(* The events that are left are no newer than they were. *)
LEMMA TailSeen ==
  ASSUME NEW S, events \in Seq(S), events # << >>, events' = Tail(events), seen' = seen, NEW w,
         \A i \in 1..Len(events) : events[i].w = w /\ ~events[i].destroyed => events[i].txid <= seen[w]
  PROVE  \A i \in 1..Len(events') :
           events'[i].w = w /\ ~events'[i].destroyed => events'[i].txid <= seen'[w]
<1>1. \A i \in 1..Len(events') : i + 1 \in 1..Len(events) /\ events'[i] = events[i + 1]
  OBVIOUS
<1>. QED  BY <1>1

LEMMA PlainReactor ==
  ASSUME Types, ~animate, Plain, NEW fr, NEW gl, NEW skip, NEW moved, Moves(moved, fr, gl, skip),
         UNCHANGED <<active, requests, notifs, appVars, real>>,
         events' = events \/ (events # << >> /\ events' = Tail(events)),
         \A w \in elems :
           /\ seen[w] # sent[w] => fr[w] = frame[w]
           /\ seen[w] = sent[w] /\ Hears(w, events, sent[w], real[w], frame[w]) =>
                Hears(w, events', sent[w], real[w], fr[w])
  PROVE  Plain'
<1>1. UNCHANGED <<batch, pending, suspended, elems, seen>>
  BY DEF appVars
<1>2. ASSUME NEW w \in elems PROVE Agreed(w)'
  <2>1. w \in Window /\ seen[w] \in Nat /\ seen[w] <= sent[w] /\ sent[w] \in Nat
    BY DEF Types, AppTypes, ReactorTypes, InTime
  <2>2. Agreed(w)
    BY DEF Plain
  <2>3. \A i \in 1..Len(events') :
          events'[i].w = w /\ ~events'[i].destroyed => events'[i].txid <= seen'[w]
    <3>1. \A i \in 1..Len(events) : events[i].w = w /\ ~events[i].destroyed => events[i].txid <= seen[w]
      BY <2>2 DEF Agreed
    <3>2. CASE events' = events
      BY <1>1, <3>1, <3>2
    <3>3. CASE events # << >> /\ events' = Tail(events)
      BY <1>1, <3>1, <3>3, TailSeen DEF Types, Queues
    <3>. QED  BY <3>2, <3>3
  <2>4. CASE w \in moved
    <3>1. sent'[w] = sent[w] + 1 /\ frame'[w] = written'[w]
      BY <2>1, <2>4 DEF Moves
    <3>2. seen'[w] # sent'[w]
      BY <1>1, <2>1, <3>1
    <3>. QED  BY <2>3, <3>1, <3>2 DEF Agreed
  <2>5. CASE w \notin moved
    <3>1. sent'[w] = sent[w] /\ frame'[w] = fr[w] /\ written'[w] = written[w]
      BY <2>1, <2>5 DEF Moves
    <3>2. seen'[w] # sent'[w] => frame'[w] = written'[w]
      BY <1>1, <2>2, <3>1 DEF Agreed
    <3>3. ASSUME w \in DOMAIN real', seen'[w] = sent'[w]
          PROVE  Told(w)' \/ Hears(w, events', sent'[w], real'[w], frame'[w])
      <4>1. Told(w) \/ Hears(w, events, sent[w], real[w], frame[w])
        BY <1>1, <2>2, <3>1, <3>3 DEF Agreed
      <4>. QED  BY <1>1, <3>1, <3>3, <4>1 DEF Told
    <3>. QED  BY <2>3, <3>2, <3>3 DEF Agreed
  <2>. QED  BY <2>4, <2>5
<1>3. \A i \in 1..Len(animQ') : animQ'[i].skip
  <2>1. \A i \in 1..Len(animQ) : animQ[i].skip
    BY DEF Plain
  <2>2. CASE moved = {}
    BY <2>1, <2>2 DEF Moves
  <2>3. CASE moved # {}
    <3>. PICK m : m = [skip |-> skip \/ ~animate,
                       wins |-> [v \in moved |->
                                  [finish |-> Target(gl[v]), txid |-> sent[v] + 1]]]
      OBVIOUS
    <3>1. animQ' = Append(animQ, m) /\ m.skip
      BY <2>3 DEF Moves
    <3>2. Len(animQ') = Len(animQ) + 1 /\ Len(animQ) \in Nat /\ animQ'[Len(animQ) + 1] = m
          /\ \A i \in 1..Len(animQ) : animQ'[i] = animQ[i]
      BY <3>1 DEF Types, AnimTypes
    <3>3. \A i \in 1..(Len(animQ) + 1) : i \in 1..Len(animQ) \/ i = Len(animQ) + 1
      BY <3>2
    <3>. QED  BY <2>1, <3>1, <3>2, <3>3
  <2>. QED  BY <2>2, <2>3
<1>4. /\ active' = NoAnimation /\ pending' = << >> /\ suspended' = {}
      /\ requests' \in Seq(Sets) /\ batch' \in Seq(Sets)
      /\ DOMAIN real' \subseteq elems' /\ elems' = elems
      /\ \A i \in 1..Len(notifs') : notifs'[i].destroyed => notifs'[i].w \notin DOMAIN real'
  BY <1>1 DEF Plain, NoAnimation
<1>5. \A w \in elems' : Agreed(w)'
  BY <1>2, <1>4
<1>. QED  BY <1>3, <1>4, <1>5 DEF Plain, NoAnimation

LEMMA PlainCommand ==
  ASSUME Types, ~animate, Plain, NEW l \in Layouts, NEW ws \in SUBSET Window, NEW skip \in BOOLEAN,
         Command(l, ws, skip)
  PROVE  Plain'
<1>1. UNCHANGED <<active, requests, notifs, appVars, real>> /\ events' = events
  BY DEF Command
<1>. PICK gl : gl = goal'
  OBVIOUS
<1>2. PICK moved : Moves(moved, frame, gl, skip)
  BY CommandMoves
<1>. QED  BY <1>1, <1>2, PlainReactor

LEMMA PlainEvent ==
  ASSUME Types, ~animate, Plain, HandleEvent
  PROVE  Plain'
<1>. PICK e, gl, fr : e = Head(events) /\ gl = goal' /\ fr = [frame EXCEPT ![e.w] = e.frame]
  OBVIOUS
<1>1. /\ UNCHANGED <<active, requests, notifs, appVars, real>>
      /\ events # << >> /\ events' = Tail(events) /\ events \in Seq(EventMessage)
  BY DEF HandleEvent, Types, Queues
<1>2. e \in EventMessage /\ e = events[1] /\ 1 \in 1..Len(events)
  BY <1>1, SeqOps
<1>3. frame \in [Window -> Frame] /\ elems \subseteq Window /\ e.w \in Window
  BY <1>2 DEF Types, ReactorTypes, AppTypes, EventMessage
<1>4. \A w \in elems : Hears(w, events, sent[w], real[w], frame[w]) =>
        /\ ~Tells(e, w, sent[w]) => Hears(w, events', sent[w], real[w], frame[w])
        /\ Tells(e, w, sent[w]) => Hears(w, events', sent[w], real[w], e.frame)
  BY <1>1, HearsPop
<1>5. \/ /\ ~e.destroyed
         /\ e.txid # sent[e.w] \/ e.requested \/ e.frame = frame[e.w]
         /\ UNCHANGED <<frame, sent, written, animQ>>
      \/ /\ ~e.destroyed /\ e.txid = sent[e.w] /\ ~e.requested
         /\ \E skip \in BOOLEAN : \E moved : Moves(moved, fr, gl, skip)
      \/ /\ e.destroyed /\ \E moved : Moves(moved, frame, gl, FALSE)
  BY EventMoves
<1>6. ASSUME ~e.destroyed, e.txid # sent[e.w] \/ e.requested \/ e.frame = frame[e.w],
             UNCHANGED <<frame, sent, written, animQ>>
      PROVE  Plain'
  <2>1. UNCHANGED <<batch, pending, suspended, elems, seen>>
    BY <1>1 DEF appVars
  <2>2. ASSUME NEW w \in elems PROVE Agreed(w)'
    <3>1. Agreed(w)
      BY DEF Plain
    <3>2. Hears(w, events, sent[w], real[w], frame[w]) =>
            Hears(w, events', sent[w], real[w], frame[w])
      BY <1>4, <1>6 DEF Tells
    <3>3. \A i \in 1..Len(events') :
            events'[i].w = w /\ ~events'[i].destroyed => events'[i].txid <= seen'[w]
      BY <1>1, <2>1, <3>1, TailSeen DEF Agreed
    <3>. QED  BY <1>1, <1>6, <2>1, <3>1, <3>2, <3>3 DEF Agreed, Told
  <2>. QED  BY <1>1, <1>6, <2>1, <2>2 DEF Plain, NoAnimation
<1>7. ASSUME ~e.destroyed, e.txid = sent[e.w], ~e.requested,
             NEW skip \in BOOLEAN, NEW moved, Moves(moved, fr, gl, skip)
      PROVE  Plain'
  <2>1. ASSUME NEW w \in elems
        PROVE  /\ seen[w] # sent[w] => fr[w] = frame[w]
               /\ seen[w] = sent[w] /\ Hears(w, events, sent[w], real[w], frame[w]) =>
                    Hears(w, events', sent[w], real[w], fr[w])
    <3>1. CASE w # e.w
      <4>1. fr[w] = frame[w] /\ ~Tells(e, w, sent[w])
        BY <1>3, <3>1 DEF Tells
      <4>. QED  BY <1>4, <4>1
    <3>2. CASE w = e.w
      <4>1. fr[w] = e.frame /\ Tells(e, w, sent[w])
        BY <1>3, <1>7, <3>2 DEF Tells
      <4>2. seen[w] = sent[w]
        <5>1. e.txid <= seen[w]
          BY <1>2, <1>7, <3>2 DEF Plain, Agreed
        <5>2. seen[w] \in Nat /\ sent[w] \in Nat /\ seen[w] <= sent[w]
          BY <1>3 DEF Types, AppTypes, ReactorTypes, InTime
        <5>. QED  BY <1>7, <3>2, <5>1, <5>2
      <4>. QED  BY <1>4, <4>1, <4>2
    <3>. QED  BY <3>1, <3>2
  <2>. QED  BY <1>1, <1>7, <2>1, PlainReactor
<1>8. ASSUME e.destroyed, NEW moved, Moves(moved, frame, gl, FALSE)
      PROVE  Plain'
  <2>1. \A w \in elems : ~Tells(e, w, sent[w])
    BY <1>8 DEF Tells
  <2>2. \A w \in elems : /\ seen[w] # sent[w] => frame[w] = frame[w]
                         /\ seen[w] = sent[w] /\ Hears(w, events, sent[w], real[w], frame[w]) =>
                              Hears(w, events', sent[w], real[w], frame[w])
    BY <1>4, <2>1
  <2>. QED  BY <1>1, <1>8, <2>2, PlainReactor
<1>. QED  BY <1>5, <1>6, <1>7, <1>8

(* What a notice, or an event, more or less leaves of the others. *)
LEMMA AppendTells ==
  ASSUME NEW S, NEW q \in Seq(S), NEW e \in S, NEW p, p = Append(q, e)
  PROVE  /\ \A w : (\E i \in 1..Len(q) : q[i].w = w) => \E i \in 1..Len(p) : p[i].w = w
         /\ \E i \in 1..Len(p) : p[i].w = e.w
         /\ \A i \in 1..Len(p) : p[i] = e \/ \E j \in 1..Len(q) : p[i] = q[j]
<1>. PICK n : n = Len(q)
  OBVIOUS
<1>1. n \in Nat /\ Len(p) = n + 1 /\ p[n + 1] = e /\ \A i \in 1..n : p[i] = q[i]
  OBVIOUS
<1>2. /\ \A i \in 1..n : i \in 1..(n + 1)
      /\ \A i \in 1..(n + 1) : i \in 1..n \/ i = n + 1
      /\ n + 1 \in 1..(n + 1)
  BY <1>1
<1>. QED  BY <1>1, <1>2

LEMMA TailTells ==
  ASSUME NEW S, NEW q \in Seq(S), q # << >>
  PROVE  /\ \A w : w # Head(q).w /\ (\E i \in 1..Len(q) : q[i].w = w) =>
                     \E i \in 1..Len(Tail(q)) : Tail(q)[i].w = w
         /\ \A i \in 1..Len(Tail(q)) : \E j \in 1..Len(q) : Tail(q)[i] = q[j]
<1>. PICK n, p : n = Len(q) /\ p = Tail(q)
  OBVIOUS
<1>1. n \in Nat /\ n # 0 /\ Len(p) = n - 1 /\ Head(q) = q[1] /\ \A i \in 1..(n - 1) : p[i] = q[i + 1]
  OBVIOUS
<1>2. /\ \A i \in 1..(n - 1) : i + 1 \in 1..n
      /\ \A i \in 1..n : i # 1 => i - 1 \in 1..(n - 1) /\ (i - 1) + 1 = i
  BY <1>1
<1>3. \A i \in 1..(n - 1) : \E j \in 1..n : p[i] = q[j]
  BY <1>1, <1>2
<1>4. ASSUME NEW w, w # Head(q).w, NEW i \in 1..n, q[i].w = w
      PROVE  \E j \in 1..(n - 1) : p[j].w = w
  <2>1. i # 1
    BY <1>1, <1>4
  <2>2. i - 1 \in 1..(n - 1) /\ p[i - 1] = q[i]
    BY <1>1, <1>2, <2>1
  <2>. QED  BY <1>4, <2>2
<1>. QED  BY <1>1, <1>3, <1>4

LEMMA ForEachSmall ==
  ASSUME NEW S
  PROVE  /\ \A f \in [{} -> Seq(S)] : ForEach(f) = << >>
         /\ \A w : \A f \in [{w} -> Seq(S)] : ForEach(f) = f[w]
<1>1. ASSUME NEW f \in [{} -> Seq(S)] PROVE ForEach(f) = << >>
  <2>. PICK q : q = SetToSeq({})
    OBVIOUS
  <2>1. IsFiniteSet({}) /\ Cardinality({}) = 0
    BY FS_EmptySet
  <2>2. q \in [1..0 -> {}]
    BY <2>1, SetToSeqLists
  <2>. PICK ss : ss = [i \in DOMAIN q |-> f[q[i]]]
    OBVIOUS
  <2>3. ss \in [1..0 -> Seq(S)]
    BY <2>2
  <2>4. PICK h : Flattening(ss, 0, S, h)
    BY <2>3, FlattenParts
  <2>5. ForEach(f) = FlattenSeq(ss)
    BY DEF ForEach
  <2>. QED  BY <2>4, <2>5 DEF Flattening
<1>2. ASSUME NEW w, NEW f \in [{w} -> Seq(S)] PROVE ForEach(f) = f[w]
  <2>. PICK q : q = SetToSeq({w})
    OBVIOUS
  <2>1. IsFiniteSet({w}) /\ Cardinality({w}) = 1
    BY FS_Singleton
  <2>2. q \in [1..1 -> {w}]
    BY <2>1, SetToSeqLists
  <2>. PICK ss : ss = [i \in DOMAIN q |-> f[q[i]]]
    OBVIOUS
  <2>3. ss \in [1..1 -> Seq(S)] /\ ss[1] = f[w] /\ 1 \in 1..1
    BY <2>2
  <2>4. PICK h : Flattening(ss, 1, S, h)
    BY <2>3, FlattenParts
  <2>5. h[1] = h[0] \o ss[1] /\ h[0] = << >> /\ h[1] = FlattenSeq(ss)
    <3>1. /\ h[0] = << >> /\ h[1] = FlattenSeq(ss)
          /\ \A i \in 1..1 : h[i] = h[i - 1] \o ss[i]
      BY <2>4 DEF Flattening
    <3>2. h[1] = h[1 - 1] \o ss[1]
      BY <2>3, <3>1
    <3>3. 1 - 1 = 0
      OBVIOUS
    <3>. QED  BY <3>1, <3>2, <3>3
  <2>6. ForEach(f) = FlattenSeq(ss)
    BY DEF ForEach
  <2>7. << >> \o f[w] = f[w]
    BY ConcatEmptySeq
  <2>. QED  BY <2>3, <2>5, <2>6, <2>7
<1>. QED  BY <1>1, <1>2

(* A window that moves is told of. *)
LEMMA NotifyOne ==
  ASSUME notifs \in Seq(Notification), suspended = {}, NEW w \in Window, NEW old, NEW new,
         w \in DOMAIN new, Notify(old, new, {w})
  PROVE  \/ new[w] = old[w] /\ notifs' = notifs
         \/ notifs' = Append(notifs, [w |-> w, destroyed |-> FALSE])
<1>. PICK changed, f : /\ changed = {v \in {w} \cap DOMAIN new : old[v] # new[v]} \ suspended
                       /\ f = [v \in changed |-> <<[w |-> v, destroyed |-> FALSE]>>]
  OBVIOUS
<1>. PICK n : n = [w |-> w, destroyed |-> FALSE]
  OBVIOUS
<1>1. notifs' = notifs \o ForEach(f)
  BY DEF Notify
<1>2. CASE new[w] = old[w]
  <2>1. changed = {}
    BY <1>2
  <2>2. f \in [{} -> Seq(Notification)]
    BY <2>1
  <2>3. ForEach(f) = << >> /\ notifs \o << >> = notifs
    BY <2>2, ForEachSmall, ConcatEmptySeq
  <2>. QED  BY <1>1, <1>2, <2>3
<1>3. CASE new[w] # old[w]
  <2>1. changed = {w}
    BY <1>3
  <2>2. n \in Notification /\ <<n>> \in Seq(Notification)
    BY DEF Notification
  <2>3. f \in [{w} -> Seq(Notification)] /\ f[w] = <<n>>
    BY <2>1, <2>2
  <2>4. ForEach(f) = <<n>>
    BY <2>3, ForEachSmall
  <2>5. notifs \o <<n>> = Append(notifs, n)
    BY <2>2, AppendIsConcat
  <2>. QED  BY <1>1, <2>4, <2>5
<1>. QED  BY <1>2, <1>3

(* Of a window to which nothing happens the reactor will know no less. *)
LEMMA AgreedKept ==
  ASSUME NEW w, Agreed(w), events \in Seq(EventMessage),
         \/ events' = events
         \/ \E e \in EventMessage : e.w # w /\ events' = Append(events, e),
         seen'[w] = seen[w], sent' = sent, frame' = frame, written' = written,
         w \in DOMAIN real' => /\ w \in DOMAIN real /\ real'[w] = real[w]
                               /\ Told(w) => Told(w)'
  PROVE  Agreed(w)'
<1>1. /\ \A i \in 1..Len(events) : events[i].w = w /\ ~events[i].destroyed => events[i].txid <= seen[w]
      /\ seen[w] # sent[w] => frame[w] = written[w]
      /\ w \in DOMAIN real /\ seen[w] = sent[w] =>
           Told(w) \/ Hears(w, events, sent[w], real[w], frame[w])
  BY DEF Agreed
<1>2. CASE events' = events
  BY <1>1, <1>2 DEF Agreed
<1>3. ASSUME NEW e \in EventMessage, e.w # w, events' = Append(events, e)
      PROVE  Agreed(w)'
  <2>1. \A i \in 1..Len(events') : events'[i] = e \/ \E j \in 1..Len(events) : events'[i] = events[j]
    BY <1>3, AppendTells
  <2>2. \A i \in 1..Len(events') :
          events'[i].w = w /\ ~events'[i].destroyed => events'[i].txid <= seen'[w]
    BY <1>1, <1>3, <2>1
  <2>3. ~Tells(e, w, sent[w])
    BY <1>3 DEF Tells
  <2>4. Hears(w, events, sent[w], real[w], frame[w]) =>
          Hears(w, events', sent[w], real[w], frame[w])
    BY <1>3, <2>3, HearsPush
  <2>. QED  BY <1>1, <2>2, <2>4 DEF Agreed
<1>. QED  BY <1>2, <1>3

LEMMA PlainManager ==
  ASSUME Types, Plain, HandleMessage
  PROVE  Plain'
<1>. PICK m : m = Head(animQ)
  OBVIOUS
<1>1. /\ animQ # << >> /\ animQ' = Tail(animQ) /\ animQ \in Seq(Message)
      /\ UNCHANGED <<reactorVars, events, notifs, appVars, real>>
  BY DEF HandleMessage, Types, AnimTypes
<1>2. m \in Message /\ m.skip
  <2>1. m = animQ[1] /\ 1 \in 1..Len(animQ) /\ m \in Message
    BY <1>1, SeqOps
  <2>. QED  BY <2>1 DEF Plain
<1>. PICK wins, ws : wins = m.wins /\ ws = DOMAIN wins
  OBVIOUS
<1>3. ws \subseteq Window /\ \A w \in ws : wins[w] \in Write
  BY <1>2 DEF Message, IsWrites
<1>4. SkipToEnd(wins)
  BY <1>2 DEF HandleMessage
<1>. PICK f : f = [w \in ws |-> <<SetFrame(w, wins[w])>>]
  OBVIOUS
<1>5. ASSUME NEW w \in ws PROVE <<SetFrame(w, wins[w])>> \in Seq(Sets)
  <2>1. SetFrame(w, wins[w]) \in Sets
    BY <1>3 DEF SetFrame, Sets, Write
  <2>. QED  BY <2>1, OneAndTwo
<1>6. f \in [ws -> Seq(Sets)]
  BY <1>5
<1>7. ForEach(f) \in Seq(Sets)
  BY <1>3, <1>6, ForEachOne
<1>8. FinishAll(active.wins) \in Seq(Sets)
  <2>1. active.wins = << >>
    BY DEF Plain, NoAnimation
  <2>. PICK g : g = [w \in DOMAIN active.wins |->
                       <<AnimationFrame(w, active.wins[w], Frames), End(w)>>]
    OBVIOUS
  <2>2. g \in [{} -> Seq(Sets)]
    BY <2>1
  <2>3. ForEach(g) = << >>
    BY <2>2, ForEachSmall
  <2>4. << >> \in Seq(Sets)
    OBVIOUS
  <2>. QED  BY <2>3, <2>4 DEF FinishAll
<1>9. requests' = requests \o (FinishAll(active.wins) \o ForEach(f)) /\ active' = NoAnimation
  BY <1>4 DEF SkipToEnd, Send
<1>10. requests' \in Seq(Sets)
  BY <1>7, <1>8, <1>9, SeqOps DEF Plain
<1>11. \A i \in 1..Len(animQ') : animQ'[i].skip
  <2>1. \A i \in 1..Len(animQ') : i + 1 \in 1..Len(animQ) /\ animQ'[i] = animQ[i + 1]
    BY <1>1
  <2>. QED  BY <2>1 DEF Plain
<1>12. \A w \in elems' : Agreed(w)'
  BY <1>1 DEF Plain, Agreed, Told, Hears, Tells, reactorVars, appVars
<1>. QED  BY <1>1, <1>9, <1>10, <1>11, <1>12 DEF Plain, NoAnimation, appVars

(* The first of them sets an id and a frame that only a newer one replaces. *)
LEMMA SetFirst ==
  ASSUME NEW w, NEW q \in Seq(Sets), q # << >>, Head(q).w = w, NEW a, NEW b, Leads(w, q, a, b)
  PROVE  /\ a.id < Head(q).txid /\ Head(q).txid <= b.id
         /\ Head(q).txid = b.id => Head(q).frame = b.at
<1>1. PICK u \in Local : Does(w, a, Head(q), u) /\ Leads(w, Tail(q), u, b)
  BY LeadsHead
<1>2. Head(q) \in Sets /\ Tail(q) \in Seq(Sets)
  BY SeqOps
<1>3. Head(q).kind = "set"
  BY <1>2 DEF Sets
<1>4. u.id = Head(q).txid /\ u.at = Head(q).frame /\ a.id < Head(q).txid
  BY <1>1, <1>3 DEF Does
<1>5. u.id <= b.id /\ (u.id = b.id => u.at = b.at)
  <2>1. PICK p : p = Tail(q)
    OBVIOUS
  <2>2. p \in Seq(Sets)
    BY <1>2, <2>1
  <2>3. Leads(w, p, u, b)
    BY <1>1, <2>1
  <2>. QED  BY <2>2, <2>3, SetsGrow
<1>. QED  BY <1>4, <1>5

(* A set that is the last one sent has the frame written last. *)
LEMMA LastSet ==
  ASSUME Types, Plain, NEW s, NEW t, Fits(s, t), batch # << >>, NEW r, r = Head(batch)
  PROVE  /\ r \in Sets /\ r.w \in Window /\ s[r.w].id < r.txid
         /\ r.txid = sent[r.w] => r.frame = written[r.w]
<1>. PICK p, w : p = batch \o requests /\ w = r.w
  OBVIOUS
<1>1. r \in Sets /\ p \in Seq(Sets) /\ p # << >> /\ Head(p) = r /\ Tail(p) \in Seq(Sets)
  <2>1. batch \in Seq(Sets) /\ requests \in Seq(Sets)
    BY DEF Plain
  <2>2. r \in Sets /\ p \in Seq(Sets)
    BY <2>1, SeqOps
  <2>3. p # << >> /\ Head(p) = r
    BY <2>1
  <2>. QED  BY <2>2, <2>3, SeqOps
<1>2. w \in Window /\ r.kind = "set" /\ r.txid \in Nat
  BY <1>1 DEF Sets
<1>3. Leads(w, p, s[w], t[w]) /\ s[w] \in Local /\ t[w] \in Local /\ Managed(w, t[w])
  BY <1>2 DEF Fits
<1>4. s[w].id < r.txid /\ r.txid <= t[w].id /\ (r.txid = t[w].id => r.frame = t[w].at)
  <2>1. PICK b, v : b = t[w] /\ v = s[w]
    OBVIOUS
  <2>2. p \in Seq(Sets) /\ p # << >> /\ Head(p).w = w
    BY <1>1
  <2>3. Leads(w, p, v, b)
    BY <1>3, <2>1
  <2>4. /\ v.id < Head(p).txid /\ Head(p).txid <= b.id
        /\ Head(p).txid = b.id => Head(p).frame = b.at
    BY <2>2, <2>3, SetFirst
  <2>. QED  BY <1>1, <2>1, <2>4
<1>7. ASSUME r.txid = sent[w] PROVE r.frame = written[w]
  <2>1. /\ t[w].id <= sent[w] /\ sent[w] \in Nat
        /\ \A i \in 1..Len(animQ) :
             w \in DOMAIN animQ[i].wins => InTime(w, animQ[i].wins[w].txid)
    BY <1>2, <1>3, HeldInTime
  <2>2. t[w].id \in Nat
    BY <1>3 DEF Local
  <2>3. t[w].id = sent[w] /\ t[w].at = r.frame
    BY <1>2, <1>4, <1>7, <2>1, <2>2
  <2>. PICK h : h = Held(w, t[w])
    OBVIOUS
  <2>4. h.txid = sent[w] /\ h.finish = r.frame
    BY <2>3 DEF Held, Plain, NoAnimation
  <2>5. Ends(w, h, animQ, sent[w], written[w])
    BY <1>3 DEF Managed
  <2>6. \A i \in 1..Len(animQ) : w \notin DOMAIN animQ[i].wins
    <3>. SUFFICES ASSUME NEW i \in 1..Len(animQ), w \in DOMAIN animQ[i].wins PROVE FALSE
      OBVIOUS
    <3>1. h.txid < animQ[i].wins[w].txid
      BY <2>5 DEF Ends
    <3>2. animQ[i].wins[w].txid \in Nat /\ animQ[i].wins[w].txid <= sent[w]
      BY <2>1 DEF InTime
    <3>. QED  BY <2>1, <2>4, <3>1, <3>2
  <2>. QED  BY <2>4, <2>5, <2>6 DEF Ends
<1>. QED  BY <1>1, <1>2, <1>4, <1>7

LEMMA PlainRequest ==
  ASSUME Types, Types', Plain, NEW s, NEW t, Fits(s, t), HandleRequest
  PROVE  Plain'
<1>. PICK r : r = Head(batch)
  OBVIOUS
<1>1. /\ r \in Sets /\ r.w \in Window /\ s[r.w].id < r.txid
      /\ r.txid = sent[r.w] => r.frame = written[r.w]
      /\ batch # << >> /\ batch' = Tail(batch)
      /\ UNCHANGED <<active, animQ, requests, sent, frame, written>>
  <2>1. batch # << >> /\ batch' = Tail(batch) /\ UNCHANGED <<reactorVars, animVars, requests>>
    BY DEF HandleRequest
  <2>. QED  BY <2>1, LastSet DEF reactorVars, animVars
<1>2. r.kind = "set" /\ r.txid \in Nat
  BY <1>1 DEF Sets
<1>3. HandleSetWindowFrame(r)
  BY <1>2 DEF HandleRequest
<1>4. UNCHANGED <<elems, pending, suspended>>
  BY <1>3 DEF HandleSetWindowFrame
<1>5. batch' \in Seq(Sets) /\ requests' \in Seq(Sets)
  <2>1. batch \in Seq(Sets) /\ requests' = requests /\ requests \in Seq(Sets)
    BY <1>1 DEF Plain
  <2>. QED  BY <1>1, <2>1, SeqOps
<1>6. /\ events \in Seq(EventMessage) /\ notifs \in Seq(Notification) /\ seen \in [Window -> Nat]
      /\ elems \subseteq Window /\ sent \in [Window -> Nat]
  BY DEF Types, AppTypes, ReactorTypes, Queues
<1>7. SUFFICES /\ DOMAIN real' = DOMAIN real
               /\ \A i \in 1..Len(notifs') : notifs'[i].destroyed => notifs'[i].w \notin DOMAIN real
               /\ \A w \in elems : Agreed(w)'
  BY <1>1, <1>4, <1>5, <1>7 DEF Plain, NoAnimation
<1>8. /\ \A i \in 1..Len(notifs) : notifs[i].destroyed => notifs[i].w \notin DOMAIN real
      /\ \A w \in elems : Agreed(w)
  BY DEF Plain
<1>9. CASE r.w \notin elems
  <2>1. UNCHANGED <<seen, real, notifs, events>>
    BY <1>3, <1>9 DEF HandleSetWindowFrame
  <2>2. \A w \in elems : Agreed(w)'
    BY <1>1, <1>6, <1>8, <2>1, AgreedKept DEF Told
  <2>. QED  BY <1>8, <2>1, <2>2
<1>10. CASE r.w \in elems
  <2>. PICK v : v = r.w
    OBVIOUS
  <2>1. seen' = [seen EXCEPT ![v] = r.txid]
    BY <1>3, <1>10 DEF HandleSetWindowFrame
  <2>2. seen[v] < r.txid /\ r.txid <= sent[v] /\ seen'[v] = r.txid
    <3>1. Present(v, s[v]) /\ DOMAIN pending = {}
      BY <1>1 DEF Fits, Plain
    <3>2. seen[v] = s[v].id
      BY <1>10, <3>1 DEF Present
    <3>3. seen'[v] = r.txid
      BY <1>1, <1>6, <2>1
    <3>4. InTime(v, seen[v])'
      BY <1>1 DEF Types, AppTypes
    <3>. QED  BY <1>1, <3>2, <3>3, <3>4 DEF InTime
  <2>3. frame[v] = written[v]
    <3>1. seen[v] # sent[v]
      BY <1>1, <1>2, <1>6, <2>2
    <3>. QED  BY <1>8, <1>10, <3>1 DEF Agreed
  <2>4. \A i \in 1..Len(events) :
          events[i].w = v /\ ~events[i].destroyed =>
            events[i].txid <= r.txid /\ events[i].txid # r.txid
    <3>. SUFFICES ASSUME NEW i \in 1..Len(events), events[i].w = v, ~events[i].destroyed
                  PROVE  events[i].txid <= r.txid /\ events[i].txid # r.txid
      OBVIOUS
    <3>0. ~events[i].destroyed
      OBVIOUS
    <3>1. events[i].txid <= seen[v]
      BY <1>8, <1>10 DEF Agreed
    <3>2. events[i].txid \in Nat
      <4>1. events[i] \in EventMessage
        BY <1>6
      <4>. QED  BY <3>0, <4>1 DEF EventMessage, InTime
    <3>. QED  BY <1>1, <1>2, <1>6, <2>2, <3>1, <3>2
  <2>5. CASE ~Exists(v)
    <3>1. UNCHANGED <<real, notifs, events>>
      BY <1>3, <1>10, <2>5 DEF HandleSetWindowFrame
    <3>2. ASSUME NEW w \in elems, w # v PROVE Agreed(w)'
      <4>1. seen'[w] = seen[w]
        BY <1>6, <2>1, <3>2
      <4>. QED  BY <1>1, <1>6, <1>8, <3>1, <3>2, <4>1, AgreedKept DEF Told
    <3>3. Agreed(v)'
      BY <1>1, <2>2, <2>3, <2>4, <2>5, <3>1 DEF Agreed, Exists
    <3>. QED  BY <1>8, <3>1, <3>2, <3>3
  <2>6. CASE Exists(v)
    <3>. PICK e : e = FrameRead(v, r.frame, r.txid, TRUE)
      OBVIOUS
    <3>1. real' = [real EXCEPT ![v] = r.frame] /\ Notify(real, real', {v})
          /\ events' = Append(events, e)
      BY <1>3, <1>10, <2>6 DEF HandleSetWindowFrame
    <3>2. e \in EventMessage /\ e.w = v /\ e.requested /\ e.txid = r.txid
      <4>1. events' \in Seq(EventMessage') /\ EventMessage' = EventMessage
        BY <1>1 DEF Types, Queues, EventMessage, InTime
      <4>2. e \in EventMessage
        BY <1>6, <3>1, <4>1, LastType
      <4>. QED  BY <4>2 DEF FrameRead
    <3>3. DOMAIN real' = DOMAIN real /\ v \in DOMAIN real
      BY <2>6, <3>1 DEF Exists
    <3>. PICK n : n = [w |-> v, destroyed |-> FALSE]
      OBVIOUS
    <3>4. n \in Notification /\ (notifs' = notifs \/ notifs' = Append(notifs, n))
      <4>1. n \in Notification
        BY <1>1 DEF Notification
      <4>2. suspended = {} /\ v \in DOMAIN real'
        BY <3>3 DEF Plain
      <4>. QED  BY <1>1, <1>6, <3>1, <4>1, <4>2, NotifyOne
    <3>5. \A w : Told(w) => Told(w)'
      BY <1>6, <3>4, AppendTells DEF Told
    <3>6. \A i \in 1..Len(notifs') : notifs'[i].destroyed => notifs'[i].w \notin DOMAIN real
      <4>1. CASE notifs' = notifs
        BY <1>8, <4>1
      <4>2. CASE notifs' = Append(notifs, n)
        <5>1. \A i \in 1..Len(notifs') :
                notifs'[i] = n \/ \E j \in 1..Len(notifs) : notifs'[i] = notifs[j]
          BY <1>6, <3>4, <4>2, AppendTells
        <5>. QED  BY <1>8, <5>1
      <4>. QED  BY <3>4, <4>1, <4>2
    <3>7. ASSUME NEW w \in elems, w # v PROVE Agreed(w)'
      <4>1. seen'[w] = seen[w] /\ (w \in DOMAIN real' => w \in DOMAIN real /\ real'[w] = real[w])
        BY <1>6, <2>1, <3>1, <3>7
      <4>. QED  BY <1>1, <1>6, <1>8, <3>1, <3>2, <3>5, <3>7, <4>1, AgreedKept
    <3>8. Agreed(v)'
      <4>0. events' = Append(events, e)
        BY <3>1
      <4>1. \A i \in 1..Len(events') : events'[i] = e \/ \E j \in 1..Len(events) : events'[i] = events[j]
        <5>1. PICK q, p : q = events /\ p = events'
          OBVIOUS
        <5>2. PICK m : m = e
          OBVIOUS
        <5>3. q \in Seq(EventMessage)
          BY <1>6, <5>1
        <5>4. m \in EventMessage
          BY <3>2, <5>2
        <5>5. p = Append(q, m)
          BY <4>0, <5>1, <5>2
        <5>6. \A i \in 1..Len(p) : p[i] = m \/ \E j \in 1..Len(q) : p[i] = q[j]
          BY <5>3, <5>4, <5>5, AppendTells
        <5>. QED  BY <5>1, <5>2, <5>6
      <4>2. \A i \in 1..Len(events') :
              events'[i].w = v /\ ~events'[i].destroyed => events'[i].txid <= seen'[v]
        <5>1. r.txid <= r.txid
          BY <1>2
        <5>2. e.txid <= r.txid
          BY <3>2, <5>1
        <5>. QED  BY <2>2, <2>4, <4>1, <5>2
      <4>3. \A i \in 1..Len(events') : ~Tells(events'[i], v, r.txid)
        BY <2>4, <3>2, <4>1 DEF Tells
      <4>4. real'[v] = r.frame
        BY <3>1, <3>3
      <4>5. ASSUME seen'[v] = sent'[v] PROVE Hears(v, events', sent'[v], real'[v], frame'[v])
        <5>1. sent'[v] = r.txid /\ frame'[v] = r.frame
          BY <1>1, <2>2, <2>3, <4>5
        <5>. QED  BY <4>3, <4>4, <5>1 DEF Hears
      <4>6. frame'[v] = written'[v]
        BY <1>1, <2>3
      <4>. QED  BY <4>2, <4>5, <4>6 DEF Agreed
    <3>. QED  BY <3>3, <3>6, <3>7, <3>8
  <2>. QED  BY <2>5, <2>6
<1>. QED  BY <1>9, <1>10

(* A batch ends without anything to flush. *)
LEMMA PlainFlush ==
  ASSUME Types, Plain, FlushAll
  PROVE  Plain'
<1>1. /\ UNCHANGED <<active, animQ, requests, batch, events, sent, frame, written, elems, suspended>>
      /\ pending' = << >> /\ real' = Flushed(Window) /\ seen' = FlushedSeen(Window)
      /\ Notify(real, real', Window)
  BY DEF FlushAll, animVars, reactorVars
<1>2. DOMAIN pending = {}
  BY DEF Plain
<1>3. DOMAIN real' = DOMAIN real /\ \A w \in DOMAIN real : real'[w] = real[w]
  BY <1>1, <1>2 DEF Flushed
<1>4. \A w \in Window : seen'[w] = seen[w]
  BY <1>1, <1>2 DEF FlushedSeen
<1>5. notifs' = notifs
  <2>1. PICK changed : changed = {w \in Window \cap DOMAIN real' : real[w] # real'[w]} \ suspended
    OBVIOUS
  <2>2. PICK f : f = [w \in changed |-> <<[w |-> w, destroyed |-> FALSE]>>]
    OBVIOUS
  <2>3. notifs' = notifs \o ForEach(f)
    BY <1>1, <2>1, <2>2 DEF Notify
  <2>4. changed = {}
    BY <1>3, <2>1
  <2>5. f \in [{} -> Seq(Notification)]
    BY <2>2, <2>4
  <2>6. ForEach(f) = << >>
    BY <2>5, ForEachSmall
  <2>7. notifs \in Seq(Notification)
    BY DEF Types, Queues
  <2>8. notifs \o << >> = notifs
    BY <2>7, ConcatEmptySeq
  <2>. QED  BY <2>3, <2>6, <2>8
<1>6. ASSUME NEW w \in elems PROVE Agreed(w)'
  <2>1. Agreed(w) /\ events \in Seq(EventMessage) /\ w \in Window
    BY DEF Plain, Types, Queues, AppTypes
  <2>. QED  BY <1>1, <1>3, <1>4, <1>5, <2>1, AgreedKept DEF Told
<1>. QED  BY <1>1, <1>3, <1>5, <1>6 DEF Plain, NoAnimation

(* A notice is handled: the frame is read as it is now, with the last id.  *)
LEMMA PlainNotification ==
  ASSUME Types, Types', Plain, HandleNotification
  PROVE  Plain'
<1>1. PICK n : n = Head(notifs)
  OBVIOUS
<1>2. /\ UNCHANGED <<active, animQ, requests, batch, sent, frame, written, seen, real, pending,
                     suspended>>
      /\ notifs # << >> /\ notifs' = Tail(notifs) /\ notifs \in Seq(Notification)
      /\ events \in Seq(EventMessage) /\ elems \subseteq Window
  BY DEF HandleNotification, animVars, reactorVars, Types, Queues, AppTypes
<1>3. /\ \A i \in 1..Len(notifs) : notifs[i].destroyed => notifs[i].w \notin DOMAIN real
      /\ DOMAIN real \subseteq elems /\ \A w \in elems : Agreed(w)
  BY DEF Plain
<1>4. /\ \A w : w # n.w /\ Told(w) => Told(w)'
      /\ \A i \in 1..Len(notifs') : notifs'[i].destroyed => notifs'[i].w \notin DOMAIN real
  <2>1. PICK q, p : q = notifs /\ p = Tail(q)
    OBVIOUS
  <2>2. q \in Seq(Notification) /\ q # << >>
    BY <1>2, <2>1
  <2>3. /\ \A w : w # Head(q).w /\ (\E i \in 1..Len(q) : q[i].w = w) =>
                    \E i \in 1..Len(Tail(q)) : Tail(q)[i].w = w
        /\ \A i \in 1..Len(Tail(q)) : \E j \in 1..Len(q) : Tail(q)[i] = q[j]
    BY <2>2, TailTells
  <2>4. notifs' = Tail(q) /\ n = Head(q)
    BY <1>1, <1>2, <2>1
  <2>5. \A w : w # n.w /\ Told(w) => Told(w)'
    BY <2>1, <2>3, <2>4 DEF Told
  <2>6. \A i \in 1..Len(notifs') : notifs'[i].destroyed => notifs'[i].w \notin DOMAIN real
    BY <1>3, <2>1, <2>3, <2>4
  <2>. QED  BY <2>5, <2>6
<1>5. n \in Notification /\ n = notifs[1] /\ 1 \in 1..Len(notifs)
  <2>1. n \in Notification
    BY <1>1, <1>2, SeqOps
  <2>2. n = notifs[1] /\ 1 \in 1..Len(notifs)
    BY <1>1, <1>2
  <2>. QED  BY <2>1, <2>2
<1>6. SUFFICES /\ elems' \subseteq elems /\ DOMAIN real \subseteq elems'
               /\ \A w \in elems' : Agreed(w)'
  BY <1>2, <1>4, <1>6 DEF Plain, NoAnimation
<1>7. CASE n.destroyed
  <2>1. /\ elems' = elems \ {n.w}
        /\ events' = IF n.w \in elems THEN Append(events, Destroyed(n.w)) ELSE events
    BY <1>1, <1>7 DEF HandleNotification
  <2>2. n.w \notin DOMAIN real
    BY <1>3, <1>5, <1>7
  <2>3. PICK e : e = Destroyed(n.w)
    OBVIOUS
  <2>4. e \in EventMessage /\ e.w = n.w
    BY <1>5, <2>3 DEF Destroyed, EventMessage, Notification
  <2>5. ASSUME NEW w \in elems' PROVE Agreed(w)'
    <3>1. w # n.w /\ w \in elems
      BY <2>1
    <3>2. \/ events' = events
          \/ \E x \in EventMessage : x.w # w /\ events' = Append(events, x)
      BY <2>1, <2>3, <2>4, <3>1
    <3>. QED  BY <1>2, <1>3, <1>4, <3>1, <3>2, AgreedKept
  <2>. QED  BY <1>3, <2>1, <2>2, <2>5
<1>8. CASE ~n.destroyed
  <2>1. /\ elems' = elems
        /\ events' = IF n.w \in elems /\ Exists(n.w)
                     THEN Append(events, FrameRead(n.w, real[n.w], seen[n.w], FALSE)) ELSE events
    BY <1>1, <1>8 DEF HandleNotification
  <2>2. CASE ~(n.w \in elems /\ Exists(n.w))
    <3>1. events' = events
      BY <2>1, <2>2
    <3>2. ASSUME NEW w \in elems PROVE Agreed(w)'
      <4>1. w \in DOMAIN real => w # n.w
        BY <2>2, <3>2 DEF Exists
      <4>2. w \in DOMAIN real' => w \in DOMAIN real /\ real'[w] = real[w] /\ (Told(w) => Told(w)')
        BY <1>2, <1>4, <4>1
      <4>. QED  BY <1>2, <1>3, <3>1, <4>2, AgreedKept
    <3>. QED  BY <1>3, <2>1, <3>2
  <2>3. CASE n.w \in elems /\ Exists(n.w)
    <3>1. PICK v : v = n.w
      OBVIOUS
    <3>2. PICK e : e = FrameRead(v, real[v], seen[v], FALSE)
      OBVIOUS
    <3>3. events' = Append(events, e) /\ v \in elems /\ v \in DOMAIN real
      BY <2>1, <2>3, <3>1, <3>2 DEF Exists
    <3>4. /\ e \in EventMessage
          /\ e.w = v /\ e.frame = real[v] /\ e.txid = seen[v] /\ ~e.requested /\ ~e.destroyed
      <4>1. v \in Window /\ real[v] \in Frame /\ InTime(v, seen[v])
        BY <1>2, <3>3 DEF Types, AppTypes
      <4>2. e \in EventMessage
        BY <3>2, <4>1, ReadType
      <4>. QED  BY <3>2, <4>2 DEF FrameRead
    <3>5. ASSUME NEW w \in elems, w # v PROVE Agreed(w)'
      <4>1. \E x \in EventMessage : x.w # w /\ events' = Append(events, x)
        BY <3>3, <3>4, <3>5
      <4>2. w # n.w
        BY <3>1, <3>5
      <4>. QED  BY <1>2, <1>3, <1>4, <4>1, <4>2, AgreedKept
    <3>6. Agreed(v)'
      <4>1. /\ \A i \in 1..Len(events) :
                 events[i].w = v /\ ~events[i].destroyed => events[i].txid <= seen[v]
            /\ seen[v] # sent[v] => frame[v] = written[v]
        BY <1>3, <3>3 DEF Agreed
      <4>2. \A i \in 1..Len(events') : events'[i] = e \/ \E j \in 1..Len(events) : events'[i] = events[j]
        <5>1. PICK q, p : q = events /\ p = events'
          OBVIOUS
        <5>2. q \in Seq(EventMessage)
          BY <1>2, <5>1
        <5>3. e \in EventMessage
          BY <3>4
        <5>4. p = Append(q, e)
          BY <3>3, <5>1
        <5>5. \A i \in 1..Len(p) : p[i] = e \/ \E j \in 1..Len(q) : p[i] = q[j]
          BY <5>2, <5>3, <5>4, AppendTells
        <5>. QED  BY <5>1, <5>5
      <4>3. seen[v] \in Nat
        BY <1>2, <3>3 DEF Types, AppTypes
      <4>4. e.txid <= seen[v]
        BY <3>4, <4>3
      <4>5. \A i \in 1..Len(events') :
              events'[i].w = v /\ ~events'[i].destroyed => events'[i].txid <= seen'[v]
        BY <1>2, <4>1, <4>2, <4>4
      <4>6. ASSUME seen[v] = sent[v] PROVE Hears(v, events', sent[v], real[v], frame[v])
        <5>1. Tells(e, v, sent[v]) /\ e.frame = real[v]
          BY <3>4, <4>6 DEF Tells
        <5>2. events \in Seq(EventMessage) /\ e \in EventMessage
          BY <1>2, <3>4
        <5>. QED  BY <3>3, <5>1, <5>2, HearsPush
      <4>. QED  BY <1>2, <4>1, <4>5, <4>6 DEF Agreed
    <3>. QED  BY <1>3, <2>1, <3>5, <3>6
  <2>. QED  BY <2>2, <2>3
<1>. QED  BY <1>7, <1>8

(* The user moves a window, and the app is told, or closes it. *)
LEMMA PlainUser ==
  ASSUME Types, Plain, NEW w \in Window,
         UserCloses(w) \/ \E l \in Layouts : UserMoves(w, l)
  PROVE  Plain'
<1>1. /\ UNCHANGED <<active, animQ, requests, batch, events, sent, frame, written, elems, suspended,
                     seen, pending>>
      /\ w \in DOMAIN real
  BY DEF UserCloses, UserMoves, animVars, reactorVars, appVars, Exists
<1>2. /\ \A i \in 1..Len(notifs) : notifs[i].destroyed => notifs[i].w \notin DOMAIN real
      /\ DOMAIN real \subseteq elems /\ suspended = {}
      /\ \A v \in elems : Agreed(v)
      /\ notifs \in Seq(Notification) /\ events \in Seq(EventMessage)
  BY DEF Plain, Types, Queues
<1>3. SUFFICES /\ DOMAIN real' \subseteq DOMAIN real
               /\ \A i \in 1..Len(notifs') : notifs'[i].destroyed => notifs'[i].w \notin DOMAIN real'
               /\ \A v \in elems : Agreed(v)'
  BY <1>1, <1>2, <1>3 DEF Plain, NoAnimation
<1>4. CASE UserCloses(w)
  <2>1. PICK n : n = [w |-> w, destroyed |-> TRUE]
    OBVIOUS
  <2>2. n \in Notification /\ n.w = w
    BY <2>1 DEF Notification
  <2>3. notifs' = Append(notifs, n) /\ real' = [v \in DOMAIN real \ {w} |-> real[v]]
    BY <1>4, <2>1 DEF UserCloses, Without
  <2>4. /\ DOMAIN real' = DOMAIN real \ {w} /\ \A v \in DOMAIN real' : real'[v] = real[v]
    BY <2>3
  <2>5. /\ \A v : Told(v) => Told(v)'
        /\ \A i \in 1..Len(notifs') : notifs'[i] = n \/ \E j \in 1..Len(notifs) : notifs'[i] = notifs[j]
    <3>1. PICK q, p : q = notifs /\ p = notifs'
      OBVIOUS
    <3>2. q \in Seq(Notification)
      BY <1>2, <3>1
    <3>3. n \in Notification
      BY <2>2
    <3>4. p = Append(q, n)
      BY <2>3, <3>1
    <3>5. /\ \A v : (\E i \in 1..Len(q) : q[i].w = v) => \E i \in 1..Len(p) : p[i].w = v
          /\ \A i \in 1..Len(p) : p[i] = n \/ \E j \in 1..Len(q) : p[i] = q[j]
      BY <3>2, <3>3, <3>4, AppendTells
    <3>. QED  BY <3>1, <3>5 DEF Told
  <2>6. ASSUME NEW v \in elems PROVE Agreed(v)'
    <3>1. v \in DOMAIN real' => v \in DOMAIN real /\ real'[v] = real[v] /\ (Told(v) => Told(v)')
      BY <2>4, <2>5
    <3>. QED  BY <1>1, <1>2, <3>1, AgreedKept
  <2>7. \A i \in 1..Len(notifs') : notifs'[i].destroyed => notifs'[i].w \notin DOMAIN real'
    BY <1>2, <2>2, <2>4, <2>5
  <2>. QED  BY <2>4, <2>6, <2>7
<1>5. ASSUME NEW l \in Layouts, UserMoves(w, l)
      PROVE  /\ DOMAIN real' \subseteq DOMAIN real
             /\ \A i \in 1..Len(notifs') : notifs'[i].destroyed => notifs'[i].w \notin DOMAIN real'
             /\ \A v \in elems : Agreed(v)'
  <2>1. real' = [real EXCEPT ![w] = Target(l)] /\ Notify(real, real', {w})
    BY <1>5 DEF UserMoves
  <2>2. DOMAIN real' = DOMAIN real /\ \A v \in DOMAIN real : v # w => real'[v] = real[v]
    BY <2>1
  <2>3. \/ real'[w] = real[w] /\ notifs' = notifs
        \/ notifs' = Append(notifs, [w |-> w, destroyed |-> FALSE])
    BY <1>1, <1>2, <2>1, <2>2, NotifyOne
  <2>4. CASE real'[w] = real[w] /\ notifs' = notifs
    <3>1. ASSUME NEW v \in elems PROVE Agreed(v)'
      <4>1. v \in DOMAIN real' => v \in DOMAIN real /\ real'[v] = real[v] /\ (Told(v) => Told(v)')
        BY <2>2, <2>4 DEF Told
      <4>. QED  BY <1>1, <1>2, <4>1, AgreedKept
    <3>. QED  BY <1>2, <2>2, <2>4, <3>1
  <2>5. CASE notifs' = Append(notifs, [w |-> w, destroyed |-> FALSE])
    <3>1. PICK n : n = [w |-> w, destroyed |-> FALSE]
      OBVIOUS
    <3>2. n \in Notification /\ n.w = w /\ ~n.destroyed
      BY <3>1 DEF Notification
    <3>3. /\ \A v : Told(v) => Told(v)'
          /\ Told(w)'
          /\ \A i \in 1..Len(notifs') : notifs'[i] = n \/ \E j \in 1..Len(notifs) : notifs'[i] = notifs[j]
      <4>1. PICK q, p : q = notifs /\ p = notifs'
        OBVIOUS
      <4>2. q \in Seq(Notification)
        BY <1>2, <4>1
      <4>3. n \in Notification
        BY <3>2
      <4>4. p = Append(q, n)
        BY <2>5, <3>1, <4>1
      <4>5. /\ \A v : (\E i \in 1..Len(q) : q[i].w = v) => \E i \in 1..Len(p) : p[i].w = v
            /\ \E i \in 1..Len(p) : p[i].w = n.w
            /\ \A i \in 1..Len(p) : p[i] = n \/ \E j \in 1..Len(q) : p[i] = q[j]
        BY <4>2, <4>3, <4>4, AppendTells
      <4>. QED  BY <3>2, <4>1, <4>5 DEF Told
    <3>4. ASSUME NEW v \in elems, v # w PROVE Agreed(v)'
      <4>1. v \in DOMAIN real' => v \in DOMAIN real /\ real'[v] = real[v] /\ (Told(v) => Told(v)')
        BY <2>2, <3>3, <3>4
      <4>. QED  BY <1>1, <1>2, <4>1, AgreedKept
    <3>5. w \in elems => Agreed(w)'
      BY <1>1, <1>2, <3>3 DEF Agreed
    <3>6. \A i \in 1..Len(notifs') : notifs'[i].destroyed => notifs'[i].w \notin DOMAIN real'
      BY <1>2, <2>2, <3>2, <3>3
    <3>. QED  BY <2>2, <3>4, <3>5, <3>6
  <2>. QED  BY <2>3, <2>4, <2>5
<1>. QED  BY <1>4, <1>5

LEMMA PlainKept ==
  ASSUME Types, Types', Animated, PlainInv, [Next]_vars
  PROVE  PlainInv'
<1>. SUFFICES ASSUME ~animate' PROVE Plain'
  BY DEF PlainInv
<1>1. ~animate
  BY DEF Next, Command, HandleEvent, HandleMessage, Tick, AppStep, TakeBatch, HandleRequest,
         FlushAll, HandleNotification, UserCloses, UserMoves, userVars, vars
<1>2. Plain
  BY <1>1 DEF PlainInv
<1>3. PICK s, t : Fits(s, t)
  BY DEF Animated
<1>4. CASE \E l \in Layouts, ws \in SUBSET Window \ {{}}, skip \in BOOLEAN : Command(l, ws, skip)
  BY <1>1, <1>2, <1>4, PlainCommand
<1>5. CASE HandleEvent
  BY <1>1, <1>2, <1>5, PlainEvent
<1>6. CASE HandleMessage
  BY <1>2, <1>6, PlainManager
<1>7. CASE Tick
  <2>1. DOMAIN active.wins = {}
    BY <1>2 DEF Plain, NoAnimation
  <2>. QED  BY <1>7, <2>1 DEF Tick
<1>8. CASE TakeBatch
  <2>1. /\ batch' = requests /\ requests' = << >> /\ << >> \in Seq(Sets)
        /\ UNCHANGED <<active, animQ, events, notifs, real, elems, seen, sent, frame, written,
                       pending, suspended>>
    BY <1>8 DEF TakeBatch, animVars, reactorVars
  <2>2. \A w \in elems : Agreed(w)'
    BY <1>2, <2>1 DEF Plain, Agreed, Told, Hears, Tells
  <2>. QED  BY <1>2, <2>1, <2>2 DEF Plain, NoAnimation
<1>9. CASE HandleRequest
  BY <1>2, <1>3, <1>9, PlainRequest
<1>10. CASE FlushAll
  BY <1>2, <1>10, PlainFlush
<1>11. CASE HandleNotification
  BY <1>2, <1>11, PlainNotification
<1>12. CASE \E w \in Window : UserCloses(w) \/ \E l \in Layouts : UserMoves(w, l)
  BY <1>2, <1>12, PlainUser
<1>13. CASE UNCHANGED vars
  <2>1. UNCHANGED <<active, animQ, requests, batch, events, notifs, real, elems, seen, sent, frame,
                    written, pending, suspended>>
    BY <1>13 DEF vars, animVars, reactorVars, appVars
  <2>2. \A w \in elems : Agreed(w)'
    BY <1>2, <2>1 DEF Plain, Agreed, Told, Hears, Tells
  <2>. QED  BY <1>2, <2>1, <2>2 DEF Plain, NoAnimation
<1>. QED  BY <1>4, <1>5, <1>6, <1>7, <1>8, <1>9, <1>10, <1>11, <1>12, <1>13 DEF Next, AppStep

(* Without animations, once nothing is on its way, the reactor knows where *)
(* every window is, wherever the user moved it in the meantime: what it    *)
(* ignores as an old read, or as the answer to a write, is never the last  *)
(* it will hear.                                                           *)
THEOREM ReactorAgreesHolds == Spec => []ReactorAgrees
<1>1. Types /\ Animated /\ PlainInv => ReactorAgrees
  <2>. SUFFICES ASSUME Types, Animated, PlainInv, ~animate, Quiet, NEW w \in DOMAIN real
                PROVE  frame[w] = real[w]
    BY DEF ReactorAgrees
  <2>1. Plain
    BY DEF PlainInv
  <2>2. PICK s, t : Fits(s, t)
    BY DEF Animated
  <2>3. w \in elems /\ w \in Window /\ Agreed(w)
    BY <2>1 DEF Plain, Types, AppTypes
  <2>4. s[w].id = sent[w] /\ DOMAIN pending = {}
    <3>1. pending = << >> /\ \A v \in Window : s[v].id = sent[v]
      BY <2>2, QuietFits DEF Animated
    <3>. QED  BY <2>3, <3>1
  <2>5. seen[w] = sent[w]
    BY <2>2, <2>3, <2>4 DEF Fits, Present
  <2>6. Len(notifs) = 0 /\ Len(events) = 0 /\ \A i \in 1..0 : FALSE
    BY DEF Quiet
  <2>. QED  BY <2>3, <2>5, <2>6 DEF Agreed, Told, Hears
<1>2. Types /\ Types' /\ Animated /\ PlainInv /\ [Next]_vars => PlainInv'
  BY PlainKept
<1>. QED  BY <1>1, <1>2, InitPlain, TypesInvariant, AnimatedHolds, PTL DEF Spec

(* The transaction ids stay in order and the reactor, the manager and the  *)
(* app agree on the frames once nothing is on its way, for any number of   *)
(* windows, layouts, commands and moves.                                   *)
THEOREM FramesSoundHolds == Spec => []FramesSound
<1>1. Types /\ Animated => TypeOK
  <2>. SUFFICES ASSUME Types, Animated PROVE TypeOK
    OBVIOUS
  <2>1. PICK s, t : Fits(s, t)
    BY DEF Animated
  <2>2. animating \in 0..Cardinality(Window)
    <3>1. OpenIn(s) \subseteq Window /\ IsFiniteSet(Window)
      BY FramesFacts DEF OpenIn
    <3>2. /\ Cardinality(OpenIn(s)) <= Cardinality(Window)
          /\ Cardinality(OpenIn(s)) \in Nat /\ Cardinality(Window) \in Nat
      BY <3>1, FS_Subset, FS_CardinalityType
    <3>3. animating = Cardinality(OpenIn(s))
      BY <2>1 DEF Fits, Counted
    <3>. QED  BY <3>2, <3>3
  <2>3. \A w \in Window : seen[w] <= sent[w]
    BY DEF Types, AppTypes, InTime
  <2>4. DOMAIN active.wins \subseteq Window
    BY DEF Types, AnimTypes, IsWrites
  <2>. QED  BY <2>2, <2>3, <2>4 DEF TypeOK, Types, ReactorTypes, AnimTypes, AppTypes
<1>2. TypeOK /\ AnimationsBalanced /\ LastWriteWins /\ ReactorAgrees => FramesSound
  BY DEF FramesSound
<1>. QED  BY <1>1, <1>2, TypesInvariant, AnimatedHolds, AnimationsBalancedHolds,
             LastWriteWinsHolds, ReactorAgreesHolds, PTL
=============================================================================
