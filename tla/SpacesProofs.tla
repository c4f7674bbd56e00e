----------------------------- MODULE SpacesProofs -----------------------------
(***************************************************************************)
(* What is proved of Spaces for every set of displays and spaces, every    *)
(* number of retries and any number of changes: the retry that is pending  *)
(* comes, the hotkeys are registered when they are due, the reactor ends   *)
(* up with the displays and spaces there are, and the status icon says     *)
(* whether the focused one is managed.                                     *)
(*                                                                         *)
(* Each argument follows what is still on its way: the last message of a   *)
(* kind in a queue decides what its receiver will hold in the end.         *)
(***************************************************************************)
EXTENDS Spaces, FiniteSetTheorems, WellFoundedInduction, TLAPS

-----------------------------------------------------------------------------
(* Queues. *)

(* Some message is in G, and none after it is in K. *)
EndsIn(q, K, G) == \E i \in DOMAIN q : q[i] \in G /\ \A j \in DOMAIN q : j > i => q[j] \notin K
Without(q, K) == \A i \in DOMAIN q : q[i] \notin K

Has(q, K) == ~Without(q, K)

LEMMA AppendIndex ==
  ASSUME NEW S, NEW q \in Seq(S), NEW e
  PROVE  /\ Len(q) \in Nat /\ DOMAIN q = 1..Len(q)
         /\ DOMAIN Append(q, e) = 1..Len(q) + 1
         /\ \A i \in 1..Len(q) : Append(q, e)[i] = q[i]
         /\ Append(q, e)[Len(q) + 1] = e
OBVIOUS

LEMMA TailIndex ==
  ASSUME NEW S, NEW q \in Seq(S), q # << >>
  PROVE  /\ Len(q) \in Nat \ {0} /\ DOMAIN q = 1..Len(q) /\ Head(q) = q[1]
         /\ DOMAIN Tail(q) = 1..Len(q) - 1
         /\ \A i \in 1..Len(q) - 1 : Tail(q)[i] = q[i + 1]
         /\ \A i \in 2..Len(q) : i - 1 \in 1..Len(q) - 1 /\ Tail(q)[i - 1] = q[i]
         /\ Head(q) \in S /\ Tail(q) \in Seq(S)
OBVIOUS

LEMMA EndsInAppend ==
  ASSUME NEW S, NEW q \in Seq(S), NEW e, NEW K, NEW G,
         (EndsIn(q, K, G) /\ e \notin K) \/ e \in G
  PROVE  EndsIn(Append(q, e), K, G)
<1>. DEFINE p == Append(q, e)
            n == Len(q)
<1>1. /\ n \in Nat /\ DOMAIN q = 1..n /\ DOMAIN p = 1..n + 1
      /\ \A i \in 1..n : p[i] = q[i]
      /\ p[n + 1] = e
  BY AppendIndex
<1>. HIDE DEF p, n
<1>2. CASE e \in G
  <2>1. n + 1 \in DOMAIN p /\ \A j \in DOMAIN p : ~(j > n + 1)
    BY <1>1
  <2>. QED  BY <1>1, <1>2, <2>1 DEF EndsIn, p
<1>3. CASE EndsIn(q, K, G) /\ e \notin K
  <2>1. PICK i \in DOMAIN q : q[i] \in G /\ \A j \in DOMAIN q : j > i => q[j] \notin K
    BY <1>3 DEF EndsIn
  <2>2. i \in DOMAIN p /\ p[i] \in G
    BY <1>1, <2>1
  <2>3. ASSUME NEW j \in DOMAIN p, j > i PROVE p[j] \notin K
    BY <1>1, <1>3, <2>1, <2>3
  <2>. QED  BY <2>2, <2>3 DEF EndsIn, p
<1>. QED  BY <1>2, <1>3

LEMMA WithoutAppend ==
  ASSUME NEW S, NEW q \in Seq(S), NEW e, NEW K
  PROVE  Without(Append(q, e), K) <=> Without(q, K) /\ e \notin K
<1>. DEFINE p == Append(q, e)
            n == Len(q)
<1>1. /\ n \in Nat /\ DOMAIN q = 1..n /\ DOMAIN p = 1..n + 1
      /\ \A i \in 1..n : p[i] = q[i]
      /\ p[n + 1] = e
  BY AppendIndex
<1>. HIDE DEF p, n
<1>2. Without(p, K) <=> Without(q, K) /\ e \notin K
  BY <1>1 DEF Without
<1>. QED  BY <1>2 DEF p

LEMMA Shift ==
  ASSUME NEW n \in Nat \ {0}, NEW p, NEW q, DOMAIN q = 1..n, DOMAIN p = 1..n - 1,
         \A i \in 1..n - 1 : p[i] = q[i + 1], NEW K, NEW G
  PROVE  EndsIn(q, K, G) => EndsIn(p, K, G) \/ (q[1] \in G /\ Without(p, K))
<1>1. ASSUME NEW i \in 2..n PROVE i - 1 \in 1..n - 1 /\ p[i - 1] = q[i]
  <2>1. i - 1 \in 1..n - 1 /\ (i - 1) + 1 = i
    OBVIOUS
  <2>. QED  BY <2>1
<1>2. ASSUME NEW j \in 1..n - 1 PROVE j + 1 \in 2..n /\ j + 1 \in 1..n /\ p[j] = q[j + 1]
  OBVIOUS
<1>3. ASSUME NEW i \in 1..n, q[i] \in G, \A j \in 1..n : j > i => q[j] \notin K
      PROVE  EndsIn(p, K, G) \/ (q[1] \in G /\ Without(p, K))
  <2>1. CASE i = 1
    <3>1. \A j \in 1..n - 1 : j + 1 > i
      BY <2>1
    <3>. QED  BY <1>2, <1>3, <2>1, <3>1 DEF Without
  <2>2. CASE i # 1
    <3>1. i - 1 \in 1..n - 1 /\ p[i - 1] \in G
      BY <1>1, <1>3, <2>2
    <3>2. \A j \in 1..n - 1 : j > i - 1 => j + 1 > i
      OBVIOUS
    <3>3. \A j \in 1..n - 1 : j > i - 1 => p[j] \notin K
      BY <1>2, <1>3, <3>2
    <3>. QED  BY <3>1, <3>3 DEF EndsIn
  <2>. QED  BY <2>1, <2>2
<1>. QED  BY <1>3 DEF EndsIn

LEMMA EndsInTail ==
  ASSUME NEW S, NEW q \in Seq(S), q # << >>, NEW K, NEW G, EndsIn(q, K, G)
  PROVE  EndsIn(Tail(q), K, G) \/ (Head(q) \in G /\ Without(Tail(q), K))
<1>. PICK p, n : p = Tail(q) /\ n = Len(q)
  OBVIOUS
<1>1. /\ n \in Nat \ {0} /\ DOMAIN q = 1..n /\ DOMAIN p = 1..n - 1
      /\ \A i \in 1..n - 1 : p[i] = q[i + 1]
  BY TailIndex
<1>2. EndsIn(p, K, G) \/ (q[1] \in G /\ Without(p, K))
  BY <1>1, Shift
<1>. QED  BY <1>2, TailIndex

LEMMA WithoutTail ==
  ASSUME NEW S, NEW q \in Seq(S), q # << >>, NEW K
  PROVE  Without(q, K) => Without(Tail(q), K) /\ Head(q) \notin K
<1>. PICK p, n : p = Tail(q) /\ n = Len(q)
  OBVIOUS
<1>1. /\ n \in Nat \ {0} /\ DOMAIN q = 1..n /\ DOMAIN p = 1..n - 1
      /\ \A i \in 1..n - 1 : p[i] = q[i + 1]
  BY TailIndex
<1>2. Without(q, K) => Without(p, K) /\ q[1] \notin K
  <2>1. 1 \in 1..n /\ \A i \in 1..n - 1 : i + 1 \in 1..n
    BY <1>1
  <2>. QED  BY <1>1, <2>1 DEF Without
<1>. QED  BY <1>2, TailIndex

LEMMA HasAppend ==
  ASSUME NEW S, NEW q \in Seq(S), NEW e, NEW K
  PROVE  Has(Append(q, e), K) <=> Has(q, K) \/ e \in K
BY WithoutAppend DEF Has

LEMMA HasTail ==
  ASSUME NEW S, NEW q \in Seq(S), q # << >>, NEW K, Has(q, K)
  PROVE  Has(Tail(q), K) \/ Head(q) \in K
<1>. PICK p, n : p = Tail(q) /\ n = Len(q)
  OBVIOUS
<1>1. /\ n \in Nat \ {0} /\ DOMAIN q = 1..n /\ Head(q) = q[1] /\ DOMAIN p = 1..n - 1
      /\ \A i \in 2..n : i - 1 \in 1..n - 1 /\ p[i - 1] = q[i]
  BY TailIndex
<1>2. PICK i \in 1..n : q[i] \in K
  BY <1>1 DEF Has, Without
<1>3. CASE i = 1
  BY <1>1, <1>2, <1>3
<1>4. CASE i # 1
  <2>1. i \in 2..n
    BY <1>1, <1>4
  <2>. QED  BY <1>1, <1>2, <2>1 DEF Has, Without
<1>. QED  BY <1>3, <1>4

-----------------------------------------------------------------------------
(* Selecting displays. *)

LEMMA Smallest ==
  ASSUME NEW T, T \subseteq Nat, T # {}
  PROVE  \E m \in T : \A k \in T : m <= k
<1>1. PICK x \in T : \A y \in T : ~ (<<y, x>> \in OpToRel(<, Nat))
  BY WFMin, NatLessThanWellFounded
<1>2. \A y \in T : ~(y < x)
  BY <1>1 DEF OpToRel
<1>. QED  BY <1>2

(* Each rank among the chosen positions is that of one of them. *)
LEMMA RankExists ==
  ASSUME NEW n \in Nat, NEW P \in SUBSET (1..n), NEW k \in 1..Cardinality(P)
  PROVE  \E i \in P : Cardinality({j \in P : j <= i}) = k
<1>1. IsFiniteSet(1..n) /\ \A j \in P : j \in Nat /\ 1 <= j /\ j <= n
  BY FS_Interval
<1>2. IsFiniteSet(P) /\ Cardinality(P) \in Nat
  BY <1>1, FS_Subset, FS_CardinalityType
<1>3. ASSUME NEW m \in Nat
      PROVE  IsFiniteSet({j \in P : j <= m}) /\ Cardinality({j \in P : j <= m}) \in Nat
  <2>1. {j \in P : j <= m} \in SUBSET P
    OBVIOUS
  <2>. QED  BY <1>2, <2>1, FS_Subset, FS_CardinalityType
<1>4. PICK f \in [Nat -> Nat] : \A m \in Nat : f[m] = Cardinality({j \in P : j <= m})
  <2>. DEFINE g == [m \in Nat |-> Cardinality({j \in P : j <= m})]
  <2>1. g \in [Nat -> Nat]
    BY <1>3
  <2>. QED  BY <2>1
<1>5. f[n] = Cardinality(P)
  <2>1. {j \in P : j <= n} = P
    BY <1>1
  <2>. QED  BY <1>4, <2>1
<1>6. f[0] = 0
  <2>1. \A j \in P : ~(j <= 0)
    BY <1>1
  <2>2. {j \in P : j <= 0} = {}
    BY <2>1
  <2>. QED  BY <1>4, <2>2, FS_EmptySet
<1>7. ASSUME NEW m \in Nat \ {0} PROVE m - 1 \in Nat /\ f[m] = IF m \in P THEN f[m - 1] + 1 ELSE f[m - 1]
  <2>1. CASE m \in P
    <3>1. PICK A : A = {j \in P : j <= m - 1}
      OBVIOUS
    <3>2. {j \in P : j <= m} = A \cup {m}
      <4>1. \A j \in Nat : j <= m <=> j <= m - 1 \/ j = m
        OBVIOUS
      <4>. QED  BY <1>1, <2>1, <3>1, <4>1
    <3>. m \notin A
      BY <3>1
    <3>. m - 1 \in Nat
      OBVIOUS
    <3>. IsFiniteSet(A)
      BY <1>3, <3>1
    <3>3. Cardinality(A \cup {m}) = Cardinality(A) + 1
      BY <3>2, FS_AddElement
    <3>4. f[m] = f[m - 1] + 1
      BY <1>4, <3>1, <3>2, <3>3
    <3>. QED  BY <2>1, <3>4
  <2>2. CASE m \notin P
    <3>1. {j \in P : j <= m} = {j \in P : j <= m - 1}
      <4>1. \A j \in Nat : j <= m <=> j <= m - 1 \/ j = m
        OBVIOUS
      <4>. QED  BY <1>1, <2>2, <4>1
    <3>. m - 1 \in Nat
      OBVIOUS
    <3>2. f[m] = f[m - 1]
      BY <1>4, <3>1
    <3>. QED  BY <2>2, <3>2
  <2>. QED  BY <2>1, <2>2
<1>8. PICK T \in SUBSET Nat : \A m \in Nat : m \in T <=> f[m] >= k
  <2>1. {m \in Nat : f[m] >= k} \in SUBSET Nat
    OBVIOUS
  <2>. QED  BY <2>1
<1>9. PICK m \in T : \A l \in T : m <= l
  <2>1. n \in T
    BY <1>2, <1>5, <1>8
  <2>. QED  BY <2>1, Smallest
<1>10. m \in Nat \ {0} /\ f[m] >= k
  BY <1>6, <1>8, <1>9
<1>11. m - 1 \in Nat /\ f[m - 1] < k
  <2>1. m - 1 \in Nat /\ m - 1 \notin T
    BY <1>9, <1>10
  <2>. QED  BY <1>8, <2>1
<1>12. m \in P /\ f[m] = k
  BY <1>7, <1>10, <1>11
<1>. QED  BY <1>4, <1>10, <1>12

(* The displays AppKit knows of are some of CoreGraphics', or all.         *)
LEMMA ScreensOfShape ==
  ASSUME NEW ds, cg \in Seq(Display)
  PROVE  /\ ScreensOf(ds) \in Seq(Display)
         /\ Len(ScreensOf(ds)) = Len(cg) => ScreensOf(ds) = cg
         /\ ds = cg => ScreensOf(ds) = cg
<1>. DEFINE known == {i \in DOMAIN cg : cg[i] \in ToSet(ds)}
            Rank(i) == Cardinality({j \in known : j <= i})
            c == Cardinality(known)
            s == [k \in 1..c |-> cg[CHOOSE i \in known : Rank(i) = k]]
<1>1. Len(cg) \in Nat /\ DOMAIN cg = 1..Len(cg) /\ cg \in [1..Len(cg) -> Display]
  OBVIOUS
<1>2. known \in SUBSET (1..Len(cg))
  BY <1>1
<1>3. IsFiniteSet(1..Len(cg)) /\ Cardinality(1..Len(cg)) = Len(cg)
  BY <1>1, FS_Interval
<1>4. c \in Nat /\ (c = Len(cg) => known = 1..Len(cg))
  BY <1>1, <1>2, <1>3, FS_Subset, FS_CardinalityType
<1>5. ASSUME NEW k \in 1..c
      PROVE  /\ (CHOOSE i \in known : Rank(i) = k) \in known
             /\ Rank(CHOOSE i \in known : Rank(i) = k) = k
  <2>1. \E i \in known : Rank(i) = k
    BY <1>1, <1>2, RankExists
  <2>. HIDE DEF known, Rank, c
  <2>. QED  BY <2>1
<1>6. s \in [1..c -> Display]
  BY <1>1, <1>2, <1>5
<1>7. ScreensOf(ds) = s
  BY DEF ScreensOf
<1>8. ScreensOf(ds) \in Seq(Display) /\ Len(ScreensOf(ds)) = c
  <2>. HIDE DEF s, c
  <2>. QED  BY <1>4, <1>6, <1>7
<1>9. ASSUME known = 1..Len(cg) PROVE ScreensOf(ds) = cg
  <2>1. c = Len(cg)
    BY <1>3, <1>9
  <2>2. ASSUME NEW i \in 1..Len(cg) PROVE Rank(i) = i
    <3>1. {j \in known : j <= i} = 1..i
      BY <1>1, <1>9
    <3>2. Cardinality(1..i) = i
      BY FS_Interval
    <3>. QED  BY <3>1, <3>2
  <2>3. ASSUME NEW k \in 1..Len(cg) PROVE s[k] = cg[k]
    <3>1. /\ (CHOOSE i \in known : Rank(i) = k) \in 1..Len(cg)
          /\ Rank(CHOOSE i \in known : Rank(i) = k) = k
      BY <1>2, <1>5, <2>1
    <3>2. (CHOOSE i \in known : Rank(i) = k) = k
      BY <2>2, <3>1
    <3>. QED  BY <2>1, <3>2
  <2>4. s \in [1..Len(cg) -> Display]
    BY <1>6, <2>1
  <2>. HIDE DEF s
  <2>. QED  BY <1>1, <1>7, <2>3, <2>4
<1>10. ds = cg => known = 1..Len(cg)
  BY <1>1 DEF ToSet
<1>. QED  BY <1>4, <1>8, <1>9, <1>10

LEMMA ScreenSpacesType ==
  ASSUME NEW ds \in Seq(Display), cur \in [Display -> Space]
  PROVE  ScreenSpaces(ds) \in Seq(Space) /\ Len(ScreenSpaces(ds)) = Len(ds)
         /\ DOMAIN ScreenSpaces(ds) = DOMAIN ds
BY DEF ScreenSpaces

-----------------------------------------------------------------------------
(* Types of the state and of the messages. *)

WmMessage ==
  [kind : {"hotkeys"}, active : BOOLEAN] \cup [kind : {"refresh"}, attempt : 0..Retries - 1]

WsMessage ==
  [kind : {"screens"}, displays : Arrangements]
    \cup [kind : {"retry"}, attempt : 0..Retries - 1, displays : Arrangements]
    \cup [kind : {"spaces"}]

Configs == [screens : Seq(Display), spaces : Seq(Space \cup {NoSpace})]

Plain == {"toggleSpace", "toggleGlobal", "enable", "disable", "login", "loginExit",
          "expose", "exposeExit", "reload", "flip"}

SmMessage ==
  [kind : {"screens"}, config : Configs]
    \cup [kind : {"spaces"}, spaces : Seq(Space)]
    \cup [kind : {"focused"}, screen : Display]
    \cup [kind : Plain]

WsTypes ==
  /\ cg \in Arrangements /\ ns \in Arrangements
  /\ cur \in [Display -> Space]
  /\ due \in BOOLEAN /\ oneSpace \in BOOLEAN
  /\ uuids \in Arrangements \cup {<< >>} /\ last \in Configs
  /\ attempt \in 0..Retries /\ retrying \in BOOLEAN /\ (retrying => attempt < Retries)
  /\ sleeping \in [0..Retries - 1 -> Nat]

SmTypes ==
  /\ curScreens \in Seq(Display) /\ curSpace \in Seq(Space \cup {NoSpace})
  /\ starting \in Space \cup {NoSpace}
  /\ disabled \subseteq Space /\ enabled \subseteq Space /\ focused \in Seq(Display)
  /\ login \in BOOLEAN /\ expose \in BOOLEAN /\ globally \in BOOLEAN
  /\ hotkeysActive \in BOOLEAN /\ dd \in BOOLEAN /\ hotkeys \in BOOLEAN

OutTypes ==
  /\ screens \in Seq([screen : Display, space : Space \cup {NoSpace}])
  /\ shown \in BOOLEAN /\ bars \subseteq Space

Queues == wmQ \in Seq(WmMessage) /\ wsQ \in Seq(WsMessage) /\ smQ \in Seq(SmMessage)

RefreshFor(a) == {e \in WmMessage : e.kind = "refresh" /\ e.attempt = a}
RetryFor(a) == {e \in WsMessage : e.kind = "retry" /\ e.attempt = a}

RetryComes ==
  retrying =>
    sleeping[attempt] > 0 \/ Has(wmQ, RefreshFor(attempt)) \/ Has(wsQ, RetryFor(attempt))

RInv == WsTypes /\ SmTypes /\ OutTypes /\ Queues /\ RetryComes

LEMMA RInvSound == RInv => RetriesSound
<1>. SUFFICES ASSUME RInv PROVE RetriesSound
  OBVIOUS
<1>1. TypeOK
  BY DEF TypeOK, RInv, WsTypes, SmTypes, OutTypes
<1>2. RetryOnItsWay
  BY DEF RInv, RetryComes, RetryOnItsWay, Has, Without, RefreshFor, RetryFor
<1>. QED  BY <1>1, <1>2 DEF RetriesSound

LEMMA Displays ==
  ASSUME RInv
  PROVE  cg \in Seq(Display) /\ ns \in Seq(Display) /\ uuids \in Seq(Display)
<1>1. Arrangements \subseteq Seq(Display) /\ << >> \in Seq(Display)
  BY SpacesAssumption
<1>. QED  BY <1>1 DEF RInv, WsTypes

LEMMA InitRInv == Init => RInv
<1>. SUFFICES ASSUME Init PROVE RInv
  OBVIOUS
<1>1. ScreenParameters(ns) \in WsMessage
  BY DEF Init, ScreenParameters, WsMessage
<1>2. wsQ \in Seq(WsMessage)
  <2>1. PICK e \in WsMessage : e = ScreenParameters(ns)
    BY <1>1
  <2>2. <<e>> \in Seq(WsMessage)
    OBVIOUS
  <2>. QED  BY <2>1, <2>2 DEF Init
<1>3. Queues
  <2>1. << >> \in Seq(WmMessage) /\ << >> \in Seq(SmMessage)
    OBVIOUS
  <2>. QED  BY <1>2, <2>1 DEF Queues, Init
<1>4. last \in Configs
  <2>1. <<NoSpace>> \in Seq(Space \cup {NoSpace}) /\ << >> \in Seq(Display)
    OBVIOUS
  <2>. QED  BY <2>1 DEF Init, Config, Configs
<1>5. WsTypes
  <2>1. cur \in [Display -> Space]
    BY SpacesAssumption DEF Init
  <2>2. sleeping \in [0..Retries - 1 -> Nat] /\ 0 \in 0..Retries
    BY SpacesAssumption DEF Init
  <2>. QED  BY <1>4, <2>1, <2>2, SpacesAssumption DEF Init, WsTypes
<1>6. SmTypes /\ OutTypes
  <2>1. \A S : << >> \in Seq(S)
    OBVIOUS
  <2>. QED  BY <2>1, SpacesAssumption DEF Init, SmTypes, OutTypes
<1>7. RetryComes
  BY DEF Init, RetryComes
<1>. QED  BY <1>3, <1>5, <1>6, <1>7 DEF RInv

(* A queue grows by a message of its kind. *)
LEMMA Grows ==
  ASSUME NEW S, NEW q \in Seq(S), NEW e \in S
  PROVE  Append(q, e) \in Seq(S)
OBVIOUS

LEMMA WsGrows ==
  ASSUME RInv, NEW e \in WsMessage, wsQ' = Append(wsQ, e), UNCHANGED <<wmQ, smQ, wsVars>>
  PROVE  Queues' /\ RetryComes'
<1>1. Queues'
  BY DEF RInv, Queues
<1>2. Has(wsQ, RetryFor(attempt)) => Has(wsQ', RetryFor(attempt))
  BY HasAppend DEF RInv, Queues
<1>3. RefreshFor(attempt)' = RefreshFor(attempt) /\ RetryFor(attempt)' = RetryFor(attempt)
  BY DEF wsVars, RefreshFor, RetryFor
<1>. QED  BY <1>1, <1>2, <1>3 DEF RInv, RetryComes, wsVars

LEMMA SystemRInv ==
  ASSUME RInv,
         \/ \E ds \in Arrangements : ChangeDisplays(ds)
         \/ AppKitFollows
         \/ NotifyAgain
         \/ \E d \in Display, s \in Space : SwitchSpace(d, s)
  PROVE  RInv'
<1>1. SmTypes' /\ OutTypes'
  BY DEF RInv, SmTypes, OutTypes, ChangeDisplays, AppKitFollows, NotifyAgain, SwitchSpace,
         smVars, outVars
<1>2. WsTypes'
  <2>1. CASE \E d \in Display, s \in Space : SwitchSpace(d, s)
    BY <2>1 DEF RInv, WsTypes, SwitchSpace, wsVars
  <2>2. CASE \E ds \in Arrangements : ChangeDisplays(ds)
    BY <2>2 DEF RInv, WsTypes, ChangeDisplays, wsVars
  <2>3. CASE AppKitFollows
    BY <2>3 DEF RInv, WsTypes, AppKitFollows, wsVars
  <2>4. CASE NotifyAgain
    BY <2>4 DEF RInv, WsTypes, NotifyAgain, wsVars, systemVars
  <2>. QED  BY <2>1, <2>2, <2>3, <2>4
<1>3. ASSUME NEW ds \in Arrangements PROVE ScreenParameters(ds) \in WsMessage /\ Refresh \in WsMessage
  BY DEF ScreenParameters, Refresh, WsMessage
<1>4. Queues' /\ RetryComes'
  <2>1. CASE \E ds \in Arrangements : ChangeDisplays(ds)
    <3>1. UNCHANGED <<wmQ, wsQ, smQ, attempt, retrying, sleeping>>
      BY <2>1 DEF ChangeDisplays, wsVars
    <3>. QED  BY <3>1 DEF RInv, Queues, RetryComes, RefreshFor, RetryFor
  <2>2. CASE AppKitFollows
    <3>1. ScreenParameters(cg) \in WsMessage
      BY <1>3 DEF RInv, WsTypes
    <3>. QED  BY <2>2, <3>1, WsGrows DEF AppKitFollows
  <2>3. CASE NotifyAgain
    <3>1. ScreenParameters(ns) \in WsMessage
      BY <1>3 DEF RInv, WsTypes
    <3>. QED  BY <2>3, <3>1, WsGrows DEF NotifyAgain
  <2>4. CASE \E d \in Display, s \in Space : SwitchSpace(d, s)
    <3>1. Refresh \in WsMessage
      BY <1>3 DEF RInv, WsTypes
    <3>. QED  BY <2>4, <3>1, WsGrows DEF SwitchSpace
  <2>. QED  BY <2>1, <2>2, <2>3, <2>4
<1>. QED  BY <1>1, <1>2, <1>4 DEF RInv

(* What commands put in the space manager's queue. *)
LEMMA SmGrows ==
  ASSUME NEW q \in Seq(SmMessage), NEW e \in SmMessage, NEW f \in SmMessage
  PROVE  /\ q \o << >> = q
         /\ q \o <<e>> = Append(q, e) /\ Append(q, e) \in Seq(SmMessage)
         /\ (q \o <<e>>) \o << >> = Append(q, e)
         /\ (q \o <<e>>) \o <<f>> = Append(Append(q, e), f)
         /\ Append(Append(q, e), f) \in Seq(SmMessage)
<1>1. q \o <<e>> = Append(q, e) /\ Append(q, e) \in Seq(SmMessage)
  OBVIOUS
<1>2. PICK p \in Seq(SmMessage) : p = Append(q, e)
  BY <1>1
<1>3. p \o <<f>> = Append(p, f) /\ p \o << >> = p /\ Append(p, f) \in Seq(SmMessage)
  OBVIOUS
<1>. QED  BY <1>1, <1>2, <1>3

(* A command adds messages that carry no screens or spaces, and one that   *)
(* lets the hotkeys go adds one that has them registered again.            *)
LEMMA CommandShape ==
  ASSUME RInv, NEW c \in Commands, Command(c)
  PROVE  /\ UNCHANGED <<systemVars, wmQ, wsQ, wsVars, smVars, outVars>>
         /\ \/ UNCHANGED smQ /\ UNCHANGED hotkeys
            \/ \E e \in SmMessage :
                 /\ smQ' = Append(smQ, e) /\ e.kind \in Plain \cup {"focused"}
                 /\ UNCHANGED hotkeys \/ (hotkeys' = FALSE /\ e.kind \in {"reload", "flip"})
            \/ \E e, g \in SmMessage :
                 /\ smQ' = Append(Append(smQ, e), g) /\ UNCHANGED hotkeys
                 /\ e.kind \in Plain \cup {"focused"} /\ g.kind \in Plain \cup {"focused"}
<1>1. UNCHANGED <<systemVars, wmQ, wsQ, wsVars, smVars, outVars>>
  BY DEF Command
<1>2. smQ \in Seq(SmMessage)
  BY DEF RInv, Queues
<1>3. \A k \in Plain : [kind |-> k] \in SmMessage
  BY DEF SmMessage
<1>4. \A d \in Display : [kind |-> "focused", screen |-> d] \in SmMessage
  BY DEF SmMessage
<1>5. CASE c \in {"reload", "flip"} /\ ReloadConfig(c)
  BY <1>1, <1>3, <1>5 DEF ReloadConfig, Plain
<1>6. CASE c \in {"expose", "exposeExit"} /\ DockNotifies(c)
  BY <1>1, <1>3, <1>6 DEF DockNotifies, Plain
<1>7. CASE c \notin {"reload", "flip", "focus", "login", "expose", "exposeExit"} /\ PassOn(c)
  <2>1. c \in Plain
    BY <1>7, SpacesAssumption DEF Plain
  <2>. QED  BY <1>1, <1>3, <1>7, <2>1 DEF PassOn
<1>8. CASE c \in {"focus", "login"} /\ AppActivated(c = "login")
  <2>1. PICK l \in SmMessage : l = [kind |-> "login"]
    BY <1>3 DEF Plain
  <2>2. l.kind = "login" /\ "login" \in Plain
    BY <2>1 DEF Plain
  <2>. DEFINE then == IF c = "login" THEN <<l>> ELSE << >>
  <2>3. UNCHANGED hotkeys
    BY <1>8 DEF AppActivated
  <2>4. CASE ns = << >>
    <3>1. smQ' = smQ \o then
      BY <1>8, <2>1, <2>4 DEF AppActivated
    <3>2. smQ' = smQ \/ smQ' = Append(smQ, l)
      BY <1>2, <3>1, SmGrows
    <3>. QED  BY <1>1, <2>2, <2>3, <3>2
  <2>5. CASE ns # << >>
    <3>1. PICK d \in ToSet(ns) : smQ' = smQ \o <<[kind |-> "focused", screen |-> d]>> \o then
      BY <1>8, <2>1, <2>5 DEF AppActivated
    <3>2. d \in Display
      BY Displays DEF ToSet
    <3>3. PICK e \in SmMessage : e = [kind |-> "focused", screen |-> d]
      BY <1>4, <3>2
    <3>4. e.kind = "focused" /\ smQ' = (smQ \o <<e>>) \o then
      BY <3>1, <3>3
    <3>5. smQ' = Append(smQ, e) \/ smQ' = Append(Append(smQ, e), l)
      BY <1>2, <3>4, SmGrows
    <3>. QED  BY <1>1, <2>2, <2>3, <3>4, <3>5
  <2>. QED  BY <2>4, <2>5
<1>. QED  BY <1>5, <1>6, <1>7, <1>8 DEF Command

LEMMA CommandRInv ==
  ASSUME RInv, NEW c \in Commands, Command(c)
  PROVE  RInv'
<1>1. UNCHANGED <<systemVars, wmQ, wsQ, wsVars, smVars, outVars>> /\ hotkeys' \in BOOLEAN
  BY CommandShape DEF RInv, SmTypes
<1>2. WsTypes' /\ SmTypes' /\ OutTypes'
  BY <1>1 DEF RInv, WsTypes, SmTypes, OutTypes, systemVars, wsVars, smVars, outVars
<1>3. smQ' \in Seq(SmMessage)
  BY CommandShape, SmGrows DEF RInv, Queues
<1>4. Queues' /\ RetryComes'
  BY <1>1, <1>3 DEF RInv, Queues, RetryComes, RefreshFor, RetryFor, wsVars
<1>. QED  BY <1>2, <1>4 DEF RInv

LEMMA WmRInv ==
  ASSUME RInv, WmHandles
  PROVE  RInv'
<1>1. wmQ \in Seq(WmMessage) /\ wsQ \in Seq(WsMessage) /\ smQ \in Seq(SmMessage)
  BY DEF RInv, Queues
<1>2. wmQ # << >> /\ wmQ' = Tail(wmQ) /\ UNCHANGED <<systemVars, smQ, wsVars, smVars, outVars>>
  BY DEF WmHandles, SetHotkeys, RefreshScreenParameters
<1>. PICK e \in WmMessage : e = Head(wmQ)
  BY <1>1, <1>2
<1>3. Tail(wmQ) \in Seq(WmMessage)
  BY <1>1, <1>2
<1>4. /\ RefreshFor(attempt)' = RefreshFor(attempt) /\ RetryFor(attempt)' = RetryFor(attempt)
      /\ UNCHANGED <<retrying, sleeping, attempt>>
  BY <1>2 DEF wsVars, RefreshFor, RetryFor
<1>5. WsTypes' /\ OutTypes'
  BY <1>2 DEF RInv, WsTypes, OutTypes, systemVars, wsVars, outVars
<1>6. Has(wmQ, RefreshFor(attempt)) => Has(wmQ', RefreshFor(attempt)) \/ e \in RefreshFor(attempt)
  BY <1>1, <1>2, HasTail
<1>7. CASE SetHotkeys
  <2>1. e.kind = "hotkeys" /\ hotkeys' = e.active /\ UNCHANGED wsQ
    BY <1>7 DEF SetHotkeys
  <2>2. hotkeys' \in BOOLEAN /\ e \notin RefreshFor(attempt)
    BY <2>1 DEF WmMessage, RefreshFor
  <2>3. SmTypes'
    BY <1>2, <2>2 DEF RInv, SmTypes, smVars
  <2>4. RetryComes'
    BY <1>4, <1>6, <2>1, <2>2 DEF RInv, RetryComes
  <2>. QED  BY <1>1, <1>2, <1>3, <1>5, <2>1, <2>3, <2>4 DEF RInv, Queues
<1>8. CASE RefreshScreenParameters
  <2>. DEFINE m == [kind |-> "retry", attempt |-> e.attempt, displays |-> ns]
  <2>1. e.kind = "refresh" /\ UNCHANGED hotkeys /\ wsQ' = Append(wsQ, m)
    BY <1>8 DEF RefreshScreenParameters
  <2>2. m \in WsMessage /\ (e \in RefreshFor(attempt) => m \in RetryFor(attempt))
    BY <2>1 DEF RInv, WsTypes, WsMessage, WmMessage, RefreshFor, RetryFor
  <2>. HIDE DEF m
  <2>3. SmTypes'
    BY <1>2, <2>1 DEF RInv, SmTypes, smVars
  <2>4. /\ wsQ' \in Seq(WsMessage)
        /\ Has(wsQ', RetryFor(attempt)) <=> Has(wsQ, RetryFor(attempt)) \/ m \in RetryFor(attempt)
    BY <1>1, <2>1, <2>2, HasAppend, Grows
  <2>5. RetryComes'
    BY <1>4, <1>6, <2>2, <2>4 DEF RInv, RetryComes
  <2>. QED  BY <1>1, <1>2, <1>3, <1>5, <2>3, <2>4, <2>5 DEF RInv, Queues
<1>. QED  BY <1>7, <1>8 DEF WmHandles

LEMMA WakeRInv ==
  ASSUME RInv, NEW a \in 0..Retries - 1, RetryThreadWakes(a)
  PROVE  RInv'
<1>. DEFINE m == [kind |-> "refresh", attempt |-> a]
<1>1. wmQ \in Seq(WmMessage) /\ wsQ \in Seq(WsMessage) /\ smQ \in Seq(SmMessage)
  BY DEF RInv, Queues
<1>2. /\ sleeping[a] > 0 /\ sleeping' = [sleeping EXCEPT ![a] = @ - 1]
      /\ wmQ' = Append(wmQ, m)
      /\ UNCHANGED <<systemVars, wsQ, smQ, hotkeys, uuids, attempt, retrying, last, smVars, outVars>>
  BY DEF RetryThreadWakes
<1>3. m \in WmMessage /\ (a = attempt => m \in RefreshFor(attempt))
  BY DEF WmMessage, RefreshFor
<1>. HIDE DEF m
<1>4. /\ wmQ' \in Seq(WmMessage)
      /\ Has(wmQ', RefreshFor(attempt)) <=> Has(wmQ, RefreshFor(attempt)) \/ m \in RefreshFor(attempt)
  BY <1>1, <1>2, <1>3, HasAppend, Grows
<1>5. sleeping' \in [0..Retries - 1 -> Nat] /\ \A b \in 0..Retries - 1 : b # a => sleeping'[b] = sleeping[b]
  BY <1>2 DEF RInv, WsTypes
<1>6. WsTypes' /\ SmTypes' /\ OutTypes'
  BY <1>2, <1>5 DEF RInv, WsTypes, SmTypes, OutTypes, systemVars, smVars, outVars
<1>7. retrying => attempt \in 0..Retries - 1
  BY SpacesAssumption DEF RInv, WsTypes
<1>8. RefreshFor(attempt)' = RefreshFor(attempt) /\ RetryFor(attempt)' = RetryFor(attempt)
  BY <1>2 DEF RefreshFor, RetryFor
<1>9. RetryComes'
  BY <1>2, <1>3, <1>4, <1>5, <1>7, <1>8 DEF RInv, RetryComes
<1>. QED  BY <1>1, <1>2, <1>4, <1>6, <1>9 DEF RInv, Queues

(* A list of displays is refused, and looked at again if it may be; or it  *)
(* is taken, and told unless nothing is new.                               *)
LEMMA ScreensHandled ==
  ASSUME RInv, NEW ds \in Arrangements, NEW a \in 0..Retries, NEW r \in BOOLEAN,
         r => retrying /\ a = attempt, HandleScreens(ds, a, r)
  PROVE  /\ \/ /\ Len(ds) # Len(cg) /\ UNCHANGED <<uuids, last, smQ>>
               /\ \/ /\ r /\ retrying = TRUE /\ retrying' = TRUE /\ attempt' = attempt
                     /\ UNCHANGED sleeping
                  \/ retrying' = FALSE /\ attempt' = 0 /\ UNCHANGED sleeping
                  \/ /\ retrying' = TRUE /\ attempt' = a /\ a \in 0..Retries - 1
                     /\ sleeping' = [sleeping EXCEPT ![a] = @ + 1]
            \/ /\ Len(ds) = Len(cg) /\ attempt' = 0 /\ retrying' = FALSE /\ UNCHANGED sleeping
               /\ uuids' = IF cg = << >> THEN uuids ELSE cg
               /\ last' = Config(ScreensOf(ds), ScreenSpaces(uuids'))
               /\ \/ UNCHANGED <<last, smQ>>
                  \/ smQ' = Append(smQ, [kind |-> "screens", config |-> last'])
<1>1. CASE Len(ds) # Len(cg)
  <2>1. ScheduleRetry(a, r) /\ UNCHANGED <<uuids, last, smQ>>
    BY <1>1 DEF HandleScreens
  <2>2. CASE r
    BY <1>1, <2>1, <2>2 DEF ScheduleRetry, RInv, WsTypes
  <2>3. CASE ~r
    BY <1>1, <2>1, <2>3, SpacesAssumption DEF ScheduleRetry
  <2>. QED  BY <2>2, <2>3
<1>2. CASE Len(ds) = Len(cg)
  BY <1>2 DEF HandleScreens
<1>. QED  BY <1>1, <1>2

(* What the window server does with each message. *)
LEMMA WsShape ==
  ASSUME RInv, WsHandles
  PROVE  /\ wsQ # << >> /\ wsQ' = Tail(wsQ)
         /\ UNCHANGED <<systemVars, acts, wmQ, hotkeys, smVars, outVars>>
         /\ \E e \in WsMessage : e = Head(wsQ) /\
              \/ /\ e.kind = "screens" /\ HandleScreens(e.displays, attempt, retrying)
                 /\ e.displays \in Arrangements
              \/ /\ e.kind = "retry" /\ retrying /\ e.attempt = attempt
                 /\ HandleScreens(e.displays, attempt + 1, FALSE)
                 /\ e.displays \in Arrangements
              \/ /\ e.kind = "retry" /\ ~(retrying /\ e.attempt = attempt)
                 /\ UNCHANGED <<smQ, wsVars>>
              \/ /\ e.kind = "spaces" /\ UNCHANGED wsVars
                 /\ smQ' = Append(smQ, [kind |-> "spaces", spaces |-> ScreenSpaces(uuids)])
<1>1. wsQ \in Seq(WsMessage)
  BY DEF RInv, Queues
<1>2. /\ wsQ # << >> /\ wsQ' = Tail(wsQ)
      /\ UNCHANGED <<systemVars, acts, wmQ, hotkeys, smVars, outVars>>
  BY DEF WsHandles
<1>3. PICK e \in WsMessage : e = Head(wsQ)
  BY <1>1, <1>2
<1>4. e.kind \in {"screens", "retry"} => e.displays \in Arrangements
  BY DEF WsMessage
<1>5. \/ e.kind = "screens" /\ HandleScreens(e.displays, attempt, retrying)
      \/ e.kind = "retry" /\ HandleRetry(e)
      \/ /\ e.kind = "spaces" /\ UNCHANGED wsVars
         /\ smQ' = Append(smQ, [kind |-> "spaces", spaces |-> ScreenSpaces(uuids)])
  BY <1>3 DEF WsHandles
<1>. QED  BY <1>2, <1>3, <1>4, <1>5 DEF HandleRetry

LEMMA TakenType ==
  ASSUME RInv, NEW ds \in Arrangements, uuids' = IF cg = << >> THEN uuids ELSE cg, cur' = cur,
         last' = Config(ScreensOf(ds), ScreenSpaces(uuids'))
  PROVE  /\ uuids' \in Arrangements \cup {<< >>} /\ last' \in Configs
         /\ [kind |-> "screens", config |-> last'] \in SmMessage
<1>1. uuids' \in Arrangements \cup {<< >>} /\ uuids' \in Seq(Display)
  BY Displays DEF RInv, WsTypes
<1>2. ScreensOf(ds) \in Seq(Display)
  BY Displays, ScreensOfShape
<1>3. ScreenSpaces(uuids') \in Seq(Space)
  <2>1. PICK us \in Seq(Display) : us = uuids'
    BY <1>1
  <2>2. ScreenSpaces(us) \in Seq(Space)
    BY ScreenSpacesType DEF RInv, WsTypes
  <2>. QED  BY <2>1, <2>2
<1>4. ScreenSpaces(uuids') \in Seq(Space \cup {NoSpace})
  <2>1. \A q \in Seq(Space) : q \in Seq(Space \cup {NoSpace})
    OBVIOUS
  <2>. QED  BY <1>3, <2>1
<1>. QED  BY <1>1, <1>2, <1>4 DEF Config, Configs, SmMessage

LEMMA WsRInv ==
  ASSUME RInv, WsHandles
  PROVE  RInv'
<1>1. /\ wsQ # << >> /\ wsQ' = Tail(wsQ)
      /\ UNCHANGED <<systemVars, acts, wmQ, hotkeys, smVars, outVars>>
  BY WsShape
<1>2. wmQ \in Seq(WmMessage) /\ wsQ \in Seq(WsMessage) /\ smQ \in Seq(SmMessage)
  BY DEF RInv, Queues
<1>. PICK e \in WsMessage : e = Head(wsQ) /\
              \/ /\ e.kind = "screens" /\ HandleScreens(e.displays, attempt, retrying)
                 /\ e.displays \in Arrangements
              \/ /\ e.kind = "retry" /\ retrying /\ e.attempt = attempt
                 /\ HandleScreens(e.displays, attempt + 1, FALSE)
                 /\ e.displays \in Arrangements
              \/ /\ e.kind = "retry" /\ ~(retrying /\ e.attempt = attempt)
                 /\ UNCHANGED <<smQ, wsVars>>
              \/ /\ e.kind = "spaces" /\ UNCHANGED wsVars
                 /\ smQ' = Append(smQ, [kind |-> "spaces", spaces |-> ScreenSpaces(uuids)])
  BY WsShape
<1>3. Tail(wsQ) \in Seq(WsMessage)
  BY <1>1, <1>2
<1>4. SmTypes' /\ OutTypes'
  BY <1>1 DEF RInv, SmTypes, OutTypes, smVars, outVars
<1>5. ASSUME UNCHANGED wsVars, smQ' \in Seq(SmMessage), retrying => e \notin RetryFor(attempt)
      PROVE  RInv'
  <2>1. WsTypes'
    BY <1>1, <1>5 DEF RInv, WsTypes, systemVars, wsVars
  <2>2. /\ RefreshFor(attempt)' = RefreshFor(attempt) /\ RetryFor(attempt)' = RetryFor(attempt)
        /\ UNCHANGED <<retrying, sleeping, attempt>>
    BY <1>5 DEF wsVars, RefreshFor, RetryFor
  <2>3. retrying /\ Has(wsQ, RetryFor(attempt)) => Has(wsQ', RetryFor(attempt))
    BY <1>1, <1>2, <1>5, HasTail
  <2>4. RetryComes'
    BY <1>1, <2>2, <2>3 DEF RInv, RetryComes
  <2>. QED  BY <1>1, <1>2, <1>3, <1>4, <1>5, <2>1, <2>4 DEF RInv, Queues
<1>6. ASSUME NEW a \in 0..Retries, NEW r \in BOOLEAN, r => retrying /\ a = attempt,
             HandleScreens(e.displays, a, r), e.displays \in Arrangements,
             r => e \notin RetryFor(attempt)
      PROVE  RInv'
  <2>. PICK ds \in Arrangements : ds = e.displays
    BY <1>6
  <2>1. /\ \/ /\ Len(ds) # Len(cg) /\ UNCHANGED <<uuids, last, smQ>>
              /\ \/ /\ r /\ retrying = TRUE /\ retrying' = TRUE /\ attempt' = attempt
                    /\ UNCHANGED sleeping
                 \/ retrying' = FALSE /\ attempt' = 0 /\ UNCHANGED sleeping
                 \/ /\ retrying' = TRUE /\ attempt' = a /\ a \in 0..Retries - 1
                    /\ sleeping' = [sleeping EXCEPT ![a] = @ + 1]
           \/ /\ Len(ds) = Len(cg) /\ attempt' = 0 /\ retrying' = FALSE /\ UNCHANGED sleeping
              /\ uuids' = IF cg = << >> THEN uuids ELSE cg
              /\ last' = Config(ScreensOf(ds), ScreenSpaces(uuids'))
              /\ \/ UNCHANGED <<last, smQ>>
                 \/ smQ' = Append(smQ, [kind |-> "screens", config |-> last'])
    BY <1>6, ScreensHandled
  <2>2. /\ attempt' \in 0..Retries /\ retrying' \in BOOLEAN /\ (retrying' => attempt' < Retries)
        /\ sleeping' \in [0..Retries - 1 -> Nat]
    <3>1. /\ attempt \in 0..Retries /\ (retrying => attempt < Retries) /\ Retries \in Nat
          /\ sleeping \in [0..Retries - 1 -> Nat]
      BY SpacesAssumption DEF RInv, WsTypes
    <3>2. CASE retrying' = FALSE /\ attempt' = 0 /\ UNCHANGED sleeping
      <4>1. 0 \in 0..Retries
        BY <3>1
      <4>. QED  BY <3>1, <3>2, <4>1
    <3>4. CASE r /\ retrying = TRUE /\ retrying' = TRUE /\ attempt' = attempt /\ UNCHANGED sleeping
      BY <3>1, <3>4
    <3>3. CASE /\ retrying' = TRUE /\ attempt' = a /\ a \in 0..Retries - 1
               /\ sleeping' = [sleeping EXCEPT ![a] = @ + 1]
      <4>1. sleeping' \in [0..Retries - 1 -> Nat]
        BY <3>1, <3>3
      <4>. QED  BY <3>1, <3>3, <4>1
    <3>. QED  BY <2>1, <3>2, <3>3, <3>4
  <2>3. uuids' \in Arrangements \cup {<< >>} /\ last' \in Configs /\ smQ' \in Seq(SmMessage)
    <3>1. CASE UNCHANGED <<uuids, last, smQ>>
      BY <1>2, <3>1 DEF RInv, WsTypes
    <3>2. CASE ~UNCHANGED <<uuids, last, smQ>>
      <4>1. /\ uuids' \in Arrangements \cup {<< >>} /\ last' \in Configs
            /\ [kind |-> "screens", config |-> last'] \in SmMessage
        BY <1>1, <2>1, <3>2, TakenType DEF systemVars
      <4>2. UNCHANGED smQ \/ smQ' = Append(smQ, [kind |-> "screens", config |-> last'])
        BY <2>1
      <4>. QED  BY <1>2, <4>1, <4>2, Grows
    <3>. QED  BY <3>1, <3>2
  <2>4. WsTypes'
    BY <1>1, <2>2, <2>3 DEF RInv, WsTypes, systemVars
  <2>5. RetryComes'
    <3>1. CASE r /\ retrying = TRUE /\ retrying' = TRUE /\ attempt' = attempt /\ UNCHANGED sleeping
      <4>1. RefreshFor(attempt)' = RefreshFor(attempt) /\ RetryFor(attempt)' = RetryFor(attempt)
        BY <3>1 DEF RefreshFor, RetryFor
      <4>2. Has(wsQ, RetryFor(attempt)) => Has(wsQ', RetryFor(attempt))
        BY <1>1, <1>2, <1>6, <3>1, HasTail
      <4>. QED  BY <1>1, <3>1, <4>1, <4>2 DEF RInv, RetryComes
    <3>2. CASE retrying' = FALSE
      BY <3>2 DEF RetryComes
    <3>3. CASE /\ retrying' = TRUE /\ attempt' = a /\ a \in 0..Retries - 1
               /\ sleeping' = [sleeping EXCEPT ![a] = @ + 1]
      <4>1. sleeping'[a] > 0
        BY <3>3 DEF RInv, WsTypes
      <4>. QED  BY <3>3, <4>1 DEF RetryComes
    <3>. QED  BY <2>1, <3>1, <3>2, <3>3
  <2>. QED  BY <1>1, <1>2, <1>3, <1>4, <2>3, <2>4, <2>5 DEF RInv, Queues
<1>7. CASE e.kind = "screens" /\ HandleScreens(e.displays, attempt, retrying) /\ e.displays \in Arrangements
  <2>1. e \notin RetryFor(attempt) /\ attempt \in 0..Retries /\ retrying \in BOOLEAN
    BY <1>7 DEF RetryFor, RInv, WsTypes
  <2>. QED  BY <1>6, <1>7, <2>1
<1>8. CASE /\ e.kind = "retry" /\ retrying /\ e.attempt = attempt
           /\ HandleScreens(e.displays, attempt + 1, FALSE) /\ e.displays \in Arrangements
  <2>1. attempt + 1 \in 0..Retries
    BY <1>8, SpacesAssumption DEF RInv, WsTypes
  <2>. QED  BY <1>6, <1>8, <2>1
<1>9. CASE /\ e.kind = "retry" /\ ~(retrying /\ e.attempt = attempt)
           /\ UNCHANGED <<smQ, wsVars>>
  BY <1>2, <1>5, <1>9 DEF RetryFor
<1>10. CASE /\ e.kind = "spaces" /\ UNCHANGED wsVars
            /\ smQ' = Append(smQ, [kind |-> "spaces", spaces |-> ScreenSpaces(uuids)])
  <2>1. ScreenSpaces(uuids) \in Seq(Space)
    BY Displays, ScreenSpacesType DEF RInv, WsTypes
  <2>2. [kind |-> "spaces", spaces |-> ScreenSpaces(uuids)] \in SmMessage
    BY <2>1 DEF SmMessage
  <2>3. smQ' \in Seq(SmMessage)
    BY <1>2, <1>10, <2>2, Grows
  <2>. QED  BY <1>5, <1>10, <2>3 DEF RetryFor
<1>. QED  BY <1>7, <1>8, <1>9, <1>10

(* The focused space is one of the space manager's spaces. *)
LEMMA FocusedSpaceShape ==
  ASSUME curSpace \in Seq(Space \cup {NoSpace}), curScreens \in Seq(Display)
  PROVE  FocusedSpace # NoSpace =>
           FocusedSpace \in Space /\ \E i \in DOMAIN curSpace : FocusedSpace = curSpace[i]
<1>1. \A i \in DOMAIN curSpace : curSpace[i] \in Space \cup {NoSpace}
  OBVIOUS
<1>2. FirstSpace # NoSpace => \E i \in DOMAIN curSpace : FirstSpace = curSpace[i]
  <2>1. curSpace # << >> => 1 \in DOMAIN curSpace
    OBVIOUS
  <2>. QED  BY <2>1 DEF FirstSpace
<1>3. ASSUME NEW d, SpaceForScreen(d) # NoSpace
      PROVE  \E i \in DOMAIN curSpace : SpaceForScreen(d) = curSpace[i]
  <2>. DEFINE is == {i \in DOMAIN curScreens \cap DOMAIN curSpace : curScreens[i] = d}
              m == CHOOSE i \in is : \A j \in is : i <= j
  <2>1. is # {} /\ SpaceForScreen(d) = curSpace[m]
    BY <1>3 DEF SpaceForScreen
  <2>2. is \subseteq Nat /\ is \subseteq DOMAIN curSpace
    OBVIOUS
  <2>3. m \in is
    <3>. HIDE DEF is
    <3>1. \E i \in is : \A j \in is : i <= j
      BY <2>1, <2>2, Smallest
    <3>. QED  BY <3>1
  <2>. HIDE DEF is, m
  <2>. QED  BY <2>1, <2>2, <2>3
<1>4. FocusedSpace # NoSpace => \E i \in DOMAIN curSpace : FocusedSpace = curSpace[i]
  BY <1>2, <1>3 DEF FocusedSpace
<1>. QED  BY <1>1, <1>4

LEMMA ListType ==
  ASSUME NEW S, NEW n \in Nat, NEW f \in [1..n -> S]
  PROVE  f \in Seq(S)
OBVIOUS

LEMMA Elements ==
  ASSUME NEW S, NEW q \in Seq(S)
  PROVE  \A i \in DOMAIN q : q[i] \in S
OBVIOUS

LEMMA Overlap ==
  ASSUME NEW m \in Nat, NEW n \in Nat
  PROVE  \E k \in Nat : 1..m \cap 1..n = 1..k /\ (m <= n => k = m) /\ (n <= m => k = n)
<1>1. CASE m <= n
  BY <1>1
<1>2. CASE n <= m
  BY <1>2
<1>. QED  BY <1>1, <1>2

(* What every message does to the queues. *)
LEMMA SmShape ==
  ASSUME RInv, SmHandles
  PROVE  /\ smQ # << >> /\ smQ' = Tail(smQ) /\ Head(smQ) \in SmMessage
         /\ UNCHANGED <<systemVars, acts, hotkeys, wsVars>>
         /\ \/ UNCHANGED wmQ
            \/ wmQ' = Append(wmQ, HotkeysMessage(hotkeysActive')) /\ hotkeysActive' \in BOOLEAN
         /\ UNCHANGED wsQ \/ wsQ' = Append(wsQ, Refresh)
<1>1. /\ smQ # << >> /\ smQ' = Tail(smQ)
      /\ UNCHANGED <<systemVars, acts, hotkeys, wsVars>>
  BY DEF SmHandles
<1>2. Head(smQ) \in SmMessage
  BY <1>1 DEF RInv, Queues
<1>3. ASSUME NEW ss, SetSpaces(ss)
      PROVE  /\ \/ UNCHANGED wmQ
                \/ wmQ' = Append(wmQ, HotkeysMessage(hotkeysActive')) /\ hotkeysActive' \in BOOLEAN
             /\ UNCHANGED wsQ
  BY <1>3 DEF SetSpaces, HotkeysDue
<1>4. ASSUME NEW b, ConfigUpdated(b)
      PROVE  /\ wmQ' = Append(wmQ, HotkeysMessage(hotkeysActive')) /\ hotkeysActive' \in BOOLEAN
             /\ wsQ' = Append(wsQ, Refresh)
  BY <1>4 DEF ConfigUpdated, RequestRefresh, RInv, SmTypes
<1>5. ASSUME NEW b, LoginWindowActive(b) \/ ExposeActive(b) \/ SetGlobalEnabled(b)
      PROVE  UNCHANGED wmQ /\ (UNCHANGED wsQ \/ wsQ' = Append(wsQ, Refresh))
  BY <1>5 DEF LoginWindowActive, ExposeActive, SetGlobalEnabled, RequestRefresh
<1>6. ASSUME NEW d, SetFocusedScreen(d) \/ ToggleFocusedSpace
      PROVE  UNCHANGED wmQ /\ (UNCHANGED wsQ \/ wsQ' = Append(wsQ, Refresh))
  BY <1>6 DEF SetFocusedScreen, ToggleFocusedSpace, RequestRefresh
<1>. QED  BY <1>1, <1>2, <1>3, <1>4, <1>5, <1>6 DEF SmHandles, HandleScreenParameters, HandleSpaces

LEMMA SmQueues ==
  ASSUME RInv, SmHandles
  PROVE  WsTypes' /\ Queues' /\ RetryComes'
<1>1. wmQ \in Seq(WmMessage) /\ wsQ \in Seq(WsMessage) /\ smQ \in Seq(SmMessage)
  BY DEF RInv, Queues
<1>2. /\ smQ # << >> /\ smQ' = Tail(smQ) /\ UNCHANGED <<systemVars, wsVars>>
      /\ \/ UNCHANGED wmQ
         \/ wmQ' = Append(wmQ, HotkeysMessage(hotkeysActive')) /\ hotkeysActive' \in BOOLEAN
      /\ UNCHANGED wsQ \/ wsQ' = Append(wsQ, Refresh)
  BY SmShape
<1>3. WsTypes'
  BY <1>2 DEF RInv, WsTypes, systemVars, wsVars
<1>4. \A b \in BOOLEAN : HotkeysMessage(b) \in WmMessage
  BY DEF HotkeysMessage, WmMessage
<1>5. Refresh \in WsMessage
  BY DEF Refresh, WsMessage
<1>6. Queues'
  <2>1. smQ' \in Seq(SmMessage)
    BY <1>1, <1>2
  <2>. QED  BY <1>1, <1>2, <1>4, <1>5, <2>1, Grows DEF Queues
<1>7. RefreshFor(attempt)' = RefreshFor(attempt) /\ RetryFor(attempt)' = RetryFor(attempt)
      /\ UNCHANGED <<retrying, attempt, sleeping>>
  BY <1>2 DEF wsVars, RefreshFor, RetryFor
<1>8. Has(wmQ, RefreshFor(attempt)) => Has(wmQ', RefreshFor(attempt))
  <2>1. CASE wmQ' = Append(wmQ, HotkeysMessage(hotkeysActive'))
    BY <1>1, <2>1, HasAppend
  <2>. QED  BY <1>2, <2>1
<1>9. Has(wsQ, RetryFor(attempt)) => Has(wsQ', RetryFor(attempt))
  <2>1. CASE wsQ' = Append(wsQ, Refresh)
    BY <1>1, <2>1, HasAppend
  <2>. QED  BY <1>2, <2>1
<1>10. RetryComes'
  BY <1>7, <1>8, <1>9 DEF RInv, RetryComes
<1>. QED  BY <1>3, <1>6, <1>10

LEMMA SmRInv ==
  ASSUME RInv, SmHandles
  PROVE  RInv'
<1>1. SmTypes /\ OutTypes /\ UNCHANGED hotkeys /\ UNCHANGED oneSpace
  BY DEF RInv, SmHandles, systemVars
<1>2. FocusedActive' \in BOOLEAN /\ Grouped \subseteq Space
  BY SpacesAssumption DEF FocusedActive, IsSpaceActive
<1>3. ASSUME NEW ss \in Seq(Space \cup {NoSpace}), SetSpaces(ss), curScreens' \in Seq(Display)
      PROVE  SmTypes'
  <2>1. FirstSpace' \in Space \cup {NoSpace}
    BY <1>3 DEF SetSpaces, FirstSpace
  <2>2. hotkeysActive' \in BOOLEAN
    BY <1>3 DEF SetSpaces, HotkeysDue
  <2>. QED  BY <1>1, <1>3, <2>1, <2>2 DEF SetSpaces, SmTypes
<1>4. ASSUME SmTypes' PROVE \A i \in DOMAIN curSpace' : ActiveSpaces'[i] \in Space \cup {NoSpace}
  BY <1>4 DEF SmTypes, ActiveSpaces
<1>. PICK e \in SmMessage : e = Head(smQ)
  BY SmShape
<1>5. CASE e.kind = "screens" /\ HandleScreenParameters(e)
  <2>1. e.config \in Configs
    BY <1>5 DEF SmMessage, Plain
  <2>2. SmTypes'
    BY <1>3, <1>5, <2>1 DEF HandleScreenParameters, Configs
  <2>3. screens' \in Seq([screen : Display, space : Space \cup {NoSpace}])
    <3>1. /\ curScreens' \in Seq(Display) /\ curSpace' \in Seq(Space \cup {NoSpace})
          /\ screens' = [i \in DOMAIN curScreens' \cap DOMAIN curSpace' |->
                          [screen |-> curScreens'[i], space |-> ActiveSpaces'[i]]]
      BY <1>5, <2>2 DEF SmTypes, HandleScreenParameters
    <3>2. PICK k \in Nat : DOMAIN curScreens' \cap DOMAIN curSpace' = 1..k
      <4>1. PICK m \in Nat, n \in Nat : DOMAIN curScreens' = 1..m /\ DOMAIN curSpace' = 1..n
        <5>1. /\ DOMAIN curScreens' = 1..Len(curScreens') /\ DOMAIN curSpace' = 1..Len(curSpace')
              /\ Len(curScreens') \in Nat /\ Len(curSpace') \in Nat
          BY <3>1
        <5>. QED  BY <5>1
      <4>2. \E k \in Nat : 1..m \cap 1..n = 1..k
        BY Overlap
      <4>. QED  BY <4>1, <4>2
    <3>3. \A i \in 1..k : curScreens'[i] \in Display /\ ActiveSpaces'[i] \in Space \cup {NoSpace}
      BY <1>4, <2>2, <3>1, <3>2
    <3>4. screens' \in [1..k -> [screen : Display, space : Space \cup {NoSpace}]]
      BY <3>1, <3>2, <3>3
    <3>. QED  BY <3>4, ListType
  <2>4. OutTypes'
    BY <1>1, <1>2, <1>5, <2>3 DEF HandleScreenParameters, UpdateLayout, GroupsUpdated, OutTypes
  <2>. QED  BY <2>2, <2>4, SmQueues DEF RInv
<1>6. CASE e.kind = "spaces" /\ HandleSpaces(e)
  <2>1. e.spaces \in Seq(Space \cup {NoSpace})
    <3>1. e.spaces \in Seq(Space)
      BY <1>6 DEF SmMessage, Plain
    <3>2. \A q \in Seq(Space) : q \in Seq(Space \cup {NoSpace})
      OBVIOUS
    <3>. QED  BY <3>1, <3>2
  <2>2. SmTypes'
    BY <1>1, <1>3, <1>6, <2>1 DEF HandleSpaces, SmTypes
  <2>3. CASE UNCHANGED <<screens, bars>>
    BY <1>1, <1>2, <1>6, <2>2, <2>3, SmQueues DEF HandleSpaces, OutTypes, RInv
  <2>4. CASE /\ Len(curSpace') = Len(screens) /\ UpdateLayout
             /\ screens' = [i \in DOMAIN screens |-> [screens[i] EXCEPT !.space = ActiveSpaces'[i]]]
    <3>1. DOMAIN screens = 1..Len(screens) /\ DOMAIN curSpace' = DOMAIN screens /\ Len(screens) \in Nat
      BY <1>1, <2>2, <2>4 DEF SmTypes, OutTypes
    <3>2. \A i \in DOMAIN screens : screens[i] \in [screen : Display, space : Space \cup {NoSpace}]
      BY <1>1, Elements DEF OutTypes
    <3>3. \A i \in DOMAIN screens : ActiveSpaces'[i] \in Space \cup {NoSpace}
      BY <1>4, <2>2, <3>1
    <3>4. screens' \in [1..Len(screens) -> [screen : Display, space : Space \cup {NoSpace}]]
      BY <2>4, <3>1, <3>2, <3>3
    <3>5. screens' \in Seq([screen : Display, space : Space \cup {NoSpace}])
      BY <3>1, <3>4, ListType
    <3>6. OutTypes'
      BY <1>1, <1>2, <1>6, <2>4, <3>5 DEF HandleSpaces, UpdateLayout, GroupsUpdated, OutTypes
    <3>. QED  BY <2>2, <3>6, SmQueues DEF RInv
  <2>. QED  BY <1>6, <2>3, <2>4 DEF HandleSpaces
<1>7. CASE e.kind = "focused" /\ SetFocusedScreen(e.screen)
  <2>1. <<e.screen>> \in Seq(Display)
    <3>1. PICK d \in Display : d = e.screen
      BY <1>7 DEF SmMessage, Plain
    <3>. QED  BY <3>1
  <2>2. SmTypes' /\ OutTypes'
    BY <1>1, <1>2, <1>7, <2>1 DEF SetFocusedScreen, SmTypes, OutTypes
  <2>. QED  BY <2>2, SmQueues DEF RInv
<1>8. CASE ToggleFocusedSpace
  <2>1. CASE FocusedSpace = NoSpace
    BY <1>1, <1>8, <2>1, SmQueues DEF ToggleFocusedSpace, SmTypes, OutTypes, smVars, outVars, RInv
  <2>2. CASE FocusedSpace # NoSpace
    <3>1. FocusedSpace \in Space
      BY <1>1, <2>2, FocusedSpaceShape DEF SmTypes
    <3>2. enabled' \subseteq Space /\ disabled' \subseteq Space /\ bars' \subseteq Space
      BY <1>1, <1>8, <2>2, <3>1 DEF ToggleFocusedSpace, HideBars, SmTypes, OutTypes
    <3>3. /\ UNCHANGED <<curScreens, curSpace, starting, focused, login, expose, globally,
                         hotkeysActive, dd, screens>>
          /\ shown' = FocusedActive'
      BY <1>8, <2>2 DEF ToggleFocusedSpace
    <3>4. SmTypes' /\ OutTypes'
      BY <1>1, <1>2, <3>2, <3>3 DEF SmTypes, OutTypes
    <3>. QED  BY <3>4, SmQueues DEF RInv
  <2>. QED  BY <2>1, <2>2
<1>9. ASSUME NEW b \in BOOLEAN, SetGlobalEnabled(b) PROVE RInv'
  <2>1. CASE b = globally
    BY <1>1, <1>9, <2>1, SmQueues DEF SetGlobalEnabled, SmTypes, OutTypes, smVars, outVars, RInv
  <2>2. CASE b # globally
    <3>1. ToSet(curSpace) \ {NoSpace} \subseteq Space
      BY <1>1 DEF SmTypes, ToSet
    <3>2. /\ globally' = b /\ shown' = FocusedActive'
          /\ UNCHANGED <<curScreens, curSpace, starting, disabled, focused, login, expose,
                         hotkeysActive, dd, screens>>
      BY <1>9, <2>2 DEF SetGlobalEnabled
    <3>3. enabled' \subseteq Space /\ bars' \subseteq Space
      BY <1>1, <1>9, <2>2, <3>1 DEF SetGlobalEnabled, HideBars, SmTypes, OutTypes
    <3>4. SmTypes' /\ OutTypes'
      BY <1>1, <1>2, <1>9, <3>2, <3>3 DEF SmTypes, OutTypes
    <3>. QED  BY <3>4, SmQueues DEF RInv
  <2>. QED  BY <2>1, <2>2
<1>10. ASSUME NEW b \in BOOLEAN, LoginWindowActive(b) \/ ExposeActive(b) PROVE RInv'
  <2>1. SmTypes' /\ OutTypes'
    BY <1>1, <1>10 DEF LoginWindowActive, ExposeActive, SmTypes, OutTypes, outVars
  <2>. QED  BY <2>1, SmQueues DEF RInv
<1>11. ASSUME NEW b \in BOOLEAN, ConfigUpdated(b) PROVE RInv'
  <2>1. SmTypes' /\ OutTypes'
    BY <1>1, <1>2, <1>11 DEF ConfigUpdated, UpdateLayout, GroupsUpdated, SmTypes, OutTypes
  <2>. QED  BY <2>1, SmQueues DEF RInv
<1>12. globally \in BOOLEAN /\ dd \in BOOLEAN
  BY <1>1 DEF SmTypes
<1>. QED  BY <1>5, <1>6, <1>7, <1>8, <1>9, <1>10, <1>11, <1>12 DEF SmHandles

LEMMA NextRInv == RInv /\ [Next]_vars => RInv'
<1>. SUFFICES ASSUME RInv, [Next]_vars PROVE RInv'
  OBVIOUS
<1>1. CASE ReactorEvent
  <2>1. bars' \subseteq Space
    BY <1>1, SpacesAssumption DEF ReactorEvent, UpdateLayout, GroupsUpdated, RInv, OutTypes
  <2>2. UNCHANGED <<systemVars, wmQ, wsQ, smQ, hotkeys, wsVars, smVars, screens, shown>>
    BY <1>1 DEF ReactorEvent
  <2>. QED  BY <2>1, <2>2 DEF RInv, WsTypes, SmTypes, OutTypes, Queues, RetryComes, RefreshFor,
                              RetryFor, systemVars, wsVars, smVars
<1>2. CASE UNCHANGED vars
  BY <1>2 DEF vars, RInv, WsTypes, SmTypes, OutTypes, Queues, RetryComes, RefreshFor,
              RetryFor, systemVars, wsVars, smVars, outVars
<1>. QED  BY <1>1, <1>2, SystemRInv, CommandRInv, WmRInv, WsRInv, WakeRInv, SmRInv DEF Next

THEOREM RetriesInvariant == Spec => []RInv
<1>. QED  BY InitRInv, NextRInv, PTL DEF Spec

(* The retry that is pending comes, and retries stay within their number:  *)
(* after displays that disagreed, another look is never ruled out by a     *)
(* flag nobody takes down.                                                 *)
THEOREM RetriesSoundHolds == Spec => []RetriesSound
<1>. QED  BY RetriesInvariant, RInvSound, PTL

-----------------------------------------------------------------------------
(* The hotkeys. *)

Reloads == {e \in SmMessage : e.kind \in {"reload", "flip"}}
AnyHotkeys == {e \in WmMessage : e.kind = "hotkeys"}
HotkeysAre(b) == {e \in WmMessage : e.kind = "hotkeys" /\ e.active = b}

(* What the space manager thinks of the hotkeys is due, and is the last    *)
(* thing that was or will be said about them.                              *)
HotkeysComing ==
  /\ hotkeysActive = HotkeysDue
  /\ \/ Has(smQ, Reloads)
     \/ EndsIn(wmQ, AnyHotkeys, HotkeysAre(hotkeysActive))
     \/ hotkeys = hotkeysActive /\ Without(wmQ, AnyHotkeys)

LEMMA EmptyQueue ==
  ASSUME NEW K, NEW G
  PROVE  Without(<< >>, K) /\ ~EndsIn(<< >>, K, G) /\ ~Has(<< >>, K)
BY DEF Without, EndsIn, Has

LEMMA InitHotkeysComing == Init => HotkeysComing
BY EmptyQueue, SpacesAssumption DEF Init, HotkeysComing, HotkeysDue

LEMMA CommandHotkeys ==
  ASSUME RInv, HotkeysComing, NEW c \in Commands, Command(c)
  PROVE  HotkeysComing'
<1>1. smQ \in Seq(SmMessage)
  BY DEF RInv, Queues
<1>2. UNCHANGED <<wmQ, hotkeysActive>> /\ (hotkeysActive = HotkeysDue => hotkeysActive' = HotkeysDue')
  <2>1. UNCHANGED <<wmQ, hotkeysActive, oneSpace, starting, curSpace>>
    BY DEF Command, systemVars, smVars
  <2>. QED  BY <2>1 DEF HotkeysDue, FirstSpace
<1>3. CASE UNCHANGED smQ /\ UNCHANGED hotkeys
  BY <1>2, <1>3 DEF HotkeysComing
<1>4. CASE \E e \in SmMessage :
             /\ smQ' = Append(smQ, e) /\ e.kind \in Plain \cup {"focused"}
             /\ UNCHANGED hotkeys \/ (hotkeys' = FALSE /\ e.kind \in {"reload", "flip"})
  <2>. PICK e \in SmMessage :
         /\ smQ' = Append(smQ, e)
         /\ UNCHANGED hotkeys \/ (hotkeys' = FALSE /\ e.kind \in {"reload", "flip"})
    BY <1>4
  <2>1. Has(smQ', Reloads) <=> Has(smQ, Reloads) \/ e \in Reloads
    BY <1>1, HasAppend
  <2>2. UNCHANGED hotkeys \/ e \in Reloads
    BY DEF Reloads
  <2>. QED  BY <1>2, <2>1, <2>2 DEF HotkeysComing
<1>5. CASE \E e, g \in SmMessage :
             /\ smQ' = Append(Append(smQ, e), g) /\ UNCHANGED hotkeys
             /\ e.kind \in Plain \cup {"focused"} /\ g.kind \in Plain \cup {"focused"}
  <2>. PICK e \in SmMessage, g \in SmMessage : smQ' = Append(Append(smQ, e), g) /\ UNCHANGED hotkeys
    BY <1>5
  <2>. PICK q \in Seq(SmMessage) : q = Append(smQ, e)
    BY <1>1, Grows
  <2>1. Has(q, Reloads) <=> Has(smQ, Reloads) \/ e \in Reloads
    BY <1>1, HasAppend
  <2>2. Has(smQ', Reloads) <=> Has(q, Reloads) \/ g \in Reloads
    BY HasAppend
  <2>. QED  BY <1>2, <2>1, <2>2 DEF HotkeysComing
<1>. QED  BY <1>3, <1>4, <1>5, CommandShape

LEMMA WmHotkeys ==
  ASSUME RInv, HotkeysComing, WmHandles
  PROVE  HotkeysComing'
<1>1. wmQ \in Seq(WmMessage) /\ wmQ # << >> /\ wmQ' = Tail(wmQ)
  BY DEF WmHandles, SetHotkeys, RefreshScreenParameters, RInv, Queues
<1>2. UNCHANGED <<smQ, hotkeysActive>> /\ (hotkeysActive = HotkeysDue => hotkeysActive' = HotkeysDue')
  BY DEF WmHandles, SetHotkeys, RefreshScreenParameters, systemVars, smVars, HotkeysDue, FirstSpace
<1>. PICK e \in WmMessage : e = Head(wmQ)
  BY <1>1
<1>3. \/ e \notin AnyHotkeys /\ UNCHANGED hotkeys
      \/ e \in AnyHotkeys /\ hotkeys' = e.active
  BY DEF WmHandles, SetHotkeys, RefreshScreenParameters, AnyHotkeys
<1>. PICK K, G : K = AnyHotkeys /\ G = HotkeysAre(hotkeysActive)
  OBVIOUS
<1>4. e \in G => e \in AnyHotkeys /\ e.active = hotkeysActive
  BY DEF AnyHotkeys, HotkeysAre
<1>5. EndsIn(wmQ, K, G) => EndsIn(wmQ', K, G) \/ (e \in G /\ Without(wmQ', K))
  BY <1>1, EndsInTail
<1>6. Without(wmQ, K) => Without(wmQ', K) /\ e \notin K
  BY <1>1, WithoutTail
<1>. QED  BY <1>2, <1>3, <1>4, <1>5, <1>6 DEF HotkeysComing

LEMMA SmHotkeys ==
  ASSUME RInv, HotkeysComing, SmHandles
  PROVE  HotkeysComing'
<1>1. wmQ \in Seq(WmMessage) /\ smQ \in Seq(SmMessage)
  BY DEF RInv, Queues
<1>2. /\ smQ # << >> /\ smQ' = Tail(smQ) /\ Head(smQ) \in SmMessage
      /\ UNCHANGED hotkeys /\ UNCHANGED oneSpace
      /\ \/ UNCHANGED wmQ
         \/ wmQ' = Append(wmQ, HotkeysMessage(hotkeysActive')) /\ hotkeysActive' \in BOOLEAN
  BY SmShape DEF systemVars
<1>3. ASSUME NEW ss, SetSpaces(ss)
      PROVE  /\ hotkeysActive' = HotkeysDue'
             /\ \/ UNCHANGED <<wmQ, hotkeysActive>>
                \/ wmQ' = Append(wmQ, HotkeysMessage(hotkeysActive'))
  BY <1>3 DEF SetSpaces
<1>4. ASSUME UNCHANGED <<curSpace, starting, hotkeysActive>>
      PROVE  hotkeysActive' = HotkeysDue'
  BY <1>2, <1>4 DEF HotkeysComing, HotkeysDue, FirstSpace
<1>. PICK e \in SmMessage : e = Head(smQ)
  BY <1>2
<1>5. /\ hotkeysActive' = HotkeysDue'
      /\ \/ UNCHANGED <<wmQ, hotkeysActive>> /\ e \notin Reloads
         \/ wmQ' = Append(wmQ, HotkeysMessage(hotkeysActive'))
  <2>1. CASE e.kind = "screens" /\ HandleScreenParameters(e)
    BY <1>3, <2>1 DEF HandleScreenParameters, Reloads
  <2>2. CASE e.kind = "spaces" /\ HandleSpaces(e)
    BY <1>3, <2>2 DEF HandleSpaces, Reloads
  <2>3. CASE e.kind = "focused" /\ SetFocusedScreen(e.screen)
    BY <1>4, <2>3 DEF SetFocusedScreen, Reloads
  <2>4. CASE e.kind = "toggleSpace" /\ ToggleFocusedSpace
    BY <1>4, <2>4 DEF ToggleFocusedSpace, Reloads, smVars
  <2>5. ASSUME NEW b, e.kind \in {"toggleGlobal", "enable", "disable"}, SetGlobalEnabled(b)
        PROVE  UNCHANGED <<curSpace, starting, wmQ, hotkeysActive>> /\ e \notin Reloads
    BY <2>5 DEF SetGlobalEnabled, Reloads, smVars
  <2>6. ASSUME NEW b, e.kind \in {"login", "loginExit", "expose", "exposeExit"},
               LoginWindowActive(b) \/ ExposeActive(b)
        PROVE  UNCHANGED <<curSpace, starting, wmQ, hotkeysActive>> /\ e \notin Reloads
    BY <2>6 DEF LoginWindowActive, ExposeActive, Reloads
  <2>7. ASSUME NEW b, ConfigUpdated(b)
        PROVE  /\ UNCHANGED <<curSpace, starting, hotkeysActive>>
               /\ wmQ' = Append(wmQ, HotkeysMessage(hotkeysActive'))
    BY <2>7 DEF ConfigUpdated
  <2>8. CASE \/ e.kind = "toggleGlobal" /\ SetGlobalEnabled(~globally)
             \/ e.kind = "enable" /\ SetGlobalEnabled(TRUE)
             \/ e.kind = "disable" /\ SetGlobalEnabled(FALSE)
    <3>1. e.kind \in {"toggleGlobal", "enable", "disable"}
      BY <2>8
    <3>2. \E b : SetGlobalEnabled(b)
      BY <2>8, Zenon
    <3>. QED  BY <1>4, <2>5, <3>1, <3>2
  <2>9. CASE \/ e.kind = "login" /\ LoginWindowActive(TRUE)
             \/ e.kind = "loginExit" /\ LoginWindowActive(FALSE)
             \/ e.kind = "expose" /\ ExposeActive(TRUE)
             \/ e.kind = "exposeExit" /\ ExposeActive(FALSE)
    <3>1. e.kind \in {"login", "loginExit", "expose", "exposeExit"}
      BY <2>9
    <3>2. \E b : LoginWindowActive(b) \/ ExposeActive(b)
      BY <2>9, Zenon
    <3>. QED  BY <1>4, <2>6, <3>1, <3>2
  <2>10. CASE ConfigUpdated(dd) \/ ConfigUpdated(~dd)
    BY <1>4, <2>7, <2>10
  <2>. QED  BY <2>1, <2>2, <2>3, <2>4, <2>8, <2>9, <2>10 DEF SmHandles
<1>6. CASE UNCHANGED <<wmQ, hotkeysActive>> /\ e \notin Reloads
  <2>1. Has(smQ, Reloads) => Has(smQ', Reloads)
    BY <1>1, <1>2, <1>6, HasTail
  <2>. QED  BY <1>2, <1>5, <1>6, <2>1 DEF HotkeysComing
<1>7. CASE wmQ' = Append(wmQ, HotkeysMessage(hotkeysActive'))
  <2>1. hotkeysActive' \in BOOLEAN
    BY <1>5 DEF HotkeysDue
  <2>2. HotkeysMessage(hotkeysActive') \in HotkeysAre(hotkeysActive')
    BY <2>1 DEF HotkeysMessage, HotkeysAre, WmMessage
  <2>3. EndsIn(wmQ', AnyHotkeys, HotkeysAre(hotkeysActive'))
    BY <1>1, <1>7, <2>2, EndsInAppend
  <2>. QED  BY <1>5, <2>3 DEF HotkeysComing
<1>. QED  BY <1>5, <1>6, <1>7

LEMMA NextHotkeys ==
  ASSUME RInv, HotkeysComing, [Next]_vars
  PROVE  HotkeysComing'
<1>1. ASSUME UNCHANGED <<wmQ, hotkeys, hotkeysActive, curSpace, starting, oneSpace>>,
             Has(smQ, Reloads) => Has(smQ', Reloads)
      PROVE  HotkeysComing'
  BY <1>1 DEF HotkeysComing, HotkeysDue, FirstSpace
<1>2. CASE \/ \E ds \in Arrangements : ChangeDisplays(ds)
           \/ AppKitFollows
           \/ NotifyAgain
           \/ \E d \in Display, s \in Space : SwitchSpace(d, s)
           \/ ReactorEvent
           \/ UNCHANGED vars
  BY <1>1, <1>2 DEF ChangeDisplays, AppKitFollows, NotifyAgain, SwitchSpace, ReactorEvent, vars,
                    systemVars, smVars
<1>3. CASE WsHandles
  <2>1. UNCHANGED <<wmQ, hotkeys, hotkeysActive, curSpace, starting, oneSpace>>
    BY <1>3, WsShape DEF systemVars, smVars
  <2>2. smQ \in Seq(SmMessage)
    BY DEF RInv, Queues
  <2>3. UNCHANGED smQ \/ \E e : smQ' = Append(smQ, e)
    BY <1>3 DEF WsHandles, HandleScreens, HandleRetry, wsVars
  <2>4. Has(smQ, Reloads) => Has(smQ', Reloads)
    <3>1. ASSUME NEW e, smQ' = Append(smQ, e) PROVE Has(smQ, Reloads) => Has(smQ', Reloads)
      BY <2>2, <3>1, HasAppend
    <3>. QED  BY <2>3, <3>1
  <2>. QED  BY <1>1, <2>1, <2>4
<1>4. CASE \E a \in 0..Retries - 1 : RetryThreadWakes(a)
  <2>. PICK e : wmQ' = Append(wmQ, e) /\ e.kind = "refresh"
    BY <1>4 DEF RetryThreadWakes
  <2>1. UNCHANGED <<smQ, hotkeys, hotkeysActive, curSpace, starting, oneSpace>> /\ e \notin AnyHotkeys
    BY <1>4 DEF RetryThreadWakes, systemVars, smVars, AnyHotkeys
  <2>2. wmQ \in Seq(WmMessage)
    BY DEF RInv, Queues
  <2>. PICK K, G : K = AnyHotkeys /\ G = HotkeysAre(hotkeysActive)
    OBVIOUS
  <2>3. /\ EndsIn(wmQ, K, G) => EndsIn(wmQ', K, G)
        /\ Without(wmQ, K) => Without(wmQ', K)
    BY <2>1, <2>2, EndsInAppend, WithoutAppend
  <2>. QED  BY <2>1, <2>3 DEF HotkeysComing, HotkeysDue, FirstSpace
<1>. QED  BY <1>2, <1>3, <1>4, CommandHotkeys, WmHotkeys, SmHotkeys DEF Next

(* However often the configuration is reloaded, and whatever changes while *)
(* messages are on their way, the hotkeys end up registered if and only if *)
(* they are due.                                                           *)
THEOREM HotkeysFollowHolds == Spec => []HotkeysFollow
<1>1. HotkeysComing => HotkeysFollow
  BY EmptyQueue DEF HotkeysComing, HotkeysFollow, Quiet
<1>2. RInv /\ HotkeysComing /\ [Next]_vars => HotkeysComing'
  BY NextHotkeys
<1>3. Spec => []HotkeysComing
  BY InitHotkeysComing, RetriesInvariant, <1>2, PTL DEF Spec
<1>. QED  BY <1>1, <1>3, PTL

-----------------------------------------------------------------------------
(* What the reactor and the status icon will have heard. *)

Announces(ds) == {e \in WsMessage : e.kind = "screens" /\ e.displays = ds}
Stale(ds) == {e \in WsMessage : e.kind \in {"screens", "retry"} /\ e.displays # ds}
Refreshes == {e \in WsMessage : e.kind = "spaces"}

Configures == {e \in SmMessage : e.kind = "screens"}
Tells(c) == {e \in SmMessage : e.kind = "screens" /\ e.config = c}
Carries == {e \in SmMessage : e.kind \in {"screens", "spaces"}}
CarriesThe(ss) ==
  {e \in SmMessage : \/ e.kind = "screens" /\ e.config.spaces = ss
                     \/ e.kind = "spaces" /\ e.spaces = ss}

(* The displays there are have yet to be announced, or will be taken, or   *)
(* were: no message that comes after says otherwise.                       *)
DisplaysComing ==
  /\ ~due => ns = cg
  /\ \/ due
     \/ EndsIn(wsQ, Stale(cg), Announces(cg))
     \/ /\ last.screens = cg /\ (cg = << >> \/ uuids = cg)
        /\ Without(wsQ, Stale(cg))

(* The last configuration is of the cached displays, so that one which is  *)
(* dropped as unchanged leaves the cache as it was.                        *)
LastMatches ==
  /\ Len(last.screens) = Len(uuids) => last.screens = uuids
  /\ \/ Len(last.spaces) = Len(uuids)
     \/ uuids = << >> /\ last = Config(<< >>, <<NoSpace>>)

(* The last configuration will be told, or was. *)
ScreensComing ==
  \/ EndsIn(smQ, Configures, Tells(last))
  \/ /\ Without(smQ, Configures)
     /\ curScreens = last.screens
     /\ DOMAIN screens = DOMAIN last.screens \cap DOMAIN last.spaces
     /\ \A i \in DOMAIN screens : screens[i].screen = curScreens[i]

(* If the displays are those of the last configuration, the space manager  *)
(* has or will have their spaces.                                          *)
SpacesComing ==
  \/ Has(wsQ, Refreshes)
  \/ last.screens # uuids
  \/ EndsIn(smQ, Carries, CarriesThe(ScreenSpaces(uuids)))
  \/ curSpace = ScreenSpaces(uuids) /\ Without(smQ, Carries)

(* The reactor has or will have the spaces that are managed, unless it     *)
(* refuses them or is kept from them.                                      *)
ManagedComing ==
  \/ Has(wsQ, Refreshes) \/ Has(smQ, Carries)
  \/ expose \/ Len(curSpace) # Len(screens)
  \/ \A i \in DOMAIN screens : screens[i].space = ActiveSpaces[i]

StatusComing ==
  \/ Has(wsQ, Refreshes) \/ Has(smQ, Carries)
  \/ shown = FocusedActive

FollowInv ==
  DisplaysComing /\ LastMatches /\ ScreensComing /\ SpacesComing /\ ManagedComing /\ StatusComing

LEMMA InitFollow == Init => FollowInv
<1>. SUFFICES ASSUME Init PROVE FollowInv
  OBVIOUS
<1>1. RInv
  BY InitRInv
<1>. PICK e \in WsMessage : e = ScreenParameters(cg)
  BY <1>1 DEF RInv, WsTypes, ScreenParameters, WsMessage
<1>2. wsQ = <<e>> /\ e \in Announces(cg) /\ e \notin Refreshes
  BY DEF Init, Announces, Refreshes, ScreenParameters
<1>3. <<e>>[1] = e /\ DOMAIN <<e>> = {1}
  OBVIOUS
<1>4. DisplaysComing
  <2>1. EndsIn(wsQ, Stale(cg), Announces(cg))
    BY <1>2, <1>3 DEF EndsIn
  <2>. QED  BY <2>1 DEF DisplaysComing, Init
<1>5. /\ last = Config(<< >>, <<NoSpace>>) /\ uuids = << >> /\ curScreens = << >>
      /\ curSpace = << >> /\ screens = << >> /\ smQ = << >> /\ shown = FALSE
  BY DEF Init
<1>6. last.screens = << >> /\ last.spaces = <<NoSpace>> /\ DOMAIN << >> = {} /\ Len(<< >>) = 0
  BY <1>5 DEF Config
<1>7. LastMatches /\ ScreensComing /\ SpacesComing /\ ManagedComing
  <2>1. ScreenSpaces(uuids) = << >>
    <3>1. ScreenSpaces(<< >>) \in Seq(Space) /\ Len(ScreenSpaces(<< >>)) = 0
      <4>2. << >> \in Seq(Display)
        OBVIOUS
      <4>. PICK ds \in Seq(Display) : ds = << >>
        BY <4>2
      <4>1. ScreenSpaces(ds) \in Seq(Space) /\ Len(ScreenSpaces(ds)) = Len(ds)
        BY <1>1, ScreenSpacesType DEF RInv, WsTypes
      <4>. QED  BY <4>1
    <3>. QED  BY <1>5, <3>1
  <2>2. Without(smQ, Configures) /\ Without(smQ, Carries)
    BY <1>5, EmptyQueue
  <2>. QED  BY <1>5, <1>6, <2>1, <2>2 DEF LastMatches, ScreensComing, SpacesComing, ManagedComing
<1>8. StatusComing
  BY <1>5 DEF StatusComing, FocusedActive, FocusedSpace, FirstSpace, Init
<1>. QED  BY <1>4, <1>7, <1>8 DEF FollowInv

(* What decides which spaces are managed. *)
LEMMA SameSpaces ==
  ASSUME UNCHANGED <<oneSpace, curScreens, curSpace, starting, disabled, enabled, focused, login,
                     globally, dd>>
  PROVE  UNCHANGED ActiveSpaces /\ UNCHANGED FocusedActive
<1>1. UNCHANGED ActiveSpaces
  BY DEF ActiveSpaces, Manages
<1>2. UNCHANGED FocusedSpace
  <2>1. ASSUME NEW d PROVE SpaceForScreen(d)' = SpaceForScreen(d)
    BY DEF SpaceForScreen
  <2>2. UNCHANGED FirstSpace
    BY DEF FirstSpace
  <2>3. focused' = focused
    OBVIOUS
  <2>. QED  BY <2>1, <2>2, <2>3 DEF FocusedSpace
<1>3. UNCHANGED FocusedActive
  BY <1>2 DEF FocusedActive, IsSpaceActive, IsSpaceEnabled
<1>. QED  BY <1>1, <1>3

(* Steps in which nothing but queues and the system change. *)
LEMMA FollowKept ==
  ASSUME FollowInv, DisplaysComing',
         UNCHANGED <<uuids, last, smVars, screens, shown, oneSpace>>,
         Has(wsQ, Refreshes) => Has(wsQ', Refreshes), Has(smQ, Carries) => Has(smQ', Carries),
         EndsIn(smQ, Configures, Tells(last)) => EndsIn(smQ', Configures, Tells(last)),
         Without(smQ, Configures) => Without(smQ', Configures),
         Has(wsQ', Refreshes) \/
           /\ UNCHANGED cur
           /\ \A G : EndsIn(smQ, Carries, G) => EndsIn(smQ', Carries, G)
           /\ Without(smQ, Carries) => Without(smQ', Carries)
  PROVE  FollowInv'
<1>1. UNCHANGED <<Tells(last), LastMatches>>
  BY DEF Tells, LastMatches
<1>2. ScreensComing'
  BY <1>1 DEF FollowInv, ScreensComing, smVars
<1>3. SpacesComing'
  <2>1. CASE UNCHANGED cur /\ ~Has(wsQ', Refreshes)
    <3>1. UNCHANGED CarriesThe(ScreenSpaces(uuids)) /\ UNCHANGED ScreenSpaces(uuids)
      BY <2>1 DEF CarriesThe, ScreenSpaces
    <3>. PICK G : G = CarriesThe(ScreenSpaces(uuids))
      OBVIOUS
    <3>2. EndsIn(smQ, Carries, G) => EndsIn(smQ', Carries, G)
      BY <2>1
    <3>. QED  BY <2>1, <3>1, <3>2 DEF FollowInv, SpacesComing, smVars
  <2>. QED  BY <2>1 DEF SpacesComing
<1>4. ManagedComing' /\ StatusComing'
  BY SameSpaces DEF FollowInv, ManagedComing, StatusComing, smVars
<1>. QED  BY <1>1, <1>2, <1>3, <1>4 DEF FollowInv

(* A message that announces the displays there are, or says nothing of     *)
(* displays, leaves what will be taken as it was.                          *)
LEMMA DisplaysKept ==
  ASSUME RInv, DisplaysComing, UNCHANGED <<cg, due, uuids, last>>, ~due => UNCHANGED ns,
         UNCHANGED wsQ \/ \E e : wsQ' = Append(wsQ, e) /\ (due \/ e \notin Stale(cg))
  PROVE  DisplaysComing'
<1>1. wsQ \in Seq(WsMessage)
  BY DEF RInv, Queues
<1>2. UNCHANGED Stale(cg) /\ UNCHANGED Announces(cg)
  BY DEF Stale, Announces
<1>3. CASE due
  BY <1>3 DEF DisplaysComing
<1>4. CASE ~due
  <2>. PICK K, G : K = Stale(cg) /\ G = Announces(cg)
    OBVIOUS
  <2>1. ASSUME NEW e, wsQ' = Append(wsQ, e), e \notin K
        PROVE  /\ EndsIn(wsQ, K, G) => EndsIn(wsQ', K, G)
               /\ Without(wsQ, K) => Without(wsQ', K)
    BY <1>1, <2>1, EndsInAppend, WithoutAppend
  <2>2. /\ EndsIn(wsQ, K, G) => EndsIn(wsQ', K, G)
        /\ Without(wsQ, K) => Without(wsQ', K)
    BY <1>4, <2>1
  <2>. QED  BY <1>2, <1>4, <2>2 DEF DisplaysComing
<1>. QED  BY <1>3, <1>4

LEMMA RefreshKept ==
  ASSUME RInv, NEW e, wsQ' = Append(wsQ, e)
  PROVE  Has(wsQ, Refreshes) => Has(wsQ', Refreshes)
BY HasAppend DEF RInv, Queues

LEMMA RefreshComes ==
  ASSUME RInv, wsQ' = Append(wsQ, Refresh)
  PROVE  Has(wsQ', Refreshes) /\ Refresh \notin Stale(cg)
<1>1. Refresh \in Refreshes /\ Refresh \notin Stale(cg)
  BY DEF Refresh, Refreshes, WsMessage, Stale
<1>2. wsQ \in Seq(WsMessage)
  BY DEF RInv, Queues
<1>. QED  BY <1>1, <1>2, HasAppend

LEMMA SystemFollow ==
  ASSUME RInv, FollowInv,
         \/ \E ds \in Arrangements : ChangeDisplays(ds)
         \/ AppKitFollows
         \/ NotifyAgain
         \/ \E d \in Display, s \in Space : SwitchSpace(d, s)
  PROVE  FollowInv'
<1>1. UNCHANGED <<uuids, last, smQ, smVars, screens, shown, oneSpace>>
  BY DEF ChangeDisplays, AppKitFollows, NotifyAgain, SwitchSpace, wsVars, outVars, systemVars
<1>2. DisplaysComing
  BY DEF FollowInv
<1>3. wsQ \in Seq(WsMessage)
  BY DEF RInv, Queues
<1>4. CASE \E ds \in Arrangements : ChangeDisplays(ds)
  <2>1. due' = TRUE /\ UNCHANGED <<wsQ, cur>>
    BY <1>4 DEF ChangeDisplays
  <2>2. DisplaysComing'
    BY <2>1 DEF DisplaysComing
  <2>. QED  BY <1>1, <2>1, <2>2, FollowKept
<1>5. CASE AppKitFollows
  <2>1. /\ wsQ' = Append(wsQ, ScreenParameters(cg)) /\ cg' = cg /\ ns' = cg
        /\ due' = FALSE /\ UNCHANGED cur
    BY <1>5 DEF AppKitFollows
  <2>2. ScreenParameters(cg) \in Announces(cg)
    BY DEF ScreenParameters, Announces, WsMessage, RInv, WsTypes
  <2>3. UNCHANGED Stale(cg) /\ UNCHANGED Announces(cg)
    BY <2>1 DEF Stale, Announces
  <2>4. EndsIn(wsQ', Stale(cg), Announces(cg))
    BY <1>3, <2>1, <2>2, EndsInAppend
  <2>5. DisplaysComing'
    BY <2>1, <2>3, <2>4 DEF DisplaysComing
  <2>. QED  BY <1>1, <2>1, <2>5, RefreshKept, FollowKept
<1>6. CASE NotifyAgain
  <2>1. wsQ' = Append(wsQ, ScreenParameters(ns)) /\ UNCHANGED <<cg, ns, due, cur>>
    BY <1>6 DEF NotifyAgain, systemVars
  <2>2. due \/ ScreenParameters(ns) \notin Stale(cg)
    BY <1>2 DEF DisplaysComing, ScreenParameters, Stale
  <2>3. DisplaysComing'
    BY <1>1, <1>2, <2>1, <2>2, DisplaysKept
  <2>. QED  BY <1>1, <2>1, <2>3, RefreshKept, FollowKept
<1>7. CASE \E d \in Display, s \in Space : SwitchSpace(d, s)
  <2>1. wsQ' = Append(wsQ, Refresh) /\ UNCHANGED <<cg, ns, due>>
    BY <1>7 DEF SwitchSpace
  <2>2. Has(wsQ', Refreshes) /\ Refresh \notin Stale(cg)
    BY <2>1, RefreshComes
  <2>3. DisplaysComing'
    BY <1>1, <1>2, <2>1, <2>2, DisplaysKept
  <2>. QED  BY <1>1, <2>2, <2>3, FollowKept
<1>. QED  BY <1>4, <1>5, <1>6, <1>7

(* Other messages to the space manager are in nobody's way. *)
LEMMA CarriesKept ==
  ASSUME NEW q \in Seq(SmMessage), NEW e \in SmMessage, e.kind \notin {"screens", "spaces"}
  PROVE  /\ Has(q, Carries) => Has(Append(q, e), Carries)
         /\ \A G : EndsIn(q, Configures, G) => EndsIn(Append(q, e), Configures, G)
         /\ Without(q, Configures) => Without(Append(q, e), Configures)
         /\ \A G : EndsIn(q, Carries, G) => EndsIn(Append(q, e), Carries, G)
         /\ Without(q, Carries) => Without(Append(q, e), Carries)
<1>1. e \notin Configures /\ e \notin Carries
  BY DEF Configures, Carries
<1>. QED  BY <1>1, HasAppend, EndsInAppend, WithoutAppend

LEMMA CommandFollow ==
  ASSUME RInv, FollowInv, NEW c \in Commands, Command(c)
  PROVE  FollowInv'
<1>1. UNCHANGED <<wsQ, uuids, last, smVars, screens, shown, oneSpace, cg, ns, due, cur>>
  BY DEF Command, systemVars, wsVars, outVars
<1>2. DisplaysComing'
  BY <1>1, DisplaysKept DEF FollowInv
<1>3. smQ \in Seq(SmMessage)
  BY DEF RInv, Queues
<1>4. \A k \in Plain \cup {"focused"} : k \notin {"screens", "spaces"}
  BY DEF Plain
<1>5. CASE UNCHANGED smQ
  BY <1>1, <1>2, <1>5, FollowKept
<1>6. CASE \E e \in SmMessage : smQ' = Append(smQ, e) /\ e.kind \in Plain \cup {"focused"}
  <2>. PICK e \in SmMessage : smQ' = Append(smQ, e) /\ e.kind \in Plain \cup {"focused"}
    BY <1>6
  <2>1. e.kind \notin {"screens", "spaces"}
    BY <1>4
  <2>2. /\ Has(smQ, Carries) => Has(smQ', Carries)
        /\ EndsIn(smQ, Configures, Tells(last)) => EndsIn(smQ', Configures, Tells(last))
        /\ Without(smQ, Configures) => Without(smQ', Configures)
        /\ \A G : EndsIn(smQ, Carries, G) => EndsIn(smQ', Carries, G)
        /\ Without(smQ, Carries) => Without(smQ', Carries)
    BY <1>3, <2>1, CarriesKept
  <2>. QED  BY <1>1, <1>2, <2>2, FollowKept
<1>7. CASE \E e, g \in SmMessage :
             /\ smQ' = Append(Append(smQ, e), g)
             /\ e.kind \in Plain \cup {"focused"} /\ g.kind \in Plain \cup {"focused"}
  <2>. PICK e \in SmMessage, g \in SmMessage :
         /\ smQ' = Append(Append(smQ, e), g)
         /\ e.kind \in Plain \cup {"focused"} /\ g.kind \in Plain \cup {"focused"}
    BY <1>7
  <2>. PICK q \in Seq(SmMessage) : q = Append(smQ, e)
    BY <1>3, Grows
  <2>1. e.kind \notin {"screens", "spaces"} /\ g.kind \notin {"screens", "spaces"}
    BY <1>4
  <2>2. /\ Has(smQ, Carries) => Has(q, Carries)
        /\ EndsIn(smQ, Configures, Tells(last)) => EndsIn(q, Configures, Tells(last))
        /\ Without(smQ, Configures) => Without(q, Configures)
        /\ \A G : EndsIn(smQ, Carries, G) => EndsIn(q, Carries, G)
        /\ Without(smQ, Carries) => Without(q, Carries)
    BY <1>3, <2>1, CarriesKept
  <2>3. /\ Has(q, Carries) => Has(smQ', Carries)
        /\ EndsIn(q, Configures, Tells(last)) => EndsIn(smQ', Configures, Tells(last))
        /\ Without(q, Configures) => Without(smQ', Configures)
        /\ \A G : EndsIn(q, Carries, G) => EndsIn(smQ', Carries, G)
        /\ Without(q, Carries) => Without(smQ', Carries)
    BY <2>1, CarriesKept
  <2>4. \A G : EndsIn(smQ, Carries, G) => EndsIn(smQ', Carries, G)
    BY <2>2, <2>3
  <2>. QED  BY <1>1, <1>2, <2>2, <2>3, <2>4, FollowKept
<1>. QED  BY <1>5, <1>6, <1>7, CommandShape

LEMMA WmFollow ==
  ASSUME RInv, FollowInv, WmHandles \/ \E a \in 0..Retries - 1 : RetryThreadWakes(a)
  PROVE  FollowInv'
<1>1. UNCHANGED <<smQ, uuids, last, smVars, screens, shown, oneSpace, cg, ns, due, cur>>
  BY DEF WmHandles, SetHotkeys, RefreshScreenParameters, RetryThreadWakes, systemVars, wsVars, outVars
<1>2. CASE UNCHANGED wsQ
  <2>1. DisplaysComing'
    BY <1>1, <1>2, DisplaysKept DEF FollowInv
  <2>. QED  BY <1>1, <1>2, <2>1, FollowKept
<1>3. CASE RefreshScreenParameters
  <2>. PICK m : wsQ' = Append(wsQ, m) /\ m.displays = ns
    BY <1>3 DEF RefreshScreenParameters
  <2>1. due \/ m \notin Stale(cg)
    BY DEF FollowInv, DisplaysComing, Stale
  <2>2. DisplaysComing'
    BY <1>1, <2>1, DisplaysKept DEF FollowInv
  <2>. QED  BY <1>1, <2>2, RefreshKept, FollowKept
<1>. QED  BY <1>2, <1>3 DEF WmHandles, SetHotkeys, RetryThreadWakes

(* The window server takes displays: what it drops is what the others      *)
(* have been told.                                                         *)
LEMMA TakenFollow ==
  ASSUME RInv, FollowInv, NEW e \in WsMessage, wsQ # << >>, e = Head(wsQ), wsQ' = Tail(wsQ),
         e.kind \in {"screens", "retry"}, Len(e.displays) = Len(cg), e.displays \in Arrangements,
         UNCHANGED <<systemVars, smVars, outVars>>,
         uuids' = IF cg = << >> THEN uuids ELSE cg,
         last' = Config(ScreensOf(e.displays), ScreenSpaces(uuids')),
         \/ UNCHANGED <<last, smQ>>
         \/ smQ' = Append(smQ, [kind |-> "screens", config |-> last'])
  PROVE  FollowInv'
<1>1. wsQ \in Seq(WsMessage) /\ smQ \in Seq(SmMessage) /\ UNCHANGED <<cg, ns, due, cur, oneSpace>>
  BY DEF RInv, Queues, systemVars
<1>. PICK ds \in Arrangements : ds = e.displays
  OBVIOUS
<1>2. cg \in Seq(Display) /\ uuids \in Seq(Display) /\ ds \in Seq(Display)
  BY Displays, SpacesAssumption
<1>3. /\ last'.screens = ScreensOf(ds) /\ last'.spaces = ScreenSpaces(uuids')
  BY DEF Config
<1>4. uuids' \in Seq(Display)
  BY <1>2
<1>5. Len(last'.spaces) = Len(uuids')
  <2>1. PICK us \in Seq(Display) : us = uuids'
    BY <1>4
  <2>2. Len(ScreenSpaces(us)) = Len(us)
    BY ScreenSpacesType DEF RInv, WsTypes
  <2>3. ScreenSpaces(uuids') = ScreenSpaces(us)
    BY <2>1
  <2>. QED  BY <1>3, <2>1, <2>2, <2>3
<1>6. ds = cg => ScreensOf(ds) = cg
  BY <1>2, ScreensOfShape
<1>7. Len(last'.screens) = Len(uuids') => last'.screens = uuids'
  <2>1. CASE cg = << >>
    <3>1. ds = cg
      BY <1>2, <2>1
    <3>. QED  BY <1>3, <1>4, <1>6, <2>1, <3>1
  <2>2. CASE cg # << >>
    <3>1. Len(ScreensOf(ds)) = Len(cg) => ScreensOf(ds) = cg
      BY <1>2, ScreensOfShape
    <3>. QED  BY <1>3, <2>2, <3>1
  <2>. QED  BY <2>1, <2>2
<1>8. LastMatches'
  BY <1>5, <1>7 DEF LastMatches
<1>9. DisplaysComing'
  <2>. PICK K, G : K = Stale(cg) /\ G = Announces(cg)
    OBVIOUS
  <2>1. UNCHANGED Stale(cg) /\ UNCHANGED Announces(cg)
    BY <1>1 DEF Stale, Announces
  <2>2. EndsIn(wsQ, K, G) => EndsIn(wsQ', K, G) \/ (e \in G /\ Without(wsQ', K))
    BY <1>1, EndsInTail
  <2>3. Without(wsQ, K) => Without(wsQ', K) /\ e \notin K
    BY <1>1, WithoutTail
  <2>4. e \in G \/ e \notin K => ds = cg
    BY DEF Announces, Stale
  <2>5. ds = cg => last'.screens = cg /\ (cg = << >> \/ uuids' = cg)
    BY <1>3, <1>6
  <2>. QED  BY <1>1, <2>1, <2>2, <2>3, <2>4, <2>5 DEF FollowInv, DisplaysComing
<1>10. Has(wsQ, Refreshes) => Has(wsQ', Refreshes)
  <2>1. e \notin Refreshes
    BY DEF Refreshes
  <2>. QED  BY <1>1, <2>1, HasTail
<1>11. CASE smQ' = Append(smQ, [kind |-> "screens", config |-> last'])
  <2>1. [kind |-> "screens", config |-> last'] \in SmMessage
    BY <1>1, TakenType
  <2>. PICK m \in SmMessage : m = [kind |-> "screens", config |-> last']
    BY <2>1
  <2>2. m.kind = "screens" /\ m.config = last' /\ m.config.spaces = ScreenSpaces(uuids')
    BY <1>3
  <2>. PICK T, C : T = Tells(last)' /\ C = CarriesThe(ScreenSpaces(uuids))'
    OBVIOUS
  <2>3. m \in T /\ m \in C /\ m \in Carries
    BY <1>1, <2>2 DEF Tells, CarriesThe, Carries, ScreenSpaces
  <2>4. EndsIn(smQ', Configures, T) /\ EndsIn(smQ', Carries, C) /\ Has(smQ', Carries)
    BY <1>1, <1>11, <2>3, EndsInAppend, HasAppend
  <2>5. ScreensComing' /\ SpacesComing' /\ ManagedComing' /\ StatusComing'
    BY <2>4 DEF ScreensComing, SpacesComing, ManagedComing, StatusComing
  <2>. QED  BY <1>8, <1>9, <2>5 DEF FollowInv
<1>12. CASE UNCHANGED <<last, smQ>>
  <2>1. CASE uuids' = uuids
    BY <1>1, <1>9, <1>10, <1>12, <2>1, FollowKept DEF outVars
  <2>2. CASE uuids' # uuids /\ last'.screens # uuids'
    <3>1. UNCHANGED Tells(last)
      BY <1>12 DEF Tells
    <3>2. ScreensComing'
      BY <1>12, <3>1 DEF FollowInv, ScreensComing, smVars, outVars
    <3>3. SpacesComing'
      BY <2>2 DEF SpacesComing
    <3>4. UNCHANGED <<oneSpace, screens, shown, curScreens, curSpace, starting, disabled, enabled,
                      focused, login, expose, globally, dd>>
      BY <1>1 DEF smVars, outVars
    <3>5. ManagedComing' /\ StatusComing'
      BY <1>10, <1>12, <3>4, SameSpaces DEF FollowInv, ManagedComing, StatusComing
    <3>. QED  BY <1>8, <1>9, <3>2, <3>3, <3>5 DEF FollowInv
  <2>3. CASE uuids' # uuids /\ last'.screens = uuids'
    <3>1. Len(last.spaces) = Len(uuids') /\ last.screens = uuids'
      BY <1>5, <1>12, <2>3
    <3>2. CASE Len(last.spaces) = Len(uuids)
      BY <2>3, <3>1, <3>2 DEF FollowInv, LastMatches
    <3>3. CASE uuids = << >> /\ last = Config(<< >>, <<NoSpace>>)
      BY <2>3, <3>1, <3>3 DEF Config
    <3>. QED  BY <3>2, <3>3 DEF FollowInv, LastMatches
  <2>. QED  BY <2>1, <2>2, <2>3
<1>. QED  BY <1>11, <1>12

LEMMA WsFollow ==
  ASSUME RInv, FollowInv, WsHandles
  PROVE  FollowInv'
<1>1. /\ wsQ # << >> /\ wsQ' = Tail(wsQ)
      /\ UNCHANGED <<systemVars, acts, wmQ, hotkeys, smVars, outVars>>
  BY WsShape
<1>2. wsQ \in Seq(WsMessage) /\ smQ \in Seq(SmMessage)
      /\ UNCHANGED <<cg, ns, due, cur, oneSpace, screens, shown>>
  BY <1>1 DEF RInv, Queues, systemVars, outVars
<1>. PICK e \in WsMessage : e = Head(wsQ) /\
              \/ /\ e.kind = "screens" /\ HandleScreens(e.displays, attempt, retrying)
                 /\ e.displays \in Arrangements
              \/ /\ e.kind = "retry" /\ retrying /\ e.attempt = attempt
                 /\ HandleScreens(e.displays, attempt + 1, FALSE)
                 /\ e.displays \in Arrangements
              \/ /\ e.kind = "retry" /\ ~(retrying /\ e.attempt = attempt)
                 /\ UNCHANGED <<smQ, wsVars>>
              \/ /\ e.kind = "spaces" /\ UNCHANGED wsVars
                 /\ smQ' = Append(smQ, [kind |-> "spaces", spaces |-> ScreenSpaces(uuids)])
  BY WsShape
<1>3. e \notin Refreshes => (Has(wsQ, Refreshes) => Has(wsQ', Refreshes))
  BY <1>1, <1>2, HasTail
<1>4. ASSUME UNCHANGED <<uuids, last>>, e \in Announces(cg) => e \in Stale(cg) PROVE DisplaysComing'
  <2>. PICK K, G : K = Stale(cg) /\ G = Announces(cg)
    OBVIOUS
  <2>1. UNCHANGED Stale(cg) /\ UNCHANGED Announces(cg)
    BY <1>2 DEF Stale, Announces
  <2>2. EndsIn(wsQ, K, G) => EndsIn(wsQ', K, G) \/ (e \in G /\ Without(wsQ', K))
    BY <1>1, <1>2, EndsInTail
  <2>3. Without(wsQ, K) => Without(wsQ', K) /\ e \notin K
    BY <1>1, <1>2, WithoutTail
  <2>4. e \notin G
    BY <1>4 DEF Stale, Announces
  <2>. QED  BY <1>2, <1>4, <2>1, <2>2, <2>3, <2>4 DEF FollowInv, DisplaysComing
<1>5. CASE e.kind = "retry" /\ UNCHANGED <<smQ, wsVars>>
  <2>1. e \notin Announces(cg) /\ e \notin Refreshes /\ UNCHANGED <<uuids, last>>
    BY <1>5 DEF Announces, Refreshes, wsVars
  <2>2. DisplaysComing'
    BY <1>4, <2>1
  <2>. QED  BY <1>1, <1>2, <1>3, <1>5, <2>1, <2>2, FollowKept
<1>6. CASE /\ e.kind = "spaces" /\ UNCHANGED wsVars
           /\ smQ' = Append(smQ, [kind |-> "spaces", spaces |-> ScreenSpaces(uuids)])
  <2>1. e \notin Announces(cg) /\ UNCHANGED <<uuids, last>>
    BY <1>6 DEF Announces, wsVars
  <2>2. DisplaysComing'
    BY <1>4, <2>1
  <2>3. ScreenSpaces(uuids) \in Seq(Space) /\ UNCHANGED ScreenSpaces(uuids)
    BY <1>2, <2>1, Displays, ScreenSpacesType DEF RInv, WsTypes, ScreenSpaces
  <2>. PICK m \in SmMessage : /\ m = [kind |-> "spaces", spaces |-> ScreenSpaces(uuids)]
                              /\ m.kind = "spaces" /\ m.spaces = ScreenSpaces(uuids)
    BY <2>3 DEF SmMessage
  <2>. PICK C : C = CarriesThe(ScreenSpaces(uuids)) /\ C = CarriesThe(ScreenSpaces(uuids))'
    BY <2>3 DEF CarriesThe
  <2>4. m \in C /\ m \in Carries /\ m \notin Configures
    BY DEF CarriesThe, Carries, Configures
  <2>5. EndsIn(smQ', Carries, C) /\ Has(smQ', Carries)
    BY <1>2, <1>6, <2>4, EndsInAppend, HasAppend
  <2>6. /\ EndsIn(smQ, Configures, Tells(last)) => EndsIn(smQ', Configures, Tells(last))
        /\ Without(smQ, Configures) => Without(smQ', Configures)
    BY <1>2, <1>6, <2>4, EndsInAppend, WithoutAppend
  <2>7. UNCHANGED Tells(last) /\ UNCHANGED LastMatches
    BY <2>1 DEF Tells, LastMatches
  <2>8. ScreensComing'
    BY <1>1, <1>2, <2>1, <2>6, <2>7 DEF FollowInv, ScreensComing, smVars
  <2>9. SpacesComing' /\ ManagedComing' /\ StatusComing'
    BY <2>5 DEF SpacesComing, ManagedComing, StatusComing
  <2>. QED  BY <2>2, <2>7, <2>8, <2>9 DEF FollowInv
<1>7. ASSUME NEW a \in 0..Retries, NEW r \in BOOLEAN, r => retrying /\ a = attempt,
             HandleScreens(e.displays, a, r), e.displays \in Arrangements,
             e.kind \in {"screens", "retry"}
      PROVE  FollowInv'
  <2>. PICK ds \in Arrangements : ds = e.displays
    BY <1>7
  <2>1. \/ Len(ds) # Len(cg) /\ UNCHANGED <<uuids, last, smQ>>
        \/ /\ Len(ds) = Len(cg)
           /\ uuids' = IF cg = << >> THEN uuids ELSE cg
           /\ last' = Config(ScreensOf(ds), ScreenSpaces(uuids'))
           /\ \/ UNCHANGED <<last, smQ>>
              \/ smQ' = Append(smQ, [kind |-> "screens", config |-> last'])
    BY <1>7, ScreensHandled
  <2>2. CASE Len(ds) # Len(cg) /\ UNCHANGED <<uuids, last, smQ>>
    <3>1. e \notin Announces(cg) /\ e \notin Refreshes
      BY <1>7, <2>2 DEF Announces, Refreshes
    <3>2. DisplaysComing'
      BY <1>4, <2>2, <3>1
    <3>. QED  BY <1>1, <1>2, <1>3, <2>2, <3>1, <3>2, FollowKept
  <2>. QED  BY <1>1, <1>7, <2>1, <2>2, TakenFollow
<1>8. CASE e.kind = "screens" /\ HandleScreens(e.displays, attempt, retrying) /\ e.displays \in Arrangements
  <2>1. attempt \in 0..Retries /\ retrying \in BOOLEAN
    BY DEF RInv, WsTypes
  <2>. QED  BY <1>7, <1>8, <2>1
<1>9. CASE /\ e.kind = "retry" /\ retrying /\ e.attempt = attempt
           /\ HandleScreens(e.displays, attempt + 1, FALSE) /\ e.displays \in Arrangements
  <2>1. attempt + 1 \in 0..Retries
    BY <1>9, SpacesAssumption DEF RInv, WsTypes
  <2>. QED  BY <1>7, <1>9, <2>1
<1>. QED  BY <1>5, <1>6, <1>8, <1>9

(* What messages without displays or spaces do, as far as the reactor and  *)
(* the icon are concerned.                                                 *)
LEMMA OthersShape ==
  ASSUME RInv, SmHandles,
         NEW e \in SmMessage, e = Head(smQ), e.kind \notin {"screens", "spaces"}
  PROVE  /\ UNCHANGED <<curScreens, curSpace, screens>>
         /\ \/ wsQ' = Append(wsQ, Refresh)
            \/ /\ UNCHANGED <<wsQ, starting, disabled, enabled, login, globally, dd>>
               /\ expose' = TRUE \/ UNCHANGED expose
               /\ shown' = FocusedActive' \/ UNCHANGED <<shown, focused>>
<1>1. ASSUME NEW d, SetFocusedScreen(d)
      PROVE  /\ UNCHANGED <<curScreens, curSpace, screens>>
             /\ UNCHANGED <<wsQ, starting, disabled, enabled, login, globally, dd, expose>>
             /\ shown' = FocusedActive'
  BY <1>1 DEF SetFocusedScreen
<1>2. ASSUME ToggleFocusedSpace
      PROVE  /\ UNCHANGED <<curScreens, curSpace, screens>>
             /\ \/ wsQ' = Append(wsQ, Refresh)
                \/ /\ UNCHANGED <<wsQ, starting, disabled, enabled, login, globally, dd, expose>>
                   /\ UNCHANGED <<shown, focused>>
  BY <1>2 DEF ToggleFocusedSpace, RequestRefresh, smVars, outVars
<1>3. ASSUME NEW b, SetGlobalEnabled(b)
      PROVE  /\ UNCHANGED <<curScreens, curSpace, screens>>
             /\ \/ wsQ' = Append(wsQ, Refresh)
                \/ /\ UNCHANGED <<wsQ, starting, disabled, enabled, login, globally, dd, expose>>
                   /\ UNCHANGED <<shown, focused>>
  BY <1>3 DEF SetGlobalEnabled, RequestRefresh, smVars, outVars
<1>4. ASSUME NEW b, LoginWindowActive(b) \/ ConfigUpdated(b)
      PROVE  UNCHANGED <<curScreens, curSpace, screens>> /\ wsQ' = Append(wsQ, Refresh)
  BY <1>4 DEF LoginWindowActive, ConfigUpdated, RequestRefresh, outVars
<1>5. ASSUME ExposeActive(FALSE)
      PROVE  UNCHANGED <<curScreens, curSpace, screens>> /\ wsQ' = Append(wsQ, Refresh)
  BY <1>5 DEF ExposeActive, RequestRefresh, outVars
<1>6. ASSUME ExposeActive(TRUE)
      PROVE  /\ UNCHANGED <<curScreens, curSpace, screens>> /\ expose' = TRUE
             /\ UNCHANGED <<wsQ, starting, disabled, enabled, login, globally, dd, shown, focused>>
  BY <1>6 DEF ExposeActive, outVars
<1>7. \/ \E d : SetFocusedScreen(d)
      \/ ToggleFocusedSpace
      \/ \E b : SetGlobalEnabled(b)
      \/ \E b : LoginWindowActive(b) \/ ConfigUpdated(b)
      \/ ExposeActive(FALSE)
      \/ ExposeActive(TRUE)
  BY Zenon DEF SmHandles
<1>. QED  BY <1>1, <1>2, <1>3, <1>4, <1>5, <1>6, <1>7

LEMMA SmFollow ==
  ASSUME RInv, FollowInv, SmHandles
  PROVE  FollowInv'
<1>1. /\ smQ # << >> /\ smQ' = Tail(smQ) /\ Head(smQ) \in SmMessage
      /\ UNCHANGED <<cg, ns, due, cur, oneSpace, uuids, last>>
      /\ UNCHANGED wsQ \/ wsQ' = Append(wsQ, Refresh)
  BY SmShape DEF systemVars, wsVars
<1>2. smQ \in Seq(SmMessage) /\ wsQ \in Seq(WsMessage)
  BY DEF RInv, Queues
<1>. PICK e \in SmMessage : e = Head(smQ)
  BY <1>1
<1>3. DisplaysComing' /\ (Has(wsQ, Refreshes) => Has(wsQ', Refreshes))
  <2>1. CASE UNCHANGED wsQ
    BY <1>1, <2>1, DisplaysKept DEF FollowInv
  <2>2. CASE wsQ' = Append(wsQ, Refresh)
    BY <1>1, <2>2, RefreshComes, DisplaysKept DEF FollowInv
  <2>. QED  BY <1>1, <2>1, <2>2
<1>4. LastMatches' /\ UNCHANGED Tells(last) /\ UNCHANGED ScreenSpaces(uuids)
      /\ UNCHANGED CarriesThe(ScreenSpaces(uuids))
  BY <1>1 DEF FollowInv, LastMatches, Tells, ScreenSpaces, CarriesThe
<1>. PICK T, C : T = Tells(last) /\ C = CarriesThe(ScreenSpaces(uuids))
  OBVIOUS
<1>5. /\ EndsIn(smQ, Configures, T) => EndsIn(smQ', Configures, T) \/ (e \in T /\ Without(smQ', Configures))
      /\ EndsIn(smQ, Carries, C) => EndsIn(smQ', Carries, C) \/ (e \in C /\ Without(smQ', Carries))
  BY <1>1, <1>2, EndsInTail
<1>6. /\ Without(smQ, Configures) => Without(smQ', Configures) /\ e \notin Configures
      /\ Without(smQ, Carries) => Without(smQ', Carries) /\ e \notin Carries
  BY <1>1, <1>2, WithoutTail
<1>7. Has(smQ, Carries) => Has(smQ', Carries) \/ e \in Carries
  BY <1>1, <1>2, HasTail
<1>8. RInv'
  BY SmRInv
<1>9. CASE e.kind = "screens" /\ HandleScreenParameters(e)
  <2>1. /\ curScreens' = e.config.screens /\ curSpace' = e.config.spaces
        /\ screens' = [i \in DOMAIN curScreens' \cap DOMAIN curSpace' |->
                         [screen |-> curScreens'[i], space |-> ActiveSpaces'[i]]]
        /\ shown' = FocusedActive'
    BY <1>9 DEF HandleScreenParameters, SetSpaces
  <2>2. e \in Configures /\ e \in Carries
    BY <1>9 DEF Configures, Carries
  <2>3. ScreensComing'
    <3>1. CASE EndsIn(smQ', Configures, T)
      BY <1>4, <3>1 DEF ScreensComing
    <3>2. CASE e \in T /\ Without(smQ', Configures)
      <4>1. e.config = last'
        BY <1>1, <3>2 DEF Tells
      <4>2. /\ DOMAIN screens' = DOMAIN curScreens' \cap DOMAIN curSpace'
            /\ \A i \in DOMAIN screens' : screens'[i].screen = curScreens'[i]
        BY <2>1
      <4>. QED  BY <2>1, <3>2, <4>1, <4>2 DEF ScreensComing
    <3>. QED  BY <1>5, <1>6, <2>2, <3>1, <3>2 DEF FollowInv, ScreensComing
  <2>4. SpacesComing'
    <3>1. CASE e \in C /\ Without(smQ', Carries)
      <4>1. curSpace' = ScreenSpaces(uuids)'
        BY <1>4, <1>9, <2>1, <3>1 DEF CarriesThe
      <4>. QED  BY <3>1, <4>1 DEF SpacesComing
    <3>2. CASE EndsIn(smQ', Carries, C)
      BY <1>4, <3>2 DEF SpacesComing
    <3>. QED  BY <1>1, <1>3, <1>5, <1>6, <2>2, <3>1, <3>2 DEF FollowInv, SpacesComing
  <2>5. ManagedComing' /\ StatusComing'
    <3>1. \A i \in DOMAIN screens' : screens'[i].space = ActiveSpaces'[i]
      BY <2>1
    <3>. QED  BY <2>1, <3>1 DEF ManagedComing, StatusComing
  <2>. QED  BY <1>3, <1>4, <2>3, <2>4, <2>5 DEF FollowInv
<1>10. CASE e.kind = "spaces" /\ HandleSpaces(e)
  <2>1. /\ curSpace' = e.spaces /\ UNCHANGED <<curScreens, expose>> /\ shown' = FocusedActive'
        /\ \/ expose /\ UNCHANGED screens
           \/ Len(curSpace') # Len(screens) /\ UNCHANGED screens
           \/ screens' = [i \in DOMAIN screens |-> [screens[i] EXCEPT !.space = ActiveSpaces'[i]]]
    BY <1>10 DEF HandleSpaces, SetSpaces
  <2>2. e \notin Configures /\ e \in Carries
    BY <1>10 DEF Configures, Carries
  <2>3. \A i \in DOMAIN screens : screens[i] \in [screen : Display, space : Space \cup {NoSpace}]
    BY Elements DEF RInv, OutTypes
  <2>4. /\ DOMAIN screens' = DOMAIN screens
        /\ \A i \in DOMAIN screens' : screens'[i].screen = screens[i].screen
        /\ \/ expose \/ Len(curSpace') # Len(screens')
           \/ \A i \in DOMAIN screens' : screens'[i].space = ActiveSpaces'[i]
    BY <2>1, <2>3
  <2>5. ScreensComing'
    <3>1. e \notin T
      BY <2>2 DEF Tells, Configures
    <3>. QED  BY <1>1, <1>4, <1>5, <1>6, <2>1, <2>4, <3>1 DEF FollowInv, ScreensComing
  <2>6. SpacesComing'
    <3>1. CASE e \in C /\ Without(smQ', Carries)
      <4>1. curSpace' = ScreenSpaces(uuids)'
        BY <1>4, <1>10, <2>1, <3>1 DEF CarriesThe
      <4>. QED  BY <3>1, <4>1 DEF SpacesComing
    <3>2. CASE EndsIn(smQ', Carries, C)
      BY <1>4, <3>2 DEF SpacesComing
    <3>. QED  BY <1>1, <1>3, <1>5, <1>6, <2>2, <3>1, <3>2 DEF FollowInv, SpacesComing
  <2>7. ManagedComing' /\ StatusComing'
    BY <2>1, <2>4 DEF ManagedComing, StatusComing
  <2>. QED  BY <1>3, <1>4, <2>5, <2>6, <2>7 DEF FollowInv
<1>11. CASE e.kind \notin {"screens", "spaces"}
  <2>1. e \notin Carries /\ e \notin Configures /\ e \notin C /\ e \notin T
    BY <1>11 DEF Carries, Configures, CarriesThe, Tells
  <2>2. /\ UNCHANGED <<curScreens, curSpace, screens>>
        /\ \/ wsQ' = Append(wsQ, Refresh)
           \/ /\ UNCHANGED <<wsQ, starting, disabled, enabled, login, globally, dd>>
              /\ expose' = TRUE \/ UNCHANGED expose
              /\ shown' = FocusedActive' \/ UNCHANGED <<shown, focused>>
    BY <1>11, OthersShape
  <2>3. ScreensComing'
    BY <1>1, <1>4, <1>5, <1>6, <2>1, <2>2 DEF FollowInv, ScreensComing
  <2>4. CASE wsQ' = Append(wsQ, Refresh)
    <3>1. Has(wsQ', Refreshes)
      BY <2>4, RefreshComes
    <3>2. SpacesComing' /\ ManagedComing' /\ StatusComing'
      BY <3>1 DEF SpacesComing, ManagedComing, StatusComing
    <3>. QED  BY <1>3, <1>4, <2>3, <3>2 DEF FollowInv
  <2>5. CASE /\ UNCHANGED <<wsQ, starting, disabled, enabled, login, globally, dd>>
             /\ expose' = TRUE \/ UNCHANGED expose
             /\ shown' = FocusedActive' \/ UNCHANGED <<shown, focused>>
    <3>1. SpacesComing'
      BY <1>1, <1>3, <1>4, <1>5, <1>6, <2>1, <2>2 DEF FollowInv, SpacesComing
    <3>2. UNCHANGED ActiveSpaces
      BY <1>1, <2>2, <2>5 DEF ActiveSpaces, Manages
    <3>3. ManagedComing'
      BY <1>3, <1>7, <2>1, <2>2, <2>5, <3>2 DEF FollowInv, ManagedComing
    <3>4. StatusComing'
      <4>1. CASE shown' = FocusedActive'
        BY <4>1 DEF StatusComing
      <4>2. CASE UNCHANGED <<shown, focused>>
        <5>1. UNCHANGED FocusedActive
          BY <1>1, <2>2, <2>5, <4>2, SameSpaces
        <5>. QED  BY <1>3, <1>7, <2>1, <4>2, <5>1 DEF FollowInv, StatusComing
      <4>. QED  BY <2>5, <4>1, <4>2
    <3>. QED  BY <1>3, <1>4, <2>3, <3>1, <3>3, <3>4 DEF FollowInv
  <2>. QED  BY <2>2, <2>4, <2>5
<1>. QED  BY <1>9, <1>10, <1>11 DEF SmHandles

LEMMA NextFollow ==
  ASSUME RInv, FollowInv, [Next]_vars
  PROVE  FollowInv'
<1>1. CASE ReactorEvent \/ UNCHANGED vars
  <2>1. UNCHANGED <<cg, ns, due, cur, wsQ, smQ, uuids, last, smVars, screens, shown, oneSpace>>
    BY <1>1 DEF ReactorEvent, vars, systemVars, wsVars, outVars
  <2>2. DisplaysComing'
    BY <2>1, DisplaysKept DEF FollowInv
  <2>. QED  BY <2>1, <2>2, FollowKept
<1>. QED  BY <1>1, SystemFollow, CommandFollow, WmFollow, WsFollow, SmFollow DEF Next

THEOREM FollowInvariant == Spec => []FollowInv
<1>1. RInv /\ FollowInv /\ [Next]_vars => FollowInv'
  BY NextFollow
<1>. QED  BY InitFollow, RetriesInvariant, <1>1, PTL DEF Spec

(* When nothing is on its way. *)
LEMMA WhenQuiet ==
  ASSUME RInv, FollowInv, Quiet, ~expose
  PROVE  /\ screens = [i \in DOMAIN cg |->
                        [screen |-> cg[i],
                         space |-> IF Manages(cur[cg[i]]) THEN cur[cg[i]] ELSE NoSpace]]
         /\ shown = FocusedActive
         /\ cg # << >> => curSpace = ScreenSpaces(cg) /\ DOMAIN screens = DOMAIN curSpace
                          /\ \A i \in DOMAIN screens : screens[i].space = ActiveSpaces[i]
<1>1. /\ ~due /\ wsQ = << >> /\ smQ = << >>
  BY DEF Quiet
<1>2. /\ \A K, G : ~EndsIn(wsQ, K, G) /\ ~EndsIn(smQ, K, G)
      /\ \A K : ~Has(wsQ, K) /\ ~Has(smQ, K)
  BY <1>1, EmptyQueue
<1>3. last.screens = cg /\ (cg = << >> \/ uuids = cg)
  BY <1>1, <1>2 DEF FollowInv, DisplaysComing
<1>4. /\ curScreens = cg /\ DOMAIN screens = DOMAIN cg \cap DOMAIN last.spaces
      /\ \A i \in DOMAIN screens : screens[i].screen = cg[i]
  BY <1>2, <1>3 DEF FollowInv, ScreensComing
<1>5. shown = FocusedActive
  BY <1>2 DEF FollowInv, StatusComing
<1>6. /\ cg \in Seq(Display) /\ last \in Configs
      /\ screens \in Seq([screen : Display, space : Space \cup {NoSpace}])
  BY Displays DEF RInv, WsTypes, OutTypes
<1>7. CASE cg = << >>
  <2>1. DOMAIN cg = {} /\ DOMAIN screens = {}
    BY <1>4, <1>7
  <2>2. screens = << >>
    BY <1>6, <2>1
  <2>. QED  BY <1>5, <1>7, <2>1, <2>2
<1>8. CASE cg # << >>
  <2>1. uuids = cg
    BY <1>3, <1>8
  <2>2. curSpace = ScreenSpaces(cg)
    BY <1>2, <1>3, <2>1 DEF FollowInv, SpacesComing
  <2>3. Len(last.spaces) = Len(cg)
    BY <1>8, <2>1 DEF FollowInv, LastMatches
  <2>4. DOMAIN curSpace = DOMAIN cg /\ Len(curSpace) = Len(cg)
    BY <1>6, <2>2, ScreenSpacesType DEF RInv, WsTypes
  <2>5. DOMAIN screens = DOMAIN cg /\ Len(screens) = Len(cg)
    BY <1>4, <1>6, <2>3 DEF Configs
  <2>6. \A i \in DOMAIN screens : screens[i].space = ActiveSpaces[i]
    BY <1>2, <2>4, <2>5 DEF FollowInv, ManagedComing
  <2>7. \A i \in DOMAIN cg : ActiveSpaces[i] = IF Manages(cur[cg[i]]) THEN cur[cg[i]] ELSE NoSpace
    BY <2>2, <2>4 DEF ActiveSpaces, ScreenSpaces
  <2>8. \A i \in DOMAIN cg : screens[i] = [screen |-> screens[i].screen, space |-> screens[i].space]
    <3>1. \A i \in DOMAIN screens : screens[i] \in [screen : Display, space : Space \cup {NoSpace}]
      BY <1>6, Elements
    <3>. QED  BY <2>5, <3>1
  <2>9. \A i \in DOMAIN cg : screens[i] =
          [screen |-> cg[i], space |-> IF Manages(cur[cg[i]]) THEN cur[cg[i]] ELSE NoSpace]
    BY <1>4, <2>5, <2>6, <2>7, <2>8
  <2>10. screens = [i \in DOMAIN screens |-> screens[i]]
    BY <1>6
  <2>. QED  BY <1>5, <2>2, <2>4, <2>5, <2>6, <2>9, <2>10
<1>. QED  BY <1>7, <1>8

(* However displays come and go and disagree meanwhile, and whatever the   *)
(* user toggles, the reactor ends up with the displays there are and the   *)
(* current space of each if it is to be managed.                           *)
THEOREM ReactorFollowsHolds == Spec => []ReactorFollows
<1>1. RInv /\ FollowInv => ReactorFollows
  BY WhenQuiet DEF ReactorFollows
<1>. QED  BY <1>1, RetriesInvariant, FollowInvariant, PTL

(* The status icon then says whether the focused space is managed. *)
THEOREM StatusTruthfulHolds == Spec => []StatusTruthful
<1>1. ASSUME RInv, FollowInv, Quiet, ~expose, dd => FocusedSpace \notin disabled, cg # << >>
      PROVE  shown = (FocusedSpace \in Managed)
  <2>1. /\ shown = FocusedActive /\ DOMAIN screens = DOMAIN curSpace
        /\ \A i \in DOMAIN screens : screens[i].space = ActiveSpaces[i]
    BY <1>1, WhenQuiet
  <2>2. FocusedSpace # NoSpace => \E i \in DOMAIN curSpace : FocusedSpace = curSpace[i]
    BY <1>1, FocusedSpaceShape DEF RInv, SmTypes
  <2>3. IsSpaceActive(FocusedSpace) <=> Manages(FocusedSpace)
    BY <1>1 DEF IsSpaceActive, IsSpaceEnabled, Manages
  <2>. PICK f : f = FocusedSpace
    OBVIOUS
  <2>4. f \in Managed <=> f # NoSpace /\ \E i \in DOMAIN curSpace : f = ActiveSpaces[i]
    BY <2>1 DEF Managed
  <2>5. \A i \in DOMAIN curSpace :
          ActiveSpaces[i] = IF Manages(curSpace[i]) THEN curSpace[i] ELSE NoSpace
    BY DEF ActiveSpaces
  <2>6. f \in Managed <=> f # NoSpace /\ Manages(f)
    BY <2>2, <2>4, <2>5
  <2>7. FocusedActive <=> f # NoSpace /\ Manages(f)
    BY <2>3 DEF FocusedActive
  <2>8. shown \in BOOLEAN
    BY <1>1 DEF RInv, OutTypes
  <2>. QED  BY <2>1, <2>6, <2>7, <2>8
<1>2. RInv /\ FollowInv => StatusTruthful
  BY <1>1 DEF StatusTruthful
<1>. QED  BY <1>2, RetriesInvariant, FollowInvariant, PTL
=============================================================================
