--------------------------- MODULE SettingsProofs ---------------------------
(***************************************************************************)
(* What is proved of Settings for every set of settings, files, commands   *)
(* and chords, and any number of changes, updates, timeouts and restarts:  *)
(* all actors end up with one configuration, its keys are registered, and  *)
(* it is the watched file's if the client says so; the preferences lose    *)
(* nothing of what they can show, and what they save is what a restart     *)
(* loads.                                                                  *)
(*                                                                         *)
(* The argument follows a configuration on its way: the last one in an     *)
(* actor's mailbox is what the actor will go by in the end.  The rest goes *)
(* from the rows of a configuration to the keys they become, and from the  *)
(* section that is written to the keys that are loaded of it.              *)
(***************************************************************************)
EXTENDS Settings, FiniteSetTheorems, WellFoundedInduction, TLAPS

-----------------------------------------------------------------------------
(* Mailboxes. *)

IsQueue(q) == \E S : q \in Seq(S)
IsUpdate(m) == \E c : m = ConfigUpdated(c)
Quiets == {HotkeysActive}

NoUpdate(q) == \A i \in DOMAIN q : q[i] \in Quiets
Carries(q, c) == \E i \in DOMAIN q : q[i] = ConfigUpdated(c) /\ \A j \in DOMAIN q : j > i => q[j] \in Quiets
Asks(q) == \E i \in DOMAIN q : q[i] = HotkeysActive

(* Who has `has` and the mailbox q ends up with c. *)
Will(q, c, has) == Carries(q, c) \/ (NoUpdate(q) /\ has = c)

LEMMA Messages ==
  /\ \A c : ConfigUpdated(c) # HotkeysActive /\ ConfigUpdated(c).kind = "ConfigUpdated"
  /\ HotkeysActive.kind = "HotkeysActive"
  /\ \A c, d : ConfigUpdated(c) = ConfigUpdated(d) => c = d
  /\ \A c : ConfigUpdated(c).config = {c} /\ (CHOOSE d \in ConfigUpdated(c).config : TRUE) = c
BY DEF ConfigUpdated, HotkeysActive

LEMMA Push ==
  ASSUME NEW q, IsQueue(q), NEW e
  PROVE  /\ IsQueue(Append(q, e)) /\ Append(q, e) # << >>
         /\ Len(q) \in Nat /\ DOMAIN q = 1..Len(q) /\ (Len(q) = 0 <=> q = << >>)
         /\ Len(Append(q, e)) = Len(q) + 1
         /\ DOMAIN Append(q, e) = 1..Len(q) + 1
         /\ \A i \in 1..Len(q) : Append(q, e)[i] = q[i]
         /\ Append(q, e)[Len(q) + 1] = e
<1>1. PICK S : q \in Seq(S)
  BY DEF IsQueue
<1>2. PICK T : T = S \cup {e}
  OBVIOUS
<1>3. S \subseteq T /\ e \in T
  BY <1>2
<1>4. q \in Seq(T)
  BY <1>1, <1>3
<1>5. Append(q, e) \in Seq(T)
  BY <1>3, <1>4
<1>6. IsQueue(Append(q, e))
  BY <1>5 DEF IsQueue
<1>. QED  BY <1>3, <1>4, <1>6

LEMMA Pop ==
  ASSUME NEW q, IsQueue(q), q # << >>
  PROVE  /\ IsQueue(Tail(q))
         /\ Len(q) \in Nat \ {0} /\ DOMAIN q = 1..Len(q) /\ Head(q) = q[1]
         /\ Len(Tail(q)) = Len(q) - 1 /\ DOMAIN Tail(q) = 1..Len(q) - 1
         /\ \A i \in 1..Len(q) - 1 : Tail(q)[i] = q[i + 1]
         /\ (Len(q) = 1 <=> Tail(q) = << >>)
<1>1. PICK S : q \in Seq(S)
  BY DEF IsQueue
<1>2. Tail(q) \in Seq(S)
  BY <1>1
<1>3. IsQueue(Tail(q))
  BY <1>2 DEF IsQueue
<1>4. Len(q) \in Nat \ {0} /\ DOMAIN q = 1..Len(q) /\ Head(q) = q[1]
  BY <1>1
<1>5. /\ Len(Tail(q)) = Len(q) - 1 /\ DOMAIN Tail(q) = 1..Len(q) - 1
      /\ \A i \in 1..Len(q) - 1 : Tail(q)[i] = q[i + 1]
  BY <1>1
<1>6. Len(Tail(q)) = 0 <=> Tail(q) = << >>
  BY <1>3, Push
<1>. QED  BY <1>3, <1>4, <1>5, <1>6

LEMMA Empty == IsQueue(<< >>) /\ NoUpdate(<< >>) /\ ~Asks(<< >>) /\ \A c : ~Carries(<< >>, c)
<1>1. << >> \in Seq({}) /\ DOMAIN << >> = {}
  OBVIOUS
<1>. QED  BY <1>1 DEF IsQueue, NoUpdate, Asks, Carries

LEMMA FrontQueue == ASSUME NEW q, IsQueue(q), q # << >> PROVE IsQueue(Front(q))
<1>1. PICK S : q \in Seq(S)
  BY DEF IsQueue
<1>2. Front(q) \in Seq(S)
  BY <1>1 DEF Front
<1>. QED  BY <1>2 DEF IsQueue

LEMMA WillPush ==
  ASSUME NEW q, IsQueue(q), NEW c, NEW has
  PROVE  /\ Will(Append(q, ConfigUpdated(c)), c, has)
         /\ ~NoUpdate(Append(q, ConfigUpdated(c)))
         /\ Asks(q) => Asks(Append(q, ConfigUpdated(c)))
         /\ Asks(Append(q, HotkeysActive))
         /\ NoUpdate(Append(q, HotkeysActive)) => NoUpdate(q)
         /\ Will(q, c, has) => Will(Append(q, HotkeysActive), c, has)
<1>. PICK p, r, n : p = Append(q, ConfigUpdated(c)) /\ r = Append(q, HotkeysActive) /\ n = Len(q)
  OBVIOUS
<1>1. /\ n \in Nat /\ DOMAIN q = 1..n /\ DOMAIN p = 1..n + 1 /\ DOMAIN r = 1..n + 1
      /\ \A i \in 1..n : p[i] = q[i] /\ r[i] = q[i] /\ i \in 1..n + 1
      /\ n + 1 \in 1..n + 1 /\ p[n + 1] = ConfigUpdated(c) /\ r[n + 1] = HotkeysActive
      /\ \A j \in 1..n + 1 : ~(j > n + 1) /\ (j # n + 1 => j \in 1..n)
  BY Push
<1>2. Carries(p, c) /\ ~NoUpdate(p)
  BY <1>1, Messages DEF Carries, NoUpdate, Quiets
<1>3. Asks(r) /\ (Asks(q) => Asks(p))
  BY <1>1 DEF Asks
<1>4. NoUpdate(r) <=> NoUpdate(q)
  BY <1>1 DEF NoUpdate, Quiets
<1>5. Carries(q, c) => Carries(r, c)
  <2>1. ASSUME NEW i \in 1..n, q[i] = ConfigUpdated(c), \A j \in 1..n : j > i => q[j] \in Quiets
        PROVE  Carries(r, c)
    <3>1. i \in DOMAIN r /\ r[i] = ConfigUpdated(c)
      BY <1>1, <2>1
    <3>2. \A j \in DOMAIN r : j > i => r[j] \in Quiets
      BY <1>1, <2>1 DEF Quiets
    <3>. QED  BY <3>1, <3>2 DEF Carries
  <2>. QED  BY <1>1, <2>1 DEF Carries
<1>. QED  BY <1>2, <1>3, <1>4, <1>5 DEF Will

LEMMA WillPop ==
  ASSUME NEW q, IsQueue(q), q # << >>, NEW c, NEW d, NEW has
  PROVE  /\ Will(q, c, has) /\ Head(q) = ConfigUpdated(d) => Will(Tail(q), c, d)
         /\ Head(q) = HotkeysActive =>
              /\ Will(q, c, has) => Will(Tail(q), c, has)
              /\ NoUpdate(Tail(q)) => NoUpdate(q)
         /\ Asks(q) /\ Head(q) # HotkeysActive => Asks(Tail(q))
<1>. PICK p, n : p = Tail(q) /\ n = Len(q)
  OBVIOUS
<1>1. /\ n \in Nat \ {0} /\ DOMAIN q = 1..n /\ DOMAIN p = 1..n - 1 /\ Head(q) = q[1]
      /\ \A i \in 1..n - 1 : p[i] = q[i + 1]
  BY Pop
<1>2. /\ 1 \in 1..n
      /\ \A i \in 1..n : i # 1 => i - 1 \in 1..n - 1 /\ p[i - 1] = q[i]
      /\ \A i \in 1..n - 1 : i + 1 \in 1..n /\ p[i] = q[i + 1]
  <2>1. ASSUME NEW i \in 1..n, i # 1 PROVE i - 1 \in 1..n - 1 /\ p[i - 1] = q[i]
    <3>1. i - 1 \in 1..n - 1 /\ (i - 1) + 1 = i
      BY <1>1, <2>1
    <3>. QED  BY <1>1, <3>1
  <2>. QED  BY <1>1, <2>1
<1>3. ASSUME NEW i \in 1..n, q[i] = ConfigUpdated(c), \A j \in 1..n : j > i => q[j] \in Quiets
      PROVE  Carries(p, c) \/ (q[1] = ConfigUpdated(c) /\ NoUpdate(p))
  <2>1. CASE i = 1
    <3>1. \A j \in 1..n - 1 : j + 1 > i /\ p[j] \in Quiets
      BY <1>2, <1>3, <2>1
    <3>. QED  BY <1>1, <1>3, <2>1, <3>1 DEF NoUpdate
  <2>2. CASE i # 1
    <3>1. i - 1 \in DOMAIN p /\ p[i - 1] = ConfigUpdated(c)
      BY <1>1, <1>2, <1>3, <2>2
    <3>2. \A j \in DOMAIN p : j > i - 1 => p[j] \in Quiets
      BY <1>1, <1>2, <1>3
    <3>. QED  BY <3>1, <3>2 DEF Carries
  <2>. QED  BY <2>1, <2>2
<1>4. Carries(q, c) => Carries(p, c) \/ (q[1] = ConfigUpdated(c) /\ NoUpdate(p))
  BY <1>1, <1>3 DEF Carries
<1>5. NoUpdate(q) => NoUpdate(p) /\ q[1] = HotkeysActive
  BY <1>1, <1>2 DEF NoUpdate, Quiets
<1>6. NoUpdate(p) /\ q[1] = HotkeysActive => NoUpdate(q)
  BY <1>1, <1>2 DEF NoUpdate, Quiets
<1>7. Asks(q) /\ q[1] # HotkeysActive => Asks(p)
  <2>1. ASSUME NEW i \in 1..n, q[i] = HotkeysActive, q[1] # HotkeysActive PROVE Asks(p)
    <3>1. i - 1 \in 1..n - 1 /\ p[i - 1] = HotkeysActive
      BY <1>2, <2>1
    <3>. QED  BY <1>1, <3>1 DEF Asks
  <2>. QED  BY <1>1, <2>1 DEF Asks
<1>8. Will(q, c, has) /\ q[1] = ConfigUpdated(d) => Will(p, c, d)
  BY <1>4, <1>5, Messages DEF Will
<1>9. Will(q, c, has) /\ q[1] = HotkeysActive => Will(p, c, has)
  BY <1>4, <1>5, Messages DEF Will
<1>. QED  BY <1>1, <1>6, <1>7, <1>8, <1>9

-----------------------------------------------------------------------------
(* The invariant. *)

Shape ==
  /\ DOMAIN inbox = Actors /\ DOMAIN config = Actors
  /\ \A a \in Actors : IsQueue(inbox[a])
  /\ \A a \in Actors : \A i \in DOMAIN inbox[a] :
       IsUpdate(inbox[a][i]) \/ (a = "wm" /\ inbox[a][i] = HotkeysActive)
  /\ IsQueue(port)
  /\ {alive, lastError, watching, changed, updated} \subseteq BOOLEAN

(* wm's last configuration becomes CURRENT_CONFIG; the space manager and    *)
(* the listeners have theirs from wm, and the reactor has it from the space *)
(* manager; keys that are not registered will be.                           *)
Agreeing ==
  alive =>
    /\ NoUpdate(inbox["wm"]) => config["wm"] = current
    /\ Will(inbox["sm"], config["wm"], config["sm"])
    /\ Will(inbox["reactor"], config["sm"], config["reactor"])
    /\ \A l \in Listeners : (l = "status" /\ deaf) \/ Will(inbox[l], config["wm"], config[l])
    /\ hotkeys \in {{}, {config["wm"].keys}}
    /\ hotkeys = {} => inbox["sm"] # << >> \/ Asks(inbox["wm"])

(* While the file does not change the client has what it says, and then the *)
(* port, and then wm.                                                       *)
Client ==
  /\ client # {} => watching
                    /\ \E x : client = {x} /\ x = [config |-> x.config, sent |-> x.sent] /\ x.sent \in BOOLEAN
  /\ \A x \in client : x.sent => alive /\ port # << >> /\ port[Len(port)] = x.config
  /\ \A x \in client : ~changed => Load(file) = {x.config}
  /\ updated => IF \E x \in client : x.sent THEN Len(port) = 1 ELSE port = << >>
  /\ alive /\ client = {} /\ updated /\ watching /\ ~changed /\ ~lastError /\ Load(file) # {}
       => \E c \in Load(file) : Will(inbox["wm"], c, current)
  /\ ~alive => port = << >> /\ ~lastError /\ view = {}

AInv == Shape /\ Agreeing
CInv == Shape /\ Client

LEMMA Loads == \A f : \A c, d \in Load(f) : c = d
BY DEF Load

LEMMA ActorsDiffer ==
  /\ {"wm", "sm", "reactor"} \subseteq Actors /\ Listeners \subseteq Actors
  /\ "wm" \notin Listeners /\ "sm" \notin Listeners /\ "reactor" \notin Listeners
BY SettingsAssumption DEF Actors

LEMMA AInvSound == AInv => ActorsAgree
<1>. SUFFICES ASSUME AInv, Quiet
              PROVE  /\ \A a \in Actors : (a = "status" /\ deaf) \/ config[a] = current
                     /\ hotkeys = {current.keys}
  BY DEF ActorsAgree
<1>1. alive /\ \A a \in Actors : inbox[a] = << >>
  BY DEF Quiet
<1>2. config["wm"] = current /\ config["sm"] = current /\ config["reactor"] = current
  BY <1>1, Empty, ActorsDiffer DEF AInv, Agreeing, Will
<1>3. \A l \in Listeners : (l = "status" /\ deaf) \/ config[l] = current
  BY <1>1, <1>2, Empty, ActorsDiffer DEF AInv, Agreeing, Will
<1>4. hotkeys = {current.keys}
  BY <1>1, <1>2, Empty, ActorsDiffer DEF AInv, Agreeing
<1>. QED  BY <1>2, <1>3, <1>4 DEF Actors

LEMMA CInvSound == CInv => WatchedFileRuns
<1>. SUFFICES ASSUME CInv, Quiet, watching, ~changed, client = {}, updated, ~lastError, Load(file) # {}
              PROVE  Load(file) = {current}
  BY DEF WatchedFileRuns
<1>1. alive /\ inbox["wm"] = << >>
  BY ActorsDiffer DEF Quiet
<1>2. PICK c \in Load(file) : Will(inbox["wm"], c, current)
  BY <1>1 DEF CInv, Client
<1>3. c = current
  BY <1>1, <1>2, Empty DEF Will
<1>. QED  BY <1>2, <1>3, Loads

-----------------------------------------------------------------------------
(* What the steps do to mailboxes.                                          *)

LEMMA SendShape ==
  ASSUME NEW box, DOMAIN box = Actors, \A a \in Actors : IsQueue(box[a]), NEW to, NEW m
  PROVE  /\ DOMAIN Send(box, to, m) = Actors
         /\ \A a \in Actors : /\ Send(box, to, m)[a] = IF a \in to THEN Append(box[a], m) ELSE box[a]
                              /\ IsQueue(Send(box, to, m)[a])
BY Push DEF Send

LEMMA RestShape ==
  ASSUME Shape, NEW a \in Actors, inbox[a] # << >>
  PROVE  /\ DOMAIN Rest(a) = Actors
         /\ Rest(a)[a] = Tail(inbox[a]) /\ \A b \in Actors : b # a => Rest(a)[b] = inbox[b]
         /\ \A b \in Actors : IsQueue(Rest(a)[b])
         /\ IsUpdate(Head(inbox[a])) \/ (a = "wm" /\ Head(inbox[a]) = HotkeysActive)
<1>1. /\ DOMAIN inbox = Actors /\ \A b \in Actors : IsQueue(inbox[b])
      /\ \A i \in DOMAIN inbox[a] : IsUpdate(inbox[a][i]) \/ (a = "wm" /\ inbox[a][i] = HotkeysActive)
  BY DEF Shape
<1>2. 1 \in DOMAIN inbox[a] /\ Head(inbox[a]) = inbox[a][1] /\ IsQueue(Tail(inbox[a]))
  BY <1>1, Pop
<1>. QED  BY <1>1, <1>2 DEF Rest

(* Messages stay of their kinds. *)
Kinds(box) ==
  \A a \in Actors : \A i \in DOMAIN box[a] :
    IsUpdate(box[a][i]) \/ (a = "wm" /\ box[a][i] = HotkeysActive)

LEMMA KindsKept ==
  ASSUME Shape
  PROVE  /\ Kinds(inbox)
         /\ \A a \in Actors : inbox[a] # << >> => Kinds(Rest(a))
<1>1. Kinds(inbox)
  BY DEF Kinds, Shape
<1>2. ASSUME NEW a \in Actors, inbox[a] # << >> PROVE Kinds(Rest(a))
  <2>. DEFINE p == Tail(inbox[a])
  <2>1. \A b \in Actors : Rest(a)[b] = IF b = a THEN p ELSE inbox[b]
    BY <1>2, RestShape
  <2>2. \A i \in DOMAIN p : \E j \in DOMAIN inbox[a] : p[i] = inbox[a][j]
    <3>1. IsQueue(inbox[a])
      BY DEF Shape
    <3>2. PICK n : /\ n \in Nat /\ DOMAIN inbox[a] = 1..n /\ DOMAIN p = 1..n - 1
                   /\ \A i \in 1..n - 1 : p[i] = inbox[a][i + 1]
      BY <1>2, <3>1, Pop
    <3>3. \A i \in 1..n - 1 : i + 1 \in 1..n
      BY <3>2
    <3>. QED  BY <3>2, <3>3
  <2>. HIDE DEF p
  <2>. QED  BY <1>1, <2>1, <2>2 DEF Kinds
<1>. QED  BY <1>1, <1>2

LEMMA KindsSent ==
  ASSUME NEW box, DOMAIN box = Actors, \A a \in Actors : IsQueue(box[a]), Kinds(box), NEW to, NEW m,
         IsUpdate(m) \/ (m = HotkeysActive /\ to = {"wm"})
  PROVE  Kinds(Send(box, to, m))
<1>1. SUFFICES ASSUME NEW a \in Actors, NEW i \in DOMAIN Send(box, to, m)[a]
               PROVE  \/ IsUpdate(Send(box, to, m)[a][i])
                      \/ (a = "wm" /\ Send(box, to, m)[a][i] = HotkeysActive)
  BY DEF Kinds
<1>2. CASE a \notin to
  BY <1>1, <1>2, SendShape DEF Kinds
<1>3. CASE a \in to
  <2>1. Send(box, to, m)[a] = Append(box[a], m)
    BY <1>3, SendShape
  <2>. PICK p, n : p = Append(box[a], m) /\ n = Len(box[a])
    OBVIOUS
  <2>2. /\ n \in Nat /\ DOMAIN box[a] = 1..n /\ DOMAIN p = 1..n + 1
        /\ \A j \in 1..n : p[j] = box[a][j]
        /\ p[n + 1] = m
    BY Push
  <2>3. i \in 1..n \/ i = n + 1
    BY <1>1, <2>1, <2>2
  <2>. QED  BY <1>1, <1>3, <2>1, <2>2, <2>3 DEF Kinds
<1>. QED  BY <1>2, <1>3

-----------------------------------------------------------------------------
(* Shape is kept. *)

MailShape(box) == DOMAIN box = Actors /\ (\A a \in Actors : IsQueue(box[a])) /\ Kinds(box)

LEMMA ShapeMail == Shape => MailShape(inbox)
BY KindsKept DEF Shape, MailShape

LEMMA RestMail == ASSUME Shape, NEW a \in Actors, inbox[a] # << >> PROVE MailShape(Rest(a))
BY KindsKept, RestShape DEF MailShape

LEMMA SendMail ==
  ASSUME NEW box, MailShape(box), NEW to, NEW m, IsUpdate(m) \/ (m = HotkeysActive /\ to = {"wm"})
  PROVE  MailShape(Send(box, to, m))
BY SendShape, KindsSent DEF MailShape

LEMMA StartedShape ==
  ASSUME NEW c
  PROVE  MailShape(Started(c).inbox) /\ DOMAIN Started(c).config = Actors
<1>. PICK w : w = <<HotkeysActive>>
  OBVIOUS
<1>1. IsQueue(w) /\ DOMAIN w = {1} /\ w[1] = HotkeysActive
  <2>1. w \in Seq({HotkeysActive})
    OBVIOUS
  <2>2. IsQueue(w)
    BY <2>1 DEF IsQueue
  <2>. QED  BY <2>2
<1>2. Started(c).inbox = [a \in Actors |-> IF a = "wm" THEN w ELSE << >>]
  BY DEF Started
<1>3. DOMAIN << >> = {}
  OBVIOUS
<1>4. DOMAIN Started(c).config = Actors
  BY DEF Started
<1>. QED  BY <1>1, <1>2, <1>3, <1>4, Empty DEF MailShape, Kinds

LEMMA EndedShape ==
  ASSUME Shape, Ended
  PROVE  Shape'
<1>1. DOMAIN << >> = {}
  OBVIOUS
<1>2. MailShape([a \in Actors |-> << >>])
  BY <1>1, Empty DEF MailShape, Kinds
<1>3. DOMAIN config' = Actors /\ IsQueue(port') /\ MailShape(inbox')
  BY <1>2, Empty DEF Ended
<1>4. {alive', lastError', watching', changed', updated'} \subseteq BOOLEAN
  BY DEF Ended, Shape
<1>. QED  BY <1>3, <1>4 DEF Shape, MailShape, Kinds

(* A save, whatever is in the window: the program has the configuration at  *)
(* once, and the file unless it cannot be written.                          *)
SaveStep ==
  \E c : /\ view # {}
         /\ current' = c /\ inbox' = Send(inbox, {"wm"}, ConfigUpdated(c))
         /\ \/ lastError' = TRUE /\ file' = file /\ changed' = (changed \/ FALSE)
            \/ lastError' = FALSE /\ changed' = (changed \/ watching)
         /\ UNCHANGED <<alive, config, hotkeys, deaf, watching, client, port, updated>>

LEMMA SaveEffect ==
  /\ DebouncedSave => SaveStep
  /\ \A id, key : UpdateHotkey(id, key) => SaveStep
<1>1. ASSUME NEW v, SaveToConfig(v), view # {} PROVE SaveStep
  <2>. PICK c : c = ApplyToConfig(v, current)
    OBVIOUS
  <2>1. /\ current' = c /\ inbox' = Send(inbox, {"wm"}, ConfigUpdated(c))
        /\ UNCHANGED <<alive, config, hotkeys, deaf, watching, client, port, updated>>
    BY <1>1 DEF SaveToConfig
  <2>2. PICK ok \in BOOLEAN : /\ lastError' = ~ok
                              /\ file' = IF ok THEN WritePreferences(v, file) ELSE file
                              /\ changed' = (changed \/ (watching /\ ok))
    BY <1>1 DEF SaveToConfig
  <2>3. CASE ok = TRUE
    <3>1. lastError' = FALSE /\ changed' = (changed \/ watching)
      BY <2>2, <2>3
    <3>. QED  BY <1>1, <2>1, <3>1 DEF SaveStep
  <2>4. CASE ok = FALSE
    <3>1. lastError' = TRUE /\ file' = file /\ changed' = (changed \/ FALSE)
      BY <2>2, <2>4
    <3>. QED  BY <1>1, <2>1, <3>1 DEF SaveStep
  <2>. QED  BY <2>2, <2>3, <2>4
<1>2. DebouncedSave => SaveStep
  BY <1>1 DEF DebouncedSave
<1>3. \A id, key : UpdateHotkey(id, key) => SaveStep
  BY <1>1 DEF UpdateHotkey
<1>. QED  BY <1>2, <1>3

(* The program starts with what the file says.                              *)
Starts(c) ==
  /\ current' = Started(c).current /\ config' = Started(c).config /\ inbox' = Started(c).inbox
  /\ hotkeys' = Started(c).hotkeys /\ deaf' = Started(c).deaf
  /\ alive' = TRUE

StartStep == ~alive /\ (\E c \in Load(file) : Starts(c)) /\ UNCHANGED <<file, windowVars, clientVars>>

(* What the window or the user do without a message.                        *)
Silent ==
  /\ UNCHANGED <<programVars, lastError, client, port, updated>>
  /\ view' # {} => alive \/ view # {}
  /\ \/ file' = file /\ UNCHANGED <<watching, changed>>
     \/ changed' = (changed \/ watching) /\ watching' = watching
     \/ file' = file /\ watching' = TRUE /\ changed' = TRUE /\ client = {} /\ alive

LEMMA Steps ==
  [Next]_vars <=>
    \/ UNCHANGED vars
    \/ WmConfigUpdated \/ WmHotkeysActive \/ SmConfigUpdated
    \/ \E a \in Listeners \cup {"reactor"} : Received(a)
    \/ OpenPreferences \/ DebouncedSave
    \/ \E s \in Shown : ChangeSetting(s)
    \/ \E rules \in {{}, {"app"}} : ChangeRules(rules)
    \/ \E id \in Identifiers, key \in Chords \cup Modifiers :
         UpdateHotkey(id, key)
    \/ \E f \in Files : Edit(f)
    \/ Quit \/ Start
    \/ Watch \/ UpdateConfig \/ SendRequest \/ OnRequest \/ TimeOut
BY DEF Next

(* Every step is one of these.                                              *)
LEMMA StepKinds ==
  ASSUME [Next]_vars
  PROVE  \/ WmConfigUpdated \/ WmHotkeysActive \/ SmConfigUpdated
         \/ \E a \in Listeners \cup {"reactor"} : Received(a)
         \/ SaveStep \/ Silent \/ Ended \/ StartStep
         \/ UpdateConfig \/ SendRequest \/ OnRequest \/ TimeOut
<1>1. ASSUME \/ UNCHANGED vars \/ OpenPreferences \/ \E f : Edit(f)
      PROVE  Silent
  BY <1>1 DEF vars, windowVars, clientVars, programVars, OpenPreferences, Edit, Silent
<1>2. ASSUME NEW v, Changed(v), view # {} PROVE Silent
  BY <1>2 DEF Changed, clientVars, programVars, Silent
<1>3. ASSUME NEW x, ChangeSetting(x) \/ ChangeRules(x) PROVE Silent
  BY <1>2, <1>3 DEF ChangeSetting, ChangeRules
<1>4. Watch => Silent
  BY DEF Watch, windowVars, programVars, Silent
<1>5. Start => StartStep
  <2>. HAVE Start
  <2>1. ~alive /\ alive' = TRUE /\ UNCHANGED <<file, windowVars, clientVars>>
    BY DEF Start
  <2>2. PICK c \in Load(file) :
          /\ current' = Started(c).current /\ config' = Started(c).config /\ inbox' = Started(c).inbox
          /\ hotkeys' = Started(c).hotkeys /\ deaf' = Started(c).deaf
    BY DEF Start
  <2>3. Starts(c)
    BY <2>1, <2>2 DEF Starts
  <2>. QED  BY <2>1, <2>2, <2>3 DEF StartStep
<1>6. Quit => Ended
  BY DEF Quit
<1>. QED  BY <1>1, <1>3, <1>4, <1>5, <1>6, SaveEffect, Steps

-----------------------------------------------------------------------------

LEMMA WmUpdate ==
  ASSUME Shape, WmConfigUpdated
  PROVE  \E c : /\ inbox["wm"] # << >> /\ Head(inbox["wm"]) = ConfigUpdated(c)
                /\ current' = c /\ config' = [config EXCEPT !["wm"] = c]
                /\ inbox' = Send(Rest("wm"), Listeners \cup {"sm"}, ConfigUpdated(c))
<1>1. inbox["wm"] # << >> /\ Head(inbox["wm"]).kind = "ConfigUpdated"
  BY DEF WmConfigUpdated, Take
<1>2. PICK c : Head(inbox["wm"]) = ConfigUpdated(c)
  BY <1>1, RestShape, ActorsDiffer, Messages DEF IsUpdate
<1>3. PICK d \in Head(inbox["wm"]).config :
        /\ current' = d /\ config' = [config EXCEPT !["wm"] = d]
        /\ inbox' = Send(Rest("wm"), Listeners \cup {"sm"}, ConfigUpdated(d))
  BY DEF WmConfigUpdated
<1>4. d = c
  BY <1>2, <1>3, Messages
<1>. QED  BY <1>1, <1>2, <1>3, <1>4

LEMMA SmUpdate ==
  ASSUME Shape, SmConfigUpdated
  PROVE  \E c : /\ inbox["sm"] # << >> /\ Head(inbox["sm"]) = ConfigUpdated(c)
                /\ config' = [config EXCEPT !["sm"] = c]
                /\ inbox' = Send(Send(Rest("sm"), {"reactor"}, ConfigUpdated(c)), {"wm"}, HotkeysActive)
<1>1. inbox["sm"] # << >>
  BY DEF SmConfigUpdated, Take
<1>2. PICK c : Head(inbox["sm"]) = ConfigUpdated(c)
  BY <1>1, RestShape, ActorsDiffer DEF IsUpdate
<1>3. (CHOOSE d \in Head(inbox["sm"]).config : TRUE) = c
  BY <1>2, Messages
<1>. QED  BY <1>1, <1>2, <1>3 DEF SmConfigUpdated

LEMMA OtherUpdate ==
  ASSUME Shape, NEW a \in Listeners \cup {"reactor"}, Received(a)
  PROVE  \E c : /\ inbox[a] # << >> /\ Head(inbox[a]) = ConfigUpdated(c)
                /\ config' = IF a = "status" /\ deaf THEN config ELSE [config EXCEPT ![a] = c]
                /\ inbox' = Rest(a)
<1>1. inbox[a] # << >> /\ a \in Actors /\ a # "wm"
  BY ActorsDiffer DEF Received, Take
<1>2. PICK c : Head(inbox[a]) = ConfigUpdated(c)
  BY <1>1, RestShape DEF IsUpdate
<1>. PICK d : d = CHOOSE e \in Head(inbox[a]).config : TRUE
  OBVIOUS
<1>3. d = c
  BY <1>2, Messages
<1>4. inbox' = Rest(a) /\ config' = IF a = "status" /\ deaf THEN config ELSE [config EXCEPT ![a] = d]
  BY DEF Received
<1>. QED  BY <1>1, <1>2, <1>3, <1>4

LEMMA MailIsShape ==
  ASSUME MailShape(inbox'), DOMAIN config' = Actors, IsQueue(port'),
         {alive', lastError', watching', changed', updated'} \subseteq BOOLEAN
  PROVE  Shape'
BY DEF Shape, MailShape, Kinds

LEMMA NextShape ==
  ASSUME Shape, Client, [Next]_vars
  PROVE  Shape'
<1>. DEFINE Bools == {alive', lastError', watching', changed', updated'} \subseteq BOOLEAN
<1>0. /\ DOMAIN config = Actors /\ IsQueue(port) /\ MailShape(inbox) /\ "wm" \in Actors /\ "sm" \in Actors
      /\ {alive, lastError, watching, changed, updated} \subseteq BOOLEAN
      /\ \A c : IsUpdate(ConfigUpdated(c))
  BY ShapeMail, ActorsDiffer DEF Shape, IsUpdate
<1>1. CASE WmConfigUpdated
  <2>1. PICK c : /\ inbox["wm"] # << >> /\ config' = [config EXCEPT !["wm"] = c]
                 /\ inbox' = Send(Rest("wm"), Listeners \cup {"sm"}, ConfigUpdated(c))
    BY <1>1, WmUpdate
  <2>2. MailShape(inbox')
    BY <1>0, <2>1, RestMail, SendMail
  <2>3. Bools /\ DOMAIN config' = Actors /\ port' = port
    BY <1>0, <1>1, <2>1 DEF WmConfigUpdated, windowVars, clientVars
  <2>. QED  BY <1>0, <2>2, <2>3, MailIsShape
<1>2. CASE WmHotkeysActive
  <2>1. CASE Ended
    BY <2>1, EndedShape
  <2>2. CASE ~Ended
    <3>1. inbox["wm"] # << >> /\ inbox' = Rest("wm") /\ config' = config /\ port' = port /\ Bools
      BY <1>0, <1>2, <2>2 DEF WmHotkeysActive, Take, windowVars, clientVars
    <3>2. MailShape(inbox')
      BY <1>0, <3>1, RestMail
    <3>. QED  BY <1>0, <3>1, <3>2, MailIsShape
  <2>. QED  BY <2>1, <2>2
<1>3. CASE SmConfigUpdated
  <2>1. PICK c : /\ inbox["sm"] # << >> /\ config' = [config EXCEPT !["sm"] = c]
                 /\ inbox' = Send(Send(Rest("sm"), {"reactor"}, ConfigUpdated(c)), {"wm"}, HotkeysActive)
    BY <1>3, SmUpdate
  <2>2. MailShape(inbox')
    BY <1>0, <2>1, RestMail, SendMail
  <2>3. Bools /\ DOMAIN config' = Actors /\ port' = port
    BY <1>0, <1>3, <2>1 DEF SmConfigUpdated, windowVars, clientVars
  <2>. QED  BY <1>0, <2>2, <2>3, MailIsShape
<1>4. ASSUME NEW a \in Listeners \cup {"reactor"}, Received(a) PROVE Shape'
  <2>1. PICK c : /\ inbox[a] # << >> /\ inbox' = Rest(a)
                 /\ config' = IF a = "status" /\ deaf THEN config ELSE [config EXCEPT ![a] = c]
    BY <1>4, OtherUpdate
  <2>2. MailShape(inbox') /\ DOMAIN config' = Actors
    BY <1>0, <2>1, ActorsDiffer, RestMail
  <2>3. Bools /\ port' = port
    BY <1>0, <1>4 DEF Received, windowVars, clientVars
  <2>. QED  BY <1>0, <2>2, <2>3, MailIsShape
<1>5. CASE SaveStep
  <2>1. PICK c : inbox' = Send(inbox, {"wm"}, ConfigUpdated(c)) /\ config' = config /\ port' = port
    BY <1>5 DEF SaveStep
  <2>2. Bools
    BY <1>0, <1>5 DEF SaveStep
  <2>3. MailShape(inbox')
    BY <1>0, <2>1, SendMail
  <2>. QED  BY <1>0, <2>1, <2>2, <2>3, MailIsShape
<1>6. CASE Silent
  <2>1. inbox' = inbox /\ config' = config /\ port' = port
    BY <1>6 DEF Silent, programVars
  <2>2. Bools
    BY <1>0, <1>6 DEF Silent, programVars
  <2>. QED  BY <1>0, <2>1, <2>2, MailIsShape
<1>7. CASE Ended
  BY <1>7, EndedShape
<1>8. CASE StartStep
  <2>1. PICK c : Starts(c)
    BY <1>8 DEF StartStep
  <2>2. MailShape(inbox') /\ DOMAIN config' = Actors
    BY <2>1, StartedShape DEF Starts
  <2>3. Bools /\ port' = port
    BY <1>0, <1>8, <2>1 DEF StartStep, Starts, windowVars, clientVars
  <2>. QED  BY <1>0, <2>2, <2>3, MailIsShape
<1>9. CASE UpdateConfig
  <2>1. inbox' = inbox /\ config' = config /\ port' = port /\ Bools
    BY <1>0, <1>9 DEF UpdateConfig, programVars, windowVars
  <2>. QED  BY <1>0, <2>1, MailIsShape
<1>10. CASE SendRequest
  <2>1. inbox' = inbox /\ config' = config /\ Bools
    BY <1>0, <1>10 DEF SendRequest, programVars, windowVars
  <2>2. PICK x \in client : port' = Append(port, x.config) \/ port' = port
    BY <1>10 DEF SendRequest
  <2>3. IsQueue(Append(port, x.config))
    BY <1>0, Push
  <2>4. IsQueue(port')
    BY <1>0, <2>2, <2>3
  <2>. QED  BY <1>0, <2>1, <2>4, MailIsShape
<1>11. CASE OnRequest
  <2>1. inbox' = Send(inbox, {"wm"}, ConfigUpdated(Head(port))) /\ config' = config /\ Bools
    BY <1>0, <1>11 DEF OnRequest, windowVars
  <2>2. IsQueue(port')
    BY <1>0, <1>11, Pop DEF OnRequest
  <2>3. MailShape(inbox')
    BY <1>0, <2>1, SendMail
  <2>. QED  BY <1>0, <2>1, <2>2, <2>3, MailIsShape
<1>12. CASE TimeOut
  <2>1. inbox' = inbox /\ config' = config /\ Bools
    BY <1>0, <1>12 DEF TimeOut, programVars, windowVars
  <2>2. port # << >>
    BY <1>12 DEF TimeOut, Client
  <2>3. IsQueue(Front(port))
    BY <1>0, <2>2, FrontQueue
  <2>4. IsQueue(port')
    BY <1>0, <1>12, <2>3 DEF TimeOut
  <2>. QED  BY <1>0, <2>1, <2>4, MailIsShape
<1>. QED  BY <1>1, <1>2, <1>3, <1>4, <1>5, <1>6, <1>7, <1>8, <1>9, <1>10, <1>11, <1>12, StepKinds

-----------------------------------------------------------------------------
(* Agreeing is kept.                                                        *)

LEMMA AgreeingParts ==
  ASSUME Shape, Agreeing, alive
  PROVE  /\ \A a \in Actors : IsQueue(inbox[a])
         /\ DOMAIN inbox = Actors /\ DOMAIN config = Actors
         /\ NoUpdate(inbox["wm"]) => config["wm"] = current
         /\ Will(inbox["sm"], config["wm"], config["sm"])
         /\ Will(inbox["reactor"], config["sm"], config["reactor"])
         /\ \A l \in Listeners : (l = "status" /\ deaf) \/ Will(inbox[l], config["wm"], config[l])
         /\ hotkeys \in {{}, {config["wm"].keys}}
         /\ hotkeys = {} => inbox["sm"] # << >> \/ Asks(inbox["wm"])
BY DEF Shape, Agreeing

(* Another update for wm, wherever it comes from.                           *)
LEMMA AgreeingSent ==
  ASSUME Shape, Agreeing, NEW c, inbox' = Send(inbox, {"wm"}, ConfigUpdated(c)),
         UNCHANGED <<alive, config, hotkeys, deaf>>
  PROVE  Agreeing'
<1>. SUFFICES ASSUME alive, alive' PROVE Agreeing'
  BY DEF Agreeing
<1>1. inbox'["wm"] = Append(inbox["wm"], ConfigUpdated(c)) /\ \A a \in Actors : a # "wm" => inbox'[a] = inbox[a]
  BY ActorsDiffer DEF Send
<1>2. ~NoUpdate(inbox'["wm"]) /\ (Asks(inbox["wm"]) => Asks(inbox'["wm"]))
  <2>1. IsQueue(inbox["wm"])
    BY ActorsDiffer DEF Shape
  <2>. QED  BY <1>1, <2>1, WillPush
<1>. QED  BY <1>1, <1>2, AgreeingParts, ActorsDiffer DEF Agreeing

LEMMA AgreeingWm ==
  ASSUME Shape, Agreeing, WmConfigUpdated
  PROVE  Agreeing'
<1>1. PICK c : /\ inbox["wm"] # << >> /\ Head(inbox["wm"]) = ConfigUpdated(c)
               /\ current' = c /\ config' = [config EXCEPT !["wm"] = c]
               /\ inbox' = Send(Rest("wm"), Listeners \cup {"sm"}, ConfigUpdated(c))
  BY WmUpdate
<1>2. alive /\ alive' /\ hotkeys' = {} /\ deaf' = deaf
  BY DEF WmConfigUpdated, Take
<1>3. \A a \in Actors : a # "wm" => Rest("wm")[a] = inbox[a]
  BY <1>1, RestShape, ActorsDiffer
<1>4. /\ \A a \in Listeners \cup {"sm"} : inbox'[a] = Append(inbox[a], ConfigUpdated(c))
      /\ inbox'["reactor"] = inbox["reactor"]
  BY <1>1, <1>3, ActorsDiffer DEF Send
<1>5. /\ config'["wm"] = c
      /\ \A a \in Actors : a # "wm" => config'[a] = config[a]
  BY <1>1, <1>2, AgreeingParts, ActorsDiffer
<1>6. \A a \in Listeners \cup {"sm"} :
        Will(inbox'[a], c, config'[a]) /\ inbox'[a] # << >>
  <2>. TAKE a \in Listeners \cup {"sm"}
  <2>1. IsQueue(inbox[a]) /\ inbox'[a] = Append(inbox[a], ConfigUpdated(c))
    BY <1>2, <1>4, AgreeingParts, ActorsDiffer
  <2>. QED  BY <2>1, WillPush, Push
<1>7. Will(inbox'["reactor"], config'["sm"], config'["reactor"])
  BY <1>2, <1>4, <1>5, AgreeingParts, ActorsDiffer
<1>. QED  BY <1>1, <1>2, <1>5, <1>6, <1>7 DEF Agreeing

LEMMA AgreeingHotkeys ==
  ASSUME Shape, Agreeing, WmHotkeysActive, ~Ended
  PROVE  Agreeing'
<1>1. /\ alive /\ inbox["wm"] # << >> /\ Head(inbox["wm"]).kind = "HotkeysActive"
      /\ inbox' = Rest("wm")
      /\ hotkeys' = IF hotkeys = {} THEN {config["wm"].keys} ELSE hotkeys
      /\ UNCHANGED <<alive, current, config, deaf>>
  BY DEF WmHotkeysActive, Take
<1>2. Head(inbox["wm"]) = HotkeysActive
  BY <1>1, RestShape, ActorsDiffer, Messages DEF IsUpdate
<1>3. inbox'["wm"] = Tail(inbox["wm"]) /\ \A a \in Actors : a # "wm" => inbox'[a] = inbox[a]
  BY <1>1, RestShape, ActorsDiffer
<1>4. NoUpdate(inbox'["wm"]) => NoUpdate(inbox["wm"])
  <2>1. IsQueue(inbox["wm"])
    BY <1>1, AgreeingParts, ActorsDiffer
  <2>. QED  BY <1>1, <1>2, <1>3, <2>1, WillPop
<1>5. hotkeys' = {config["wm"].keys} /\ hotkeys' # {}
  BY <1>1, AgreeingParts
<1>. QED  BY <1>1, <1>3, <1>4, <1>5, AgreeingParts, ActorsDiffer DEF Agreeing

LEMMA AgreeingSm ==
  ASSUME Shape, Agreeing, SmConfigUpdated
  PROVE  Agreeing'
<1>1. PICK c : /\ inbox["sm"] # << >> /\ Head(inbox["sm"]) = ConfigUpdated(c)
               /\ config' = [config EXCEPT !["sm"] = c]
               /\ inbox' = Send(Send(Rest("sm"), {"reactor"}, ConfigUpdated(c)), {"wm"}, HotkeysActive)
  BY SmUpdate
<1>2. alive /\ alive' /\ current' = current /\ hotkeys' = hotkeys /\ deaf' = deaf
  BY DEF SmConfigUpdated, Take
<1>. PICK box : box = Send(Rest("sm"), {"reactor"}, ConfigUpdated(c))
  OBVIOUS
<1>3. Rest("sm")["sm"] = Tail(inbox["sm"]) /\ \A a \in Actors : a # "sm" => Rest("sm")[a] = inbox[a]
  BY <1>1, RestShape, ActorsDiffer
<1>4. /\ box["reactor"] = Append(inbox["reactor"], ConfigUpdated(c)) /\ box["sm"] = Tail(inbox["sm"])
      /\ \A a \in Actors \ {"sm", "reactor"} : box[a] = inbox[a]
  BY <1>3, ActorsDiffer DEF Send
<1>5. /\ inbox'["wm"] = Append(inbox["wm"], HotkeysActive)
      /\ inbox'["reactor"] = Append(inbox["reactor"], ConfigUpdated(c)) /\ inbox'["sm"] = Tail(inbox["sm"])
      /\ \A a \in Listeners : inbox'[a] = inbox[a]
  BY <1>1, <1>4, ActorsDiffer DEF Send
<1>6. /\ config'["sm"] = c
      /\ \A a \in Actors : a # "sm" => config'[a] = config[a]
  BY <1>1, <1>2, AgreeingParts, ActorsDiffer
<1>7. Asks(inbox'["wm"]) /\ (NoUpdate(inbox'["wm"]) => NoUpdate(inbox["wm"]))
  <2>1. IsQueue(inbox["wm"])
    BY ActorsDiffer DEF Shape
  <2>. QED  BY <1>5, <2>1, WillPush
<1>8. Will(inbox'["reactor"], c, config'["reactor"])
  <2>1. IsQueue(inbox["reactor"])
    BY ActorsDiffer DEF Shape
  <2>. QED  BY <1>5, <2>1, WillPush
<1>9. Will(inbox'["sm"], config["wm"], c)
  <2>1. IsQueue(inbox["sm"]) /\ Will(inbox["sm"], config["wm"], config["sm"])
    BY <1>2, AgreeingParts, ActorsDiffer
  <2>. QED  BY <1>1, <1>5, <2>1, WillPop
<1>. QED  BY <1>2, <1>5, <1>6, <1>7, <1>8, <1>9, AgreeingParts, ActorsDiffer DEF Agreeing

LEMMA AgreeingReceived ==
  ASSUME Shape, Agreeing, NEW a \in Listeners \cup {"reactor"}, Received(a)
  PROVE  Agreeing'
<1>1. PICK c : /\ inbox[a] # << >> /\ Head(inbox[a]) = ConfigUpdated(c)
               /\ config' = IF a = "status" /\ deaf THEN config ELSE [config EXCEPT ![a] = c]
               /\ inbox' = Rest(a)
  BY OtherUpdate
<1>2. alive /\ alive' /\ current' = current /\ hotkeys' = hotkeys /\ deaf' = deaf
  BY DEF Received, Take
<1>3. a \in Actors /\ a # "wm" /\ a # "sm"
  BY ActorsDiffer
<1>4. inbox'[a] = Tail(inbox[a]) /\ \A b \in Actors : b # a => inbox'[b] = inbox[b]
  BY <1>1, <1>3, RestShape
<1>5. \A d, e : Will(inbox[a], d, e) => Will(inbox'[a], d, c)
  <2>1. IsQueue(inbox[a])
    BY <1>3 DEF Shape
  <2>. QED  BY <1>1, <1>4, <2>1, WillPop
<1>6. /\ \A b \in Actors : b # a => config'[b] = config[b]
      /\ (a = "status" /\ deaf) \/ config'[a] = c
  BY <1>1, <1>2, <1>3, AgreeingParts
<1>7. \A l \in Listeners : (l = "status" /\ deaf') \/ Will(inbox'[l], config'["wm"], config'[l])
  BY <1>2, <1>3, <1>4, <1>5, <1>6, AgreeingParts, ActorsDiffer
<1>8. Will(inbox'["reactor"], config'["sm"], config'["reactor"])
  BY <1>2, <1>3, <1>4, <1>5, <1>6, AgreeingParts, ActorsDiffer
<1>. QED  BY <1>2, <1>3, <1>4, <1>6, <1>7, <1>8, AgreeingParts, ActorsDiffer DEF Agreeing

LEMMA AgreeingStarts ==
  ASSUME NEW c, Starts(c)
  PROVE  Agreeing'
<1>. PICK w : w = <<HotkeysActive>>
  OBVIOUS
<1>1. Asks(w)
  BY DEF Asks
<1>2. /\ current' = c /\ config' = [a \in Actors |-> c] /\ hotkeys' = {}
      /\ inbox' = [a \in Actors |-> IF a = "wm" THEN w ELSE << >>]
  BY DEF Starts, Started
<1>3. inbox'["wm"] = w /\ \A a \in Actors : a # "wm" => inbox'[a] = << >>
  BY <1>2, ActorsDiffer
<1>4. \A a \in Actors : config'[a] = c
  BY <1>2
<1>. QED  BY <1>1, <1>2, <1>3, <1>4, Empty, ActorsDiffer DEF Agreeing, Will

LEMMA NextAgreeing ==
  ASSUME Shape, Agreeing, [Next]_vars
  PROVE  Agreeing'
<1>1. CASE WmConfigUpdated
  BY <1>1, AgreeingWm
<1>2. CASE WmHotkeysActive /\ ~Ended
  BY <1>2, AgreeingHotkeys
<1>3. CASE SmConfigUpdated
  BY <1>3, AgreeingSm
<1>4. ASSUME NEW a \in Listeners \cup {"reactor"}, Received(a) PROVE Agreeing'
  BY <1>4, AgreeingReceived
<1>5. CASE SaveStep
  BY <1>5, AgreeingSent DEF SaveStep
<1>6. CASE OnRequest
  BY <1>6, AgreeingSent DEF OnRequest
<1>7. CASE Ended
  BY <1>7 DEF Ended, Agreeing
<1>8. CASE StartStep
  BY <1>8, AgreeingStarts DEF StartStep
<1>9. CASE Silent \/ UpdateConfig \/ SendRequest \/ TimeOut
  <2>1. UNCHANGED programVars
    BY <1>9 DEF Silent, UpdateConfig, SendRequest, TimeOut, programVars
  <2>. QED  BY <2>1 DEF programVars, Agreeing
<1>. QED  BY <1>1, <1>2, <1>3, <1>4, <1>5, <1>6, <1>7, <1>8, <1>9, StepKinds

-----------------------------------------------------------------------------
(* Client is kept.                                                          *)

Runs == \E c \in Load(file) : Will(inbox["wm"], c, current)
Clear == alive /\ client = {} /\ updated /\ watching /\ ~changed /\ ~lastError /\ Load(file) # {}

ClientVars == <<file, alive, lastError, view, client, watching, changed, port, updated>>

(* What leaves file, port and client alone keeps wm's future.               *)
LEMMA ClientStays ==
  ASSUME Client, UNCHANGED <<file, alive, lastError, client, watching, changed, port, updated>>,
         ~alive' => view' = {}, Runs => Runs'
  PROVE  Client'
<1>1. Client' <=> /\ /\ client # {} => watching
                                    /\ \E x : client = {x} /\ x = [config |-> x.config, sent |-> x.sent]
                                              /\ x.sent \in BOOLEAN
                     /\ \A x \in client : x.sent => alive /\ port # << >> /\ port[Len(port)] = x.config
                     /\ \A x \in client : ~changed => Load(file) = {x.config}
                     /\ updated => IF \E x \in client : x.sent THEN Len(port) = 1 ELSE port = << >>
                     /\ ~alive => port = << >> /\ ~lastError /\ view' = {}
                  /\ Clear => Runs'
  BY DEF Client, ClientVars, Clear, Runs
<1>2. Clear => Runs
  BY DEF Client, Clear, Runs
<1>. QED  BY <1>1, <1>2 DEF Client

LEMMA ClientRuns == ASSUME Client, UNCHANGED ClientVars, Runs => Runs' PROVE Client'
<1>1. ~alive' => view' = {}
  BY DEF Client, ClientVars
<1>. QED  BY <1>1, ClientStays DEF ClientVars

LEMMA WmKept ==
  ASSUME inbox'["wm"] = inbox["wm"], current' = current, file' = file
  PROVE  Runs => Runs'
BY DEF Runs

LEMMA ClientWm ==
  ASSUME Shape, Client, WmConfigUpdated
  PROVE  Client'
<1>1. PICK c : /\ inbox["wm"] # << >> /\ Head(inbox["wm"]) = ConfigUpdated(c)
               /\ current' = c
               /\ inbox' = Send(Rest("wm"), Listeners \cup {"sm"}, ConfigUpdated(c))
  BY WmUpdate
<1>2. inbox'["wm"] = Tail(inbox["wm"])
  BY <1>1, RestShape, ActorsDiffer DEF Send
<1>3. UNCHANGED ClientVars
  BY DEF WmConfigUpdated, windowVars, clientVars, ClientVars
<1>4. \A d : Will(inbox["wm"], d, current) => Will(inbox'["wm"], d, current')
  <2>1. IsQueue(inbox["wm"])
    BY ActorsDiffer DEF Shape
  <2>. QED  BY <1>1, <1>2, <2>1, WillPop
<1>5. Runs => Runs'
  BY <1>3, <1>4 DEF Runs, ClientVars
<1>. QED  BY <1>3, <1>5, ClientRuns

LEMMA ClientHotkeys ==
  ASSUME Shape, Client, WmHotkeysActive, ~Ended
  PROVE  Client'
<1>1. /\ inbox["wm"] # << >> /\ Head(inbox["wm"]).kind = "HotkeysActive"
      /\ inbox' = Rest("wm") /\ current' = current /\ UNCHANGED ClientVars
  BY DEF WmHotkeysActive, Take, windowVars, clientVars, ClientVars
<1>2. Head(inbox["wm"]) = HotkeysActive
  BY <1>1, RestShape, ActorsDiffer, Messages DEF IsUpdate
<1>3. inbox'["wm"] = Tail(inbox["wm"]) /\ IsQueue(inbox["wm"])
  BY <1>1, RestShape, ActorsDiffer DEF Shape
<1>4. \A d : Will(inbox["wm"], d, current) => Will(inbox'["wm"], d, current)
  BY <1>1, <1>2, <1>3, WillPop
<1>5. Runs => Runs'
  BY <1>1, <1>4 DEF Runs, ClientVars
<1>. QED  BY <1>1, <1>5, ClientRuns

LEMMA ClientSm ==
  ASSUME Shape, Client, SmConfigUpdated
  PROVE  Client'
<1>1. PICK c : /\ inbox["sm"] # << >>
               /\ inbox' = Send(Send(Rest("sm"), {"reactor"}, ConfigUpdated(c)), {"wm"}, HotkeysActive)
  BY SmUpdate
<1>2. UNCHANGED ClientVars /\ current' = current
  BY DEF SmConfigUpdated, windowVars, clientVars, ClientVars
<1>3. Rest("sm")["wm"] = inbox["wm"] /\ IsQueue(inbox["wm"])
  BY <1>1, RestShape, ActorsDiffer DEF Shape
<1>4. inbox'["wm"] = Append(inbox["wm"], HotkeysActive)
  BY <1>1, <1>3, ActorsDiffer DEF Send
<1>5. \A d : Will(inbox["wm"], d, current) => Will(inbox'["wm"], d, current)
  BY <1>3, <1>4, WillPush
<1>6. Runs => Runs'
  BY <1>2, <1>5 DEF Runs, ClientVars
<1>. QED  BY <1>2, <1>6, ClientRuns

LEMMA ClientReceived ==
  ASSUME Shape, Client, NEW a \in Listeners \cup {"reactor"}, Received(a)
  PROVE  Client'
<1>1. inbox[a] # << >> /\ inbox' = Rest(a) /\ a \in Actors /\ a # "wm"
  BY OtherUpdate, ActorsDiffer
<1>2. UNCHANGED ClientVars /\ current' = current
  BY DEF Received, windowVars, clientVars, ClientVars
<1>3. inbox'["wm"] = inbox["wm"]
  BY <1>1, RestShape, ActorsDiffer
<1>. QED  BY <1>2, <1>3, WmKept, ClientRuns DEF ClientVars

(* What is saved is what the file says, or an error is shown, or the client *)
(* is to look at the file again.                                            *)
LEMMA ClientSaved ==
  ASSUME Shape, Client, SaveStep
  PROVE  Client'
<1>1. /\ UNCHANGED <<alive, client, watching, port, updated>>
      /\ \/ lastError' = TRUE /\ file' = file /\ changed' = (changed \/ FALSE)
         \/ lastError' = FALSE /\ changed' = (changed \/ watching)
      /\ {changed, watching} \subseteq BOOLEAN
  BY DEF SaveStep, Shape
<1>2. client # {} => watching
  BY DEF Client
<1>3. \A x \in client' : ~changed' => Load(file') = {x.config}
  BY <1>1, <1>2 DEF Client
<1>4. ~Clear'
  BY <1>1 DEF Clear
<1>5. alive'
  BY <1>1 DEF Client, SaveStep
<1>. QED  BY <1>1, <1>3, <1>4, <1>5 DEF Client, Clear, Runs

LEMMA ClientSilent ==
  ASSUME Shape, Client, Silent
  PROVE  Client'
<1>1. /\ UNCHANGED <<programVars, lastError, client, port, updated>>
      /\ {changed, watching} \subseteq BOOLEAN
  BY DEF Silent, Shape
<1>5. ~alive' => view' = {}
  BY <1>1 DEF Silent, Client, programVars
<1>2. CASE file' = file /\ UNCHANGED <<watching, changed>>
  <2>1. inbox' = inbox /\ current' = current /\ alive' = alive
    BY <1>1 DEF programVars
  <2>2. Runs => Runs'
    BY <1>2, <2>1, WmKept
  <2>. QED  BY <1>1, <1>2, <1>5, <2>1, <2>2, ClientStays
<1>3. CASE changed' = (changed \/ watching) /\ watching' = watching
  <2>1. \A x \in client' : ~changed' => Load(file') = {x.config}
    BY <1>1, <1>3 DEF Client
  <2>2. ~Clear'
    BY <1>1, <1>3 DEF Clear
  <2>. QED  BY <1>1, <1>3, <1>5, <2>1, <2>2 DEF Client, Clear, Runs, programVars
<1>4. CASE file' = file /\ watching' = TRUE /\ changed' = TRUE /\ client = {}
  BY <1>1, <1>4, <1>5 DEF Client, programVars
<1>. QED  BY <1>2, <1>3, <1>4 DEF Silent

LEMMA ClientEnded ==
  ASSUME Shape, Client, Ended
  PROVE  Client'
<1>1. /\ alive' = FALSE /\ port' = << >> /\ lastError' = FALSE /\ view' = {}
      /\ UNCHANGED <<file, watching, changed>>
      /\ IF \E c \in client : c.sent
         THEN client' = {} /\ updated' = FALSE
         ELSE client' = client /\ updated' = updated
  BY DEF Ended
<1>. QED  BY <1>1 DEF Client

LEMMA ClientStarts ==
  ASSUME Client, StartStep
  PROVE  Client'
<1>1. ~alive /\ alive' = TRUE /\ UNCHANGED <<file, lastError, client, watching, changed, port, updated>>
  BY DEF StartStep, Starts, windowVars, clientVars
<1>2. PICK c \in Load(file) : Starts(c)
  BY DEF StartStep
<1>. PICK w : w = <<HotkeysActive>>
  OBVIOUS
<1>3. inbox'["wm"] = w /\ current' = c
  BY <1>2, ActorsDiffer DEF Starts, Started
<1>4. NoUpdate(w)
  BY DEF NoUpdate, Quiets
<1>5. Will(inbox'["wm"], c, current')
  BY <1>3, <1>4 DEF Will
<1>6. Runs'
  BY <1>1, <1>2, <1>5 DEF Runs
<1>. QED  BY <1>1, <1>6 DEF Client, Runs

LEMMA ClientUpdates ==
  ASSUME Client, UpdateConfig
  PROVE  Client'
<1>1. /\ watching /\ changed' = FALSE /\ client = {}
      /\ client' = {[config |-> c, sent |-> FALSE] : c \in Load(file)}
      /\ updated' = (updated /\ Load(file) # {})
      /\ UNCHANGED <<file, alive, current, inbox, lastError, view, watching, port>>
  BY DEF UpdateConfig, programVars, windowVars
<1>2. CASE Load(file) = {}
  BY <1>1, <1>2 DEF Client
<1>3. CASE Load(file) # {}
  <2>1. PICK c : Load(file) = {c}
    BY <1>3, Loads
  <2>2. client' = {[config |-> c, sent |-> FALSE]}
    BY <1>1, <2>1
  <2>. PICK y : y = [config |-> c, sent |-> FALSE]
    OBVIOUS
  <2>3. client' = {y} /\ y.config = c /\ y.sent = FALSE /\ y = [config |-> y.config, sent |-> y.sent]
    BY <2>2
  <2>. QED  BY <1>1, <2>1, <2>3 DEF Client
<1>. QED  BY <1>2, <1>3

LEMMA ClientSends ==
  ASSUME Shape, Client, SendRequest
  PROVE  Client'
<1>1. /\ UNCHANGED <<file, alive, current, inbox, lastError, view, updated>>
      /\ IsQueue(port)
  BY DEF SendRequest, programVars, windowVars, Shape
<1>2. PICK x \in client :
        /\ ~x.sent
        /\ IF alive
           THEN port' = Append(port, x.config) /\ client' = {[x EXCEPT !.sent = TRUE]}
                /\ UNCHANGED <<watching, changed>>
           ELSE client' = {} /\ watching' = FALSE /\ changed' = FALSE /\ UNCHANGED port
  BY DEF SendRequest
<1>3. client = {x} /\ x = [config |-> x.config, sent |-> x.sent] /\ watching
  BY <1>2 DEF Client
<1>4. CASE ~alive
  BY <1>1, <1>2, <1>4 DEF Client
<1>5. CASE alive
  <2>. PICK y : y = [x EXCEPT !.sent = TRUE]
    OBVIOUS
  <2>1. client' = {y} /\ y.config = x.config /\ y.sent = TRUE /\ y = [config |-> y.config, sent |-> y.sent]
    BY <1>2, <1>3, <1>5
  <2>2. port' = Append(port, x.config) /\ port' # << >> /\ Len(port') = Len(port) + 1 /\ port'[Len(port')] = x.config
    BY <1>1, <1>2, <1>5, Push
  <2>3. updated => Len(port') = 1
    <3>1. updated => port = << >>
      BY <1>2, <1>3 DEF Client
    <3>. QED  BY <1>1, <2>2, <3>1, Push
  <2>. QED  BY <1>1, <1>2, <1>3, <1>5, <2>1, <2>2, <2>3 DEF Client
<1>. QED  BY <1>4, <1>5

LEMMA ClientServed ==
  ASSUME Shape, Client, OnRequest
  PROVE  Client'
<1>1. /\ alive /\ port # << >> /\ IsQueue(port)
      /\ inbox' = Send(inbox, {"wm"}, ConfigUpdated(Head(port))) /\ port' = Tail(port)
      /\ UNCHANGED <<file, alive, current, lastError, watching, changed>>
  BY DEF OnRequest, windowVars, Shape
<1>2. inbox'["wm"] = Append(inbox["wm"], ConfigUpdated(Head(port))) /\ IsQueue(inbox["wm"])
  BY <1>1, ActorsDiffer DEF Send, Shape
<1>3. Will(inbox'["wm"], Head(port), current)
  BY <1>2, WillPush
<1>4. /\ Len(port) \in Nat \ {0} /\ Head(port) = port[1] /\ Len(port') = Len(port) - 1
      /\ \A i \in 1..Len(port) - 1 : port'[i] = port[i + 1]
      /\ Len(port) = 1 <=> port' = << >>
  BY <1>1, Pop
<1>5. CASE Len(port) = 1 /\ \E c \in client : c.sent
  <2>1. client' = {} /\ updated' = TRUE
    BY <1>5 DEF OnRequest
  <2>2. PICK x \in client : x.sent /\ port[1] = x.config /\ (~changed => Load(file) = {x.config})
    BY <1>5 DEF Client
  <2>3. ~changed => Runs'
    BY <1>1, <1>3, <1>4, <2>2 DEF Runs
  <2>. QED  BY <1>1, <1>4, <1>5, <2>1, <2>3 DEF Client, Runs
<1>6. CASE ~(Len(port) = 1 /\ \E c \in client : c.sent)
  <2>1. client' = client /\ updated' = updated
    BY <1>6 DEF OnRequest
  <2>2. ~updated
    BY <1>1, <1>6 DEF Client
  <2>3. \A x \in client : x.sent => port' # << >> /\ port'[Len(port')] = x.config
    <3>1. ASSUME NEW x \in client, x.sent PROVE port' # << >> /\ port'[Len(port')] = x.config
      <4>1. port[Len(port)] = x.config /\ Len(port) # 1
        BY <1>6, <3>1 DEF Client
      <4>2. Len(port) - 1 \in 1..Len(port) - 1 /\ (Len(port) - 1) + 1 = Len(port)
        BY <1>4, <4>1
      <4>. QED  BY <1>4, <4>1, <4>2
    <3>. QED  BY <3>1
  <2>. QED  BY <1>1, <2>1, <2>2, <2>3 DEF Client
<1>. QED  BY <1>5, <1>6

LEMMA ClientTimeOut ==
  ASSUME Client, TimeOut
  PROVE  Client'
<1>1. /\ client' = {} /\ updated' = FALSE /\ (\E c \in client : c.sent)
      /\ UNCHANGED <<alive, lastError>>
  BY DEF TimeOut, programVars, windowVars
<1>2. alive
  BY <1>1 DEF Client
<1>. QED  BY <1>1, <1>2 DEF Client

LEMMA NextClient ==
  ASSUME Shape, Client, [Next]_vars
  PROVE  Client'
<1>1. CASE WmHotkeysActive
  BY <1>1, ClientHotkeys, ClientEnded
<1>. QED  BY <1>1, StepKinds, ClientWm, ClientSm, ClientReceived, ClientSaved, ClientSilent, ClientEnded,
             ClientStarts, ClientUpdates, ClientSends, ClientServed, ClientTimeOut

-----------------------------------------------------------------------------
(* The theorems.                                                            *)

SInv == Shape /\ Agreeing /\ Client

LEMMA InitSInv == Init => SInv
<1>. SUFFICES ASSUME Init PROVE SInv
  OBVIOUS
<1>1. PICK c \in Load(file) :
        /\ current = Started(c).current /\ config = Started(c).config /\ inbox = Started(c).inbox
        /\ hotkeys = Started(c).hotkeys /\ deaf = Started(c).deaf
  BY DEF Init
<1>. PICK w : w = <<HotkeysActive>>
  OBVIOUS
<1>2. Shape
  BY <1>1, StartedShape, Empty DEF Init, Shape, MailShape, Kinds
<1>3. Agreeing
  <2>1. Asks(w)
    BY DEF Asks
  <2>2. /\ current = c /\ config = [a \in Actors |-> c] /\ hotkeys = {}
        /\ inbox = [a \in Actors |-> IF a = "wm" THEN w ELSE << >>]
    BY <1>1 DEF Started
  <2>3. inbox["wm"] = w /\ \A a \in Actors : a # "wm" => inbox[a] = << >>
    BY <2>2, ActorsDiffer
  <2>4. \A a \in Actors : config[a] = c
    BY <2>2
  <2>. QED  BY <2>1, <2>2, <2>3, <2>4, Empty, ActorsDiffer DEF Agreeing, Will
<1>4. Client
  BY DEF Init, Client
<1>. QED  BY <1>2, <1>3, <1>4 DEF SInv

LEMMA NextSInv == SInv /\ [Next]_vars => SInv'
BY NextShape, NextAgreeing, NextClient DEF SInv

(* The invariant holds of every behaviour: mailboxes hold updates, and      *)
(* wm also asks for hotkeys; each actor has, or will have, the              *)
(* configuration of the one it hears from; the client is ahead of the port, *)
(* and the port of wm.                                                      *)
THEOREM SettingsInvariant == Spec => []SInv
<1>1. Init => SInv
  BY InitSInv
<1>2. SInv /\ [Next]_vars => SInv'
  BY NextSInv
<1>. QED  BY <1>1, <1>2, PTL DEF Spec

(* Once all messages are handled every actor goes by one configuration, and *)
(* its keys are registered.                                                 *)
THEOREM ActorsAgreeHolds == Spec => []ActorsAgree
<1>1. SInv => ActorsAgree
  BY AInvSound DEF SInv, AInv
<1>. QED  BY <1>1, SettingsInvariant, PTL

(* What runs is what the watched file says when the client says so.         *)
THEOREM WatchedFileRunsHolds == Spec => []WatchedFileRuns
<1>1. SInv => WatchedFileRuns
  BY CInvSound DEF SInv, CInv
<1>. QED  BY <1>1, SettingsInvariant, PTL

-----------------------------------------------------------------------------
(* Lists of a set's elements. *)

(* q lists the elements of S, each once. *)
Lists(q, S) ==
  /\ q \in [1..Cardinality(S) -> S]
  /\ \A i, j \in 1..Cardinality(S) : q[i] = q[j] => i = j
  /\ \A x \in S : \E i \in 1..Cardinality(S) : q[i] = x

LEMMA ListsIf ==
  ASSUME NEW S, IsFiniteSet(S), NEW q \in Injection(1..Cardinality(S), S)
  PROVE  Lists(q, S)
<1>. PICK n : n = Cardinality(S)
  OBVIOUS
<1>1. n \in Nat
  BY FS_CardinalityType
<1>2. IsFiniteSet(1..n) /\ Cardinality(1..n) = n
  BY <1>1, FS_Interval
<1>3. q \in Surjection(1..n, S)
  BY <1>2, FS_Injection
<1>. QED  BY <1>3 DEF Lists, Injection, IsInjective, Surjection

LEMMA SetToSeqLists == ASSUME NEW S, IsFiniteSet(S) PROVE Lists(SetToSeq(S), S)
<1>. DEFINE n == Cardinality(S)
<1>1. ExistsBijection(1..n, S) /\ n \in Nat
  BY FS_CardinalityType
<1>2. PICK f \in [1..n -> S] : IsInjective(f)
  BY <1>1 DEF ExistsBijection, Bijection, Injection, Surjection, IsInjective
<1>. DEFINE q == SetToSeq(S)
<1>3. q \in [1..n -> S] /\ IsInjective(q)
  BY <1>2 DEF SetToSeq
<1>4. q \in Injection(1..n, S)
  BY <1>3 DEF IsInjective, Injection
<1>. HIDE DEF q
<1>. QED  BY <1>4, ListsIf DEF q

(* What comes before what is a strict order of all of S. *)
IsOrder(S, B) ==
  /\ \A i \in S : <<i, i>> \notin B
  /\ \A i, j \in S : i # j => <<i, j>> \in B \/ <<j, i>> \in B
  /\ \A i, j, k \in S : <<i, j>> \in B /\ <<j, k>> \in B => <<i, k>> \in B

LEMMA InOrderLists ==
  ASSUME NEW S, IsFiniteSet(S), NEW B, IsOrder(S, B)
  PROVE  Lists(InOrder(S, B), S)
<1>. DEFINE n == Cardinality(S)
            Before(i) == {j \in S : <<j, i>> \in B}
            place == [i \in S |-> Cardinality(Before(i)) + 1]
<1>1. n \in Nat
  BY FS_CardinalityType
<1>2. ASSUME NEW i \in S
      PROVE  IsFiniteSet(Before(i)) /\ Cardinality(Before(i)) \in Nat /\ Cardinality(Before(i)) < n
  <2>1. Before(i) \in SUBSET S /\ i \notin Before(i)
    BY DEF IsOrder
  <2>. HIDE DEF Before
  <2>2. IsFiniteSet(Before(i)) /\ Cardinality(Before(i)) <= n /\ Cardinality(Before(i)) # n
    BY <2>1, FS_Subset
  <2>3. Cardinality(Before(i)) \in Nat
    BY <2>2, FS_CardinalityType
  <2>. QED  BY <1>1, <2>2, <2>3
<1>3. ASSUME NEW i \in S, NEW j \in S, <<i, j>> \in B
      PROVE  Cardinality(Before(i)) < Cardinality(Before(j))
  <2>1. Before(i) \in SUBSET Before(j) /\ i \in Before(j) /\ i \notin Before(i)
    BY <1>3 DEF IsOrder
  <2>2. IsFiniteSet(Before(j)) /\ Cardinality(Before(i)) \in Nat /\ Cardinality(Before(j)) \in Nat
    BY <1>2
  <2>. HIDE DEF Before
  <2>3. Cardinality(Before(i)) <= Cardinality(Before(j)) /\ Cardinality(Before(i)) # Cardinality(Before(j))
    BY <2>1, <2>2, FS_Subset
  <2>. QED  BY <2>2, <2>3
<1>4. place \in [S -> 1..n]
  <2>1. \A i \in S : Cardinality(Before(i)) + 1 \in 1..n
    <3>. HIDE DEF Before, n
    <3>. QED  BY <1>1, <1>2
  <2>. HIDE DEF Before
  <2>. QED  BY <2>1
<1>5. \A i, j \in S : place[i] = place[j] => i = j
  <2>1. ASSUME NEW i \in S, NEW j \in S, i # j PROVE place[i] # place[j]
    <3>1. <<i, j>> \in B \/ <<j, i>> \in B
      BY <2>1 DEF IsOrder
    <3>2. /\ Cardinality(Before(i)) \in Nat /\ Cardinality(Before(j)) \in Nat
          /\ Cardinality(Before(i)) # Cardinality(Before(j))
      <4>1. Cardinality(Before(i)) \in Nat /\ Cardinality(Before(j)) \in Nat
        BY <1>2
      <4>2. \/ Cardinality(Before(i)) < Cardinality(Before(j))
            \/ Cardinality(Before(j)) < Cardinality(Before(i))
        BY <1>3, <3>1
      <4>. HIDE DEF Before
      <4>. QED  BY <4>1, <4>2
    <3>. HIDE DEF Before
    <3>. QED  BY <3>2
  <2>. HIDE DEF place
  <2>. QED  BY <2>1
<1>6. place \in Injection(S, 1..n)
  BY <1>4, <1>5 DEF Injection, IsInjective
<1>7. IsFiniteSet(1..n) /\ Cardinality(1..n) = n
  BY <1>1, FS_Interval
<1>8. place \in Surjection(S, 1..n)
  <2>. HIDE DEF place
  <2>. QED  BY <1>6, <1>7, FS_Injection
<1>. DEFINE q == InOrder(S, B)
<1>9. q = [k \in 1..n |-> CHOOSE i \in S : Cardinality(Before(i)) = k - 1]
  BY DEF InOrder
<1>10. \A i \in S : place[i] = Cardinality(Before(i)) + 1
  OBVIOUS
<1>11. ASSUME NEW k \in 1..n PROVE q[k] \in S /\ place[q[k]] = k
  <2>1. PICK i \in S : place[i] = k
    BY <1>8 DEF Surjection
  <2>2. Cardinality(Before(i)) = k - 1
    <3>. HIDE DEF place, Before
    <3>. QED  BY <1>2, <1>10, <2>1
  <2>. HIDE DEF Before, q, place
  <2>3. q[k] \in S /\ Cardinality(Before(q[k])) = k - 1
    BY <1>9, <2>2
  <2>. QED  BY <1>10, <2>3
<1>12. q \in [1..n -> S] /\ \A i, j \in 1..n : q[i] = q[j] => i = j
  <2>. HIDE DEF q, place, Before
  <2>. QED  BY <1>9, <1>11
<1>. HIDE DEF q
<1>13. q \in Injection(1..n, S)
  BY <1>12 DEF Injection, IsInjective
<1>. QED  BY <1>13, ListsIf DEF q

-----------------------------------------------------------------------------
(* Configurations, and how they are loaded. *)

Keys == [key : Chords, cmd : DOMAIN Id]
Row == [key : Chords \cup Modifiers, id : Identifiers]

(* What can be loaded, what can be shown and what a file may say. *)
GoodConfig(c) ==
  /\ Shown \cup Hidden \subseteq DOMAIN c.settings
  /\ c.settings = [s \in DOMAIN c.settings |-> c.settings[s]]
  /\ c.keys \in Seq(Keys) /\ c.pause \subseteq Modifiers

IsRows(rows) ==
  /\ rows \in Seq(Row)
  /\ \A i \in DOMAIN rows : rows[i].key \in Modifiers <=> rows[i].id = "pause"

GoodView(v) ==
  /\ v = [settings |-> v.settings, rules |-> v.rules, rows |-> v.rows]
  /\ v.settings = [s \in Shown |-> v.settings[s]]
  /\ "titled" \notin v.rules /\ IsRows(v.rows)

GoodFile(f) == \A t \in f.keys : IsTable(t)

LEMMA OverParts ==
  ASSUME NEW f, NEW g
  PROVE  /\ DOMAIN Over(f, g) = DOMAIN f \cup DOMAIN g
         /\ \A x \in DOMAIN f : Over(f, g)[x] = f[x]
         /\ \A x \in DOMAIN g : x \notin DOMAIN f => Over(f, g)[x] = g[x]
         /\ Over(f, g) = [x \in DOMAIN Over(f, g) |-> Over(f, g)[x]]
BY DEF Over

LEMMA OverTable ==
  ASSUME NEW t, IsTable(t), NEW u, IsTable(u)
  PROVE  IsTable(Over(t, u))
<1>1. IsFiniteSet(DOMAIN t \cup DOMAIN u)
  BY FS_Union DEF IsTable
<1>. PICK o : o = Over(t, u)
  OBVIOUS
<1>2. /\ DOMAIN o = DOMAIN t \cup DOMAIN u
      /\ \A x \in DOMAIN t : o[x] = t[x]
      /\ \A x \in DOMAIN u : x \notin DOMAIN t => o[x] = u[x]
  BY DEF Over
<1>3. ASSUME NEW n \in DOMAIN o
      PROVE  n[1] \in Chords \cup Modifiers /\ o[n] \in DOMAIN Id \cup {"pause", "disable"}
  <2>1. CASE n \in DOMAIN t
    BY <1>2, <2>1 DEF IsTable
  <2>2. CASE n \notin DOMAIN t
    BY <1>2, <1>3, <2>2 DEF IsTable
  <2>. QED  BY <2>1, <2>2
<1>. QED  BY <1>1, <1>2, <1>3 DEF IsTable

LEMMA MergeGood ==
  ASSUME NEW f, GoodFile(f)
  PROVE  /\ IsTable(Merge(Default, f).keys)
         /\ Merge(Default, f).settings = Over(f.settings, Default.settings)
         /\ Merge(Default, f).rules = IF f.rules # {} THEN f.rules ELSE Default.rules
         /\ f.keys # {} /\ ~Over(f.settings, Default.settings)["default_keys"] =>
              \E t \in f.keys : /\ DOMAIN Merge(Default, f).keys = DOMAIN t
                                /\ \A n \in DOMAIN t : Merge(Default, f).keys[n] = t[n]
<1>1. PICK low \in Default.keys : Default.keys = {low}
  BY ContentsAssumption
<1>2. IsTable(low)
  BY ContentsAssumption
<1>. DEFINE settings == Over(f.settings, Default.settings)
            included == f.keys = {} \/ settings["default_keys"]
            under == IF included THEN UNION {DOMAIN k : k \in Default.keys} ELSE {}
            lowKeys == CHOOSE k \in Default.keys : TRUE
            t == CHOOSE k \in f.keys : TRUE
            rest == [n \in under |-> lowKeys[n]]
<1>3. lowKeys = low /\ (included => under = DOMAIN low) /\ (~included => under = {})
  BY <1>1
<1>4. /\ Merge(Default, f).settings = settings
      /\ Merge(Default, f).rules = IF f.rules # {} THEN f.rules ELSE Default.rules
      /\ Merge(Default, f).keys = IF f.keys = {} THEN lowKeys ELSE Over(t, rest)
  BY DEF Merge, MergeSettings
<1>5. IsTable(rest)
  <2>1. DOMAIN rest = under /\ \A n \in under : rest[n] = low[n]
    BY <1>3
  <2>2. IsFiniteSet(under) /\ under \subseteq DOMAIN low
    BY <1>2, <1>3, FS_EmptySet DEF IsTable
  <2>. HIDE DEF rest, under
  <2>. QED  BY <1>2, <2>1, <2>2 DEF IsTable
<1>6. f.keys # {} => t \in f.keys /\ IsTable(t)
  BY DEF GoodFile
<1>7. IsTable(Merge(Default, f).keys)
  <2>. HIDE DEF t, rest, lowKeys
  <2>. QED  BY <1>2, <1>3, <1>4, <1>5, <1>6, OverTable
<1>8. ASSUME f.keys # {}, ~settings["default_keys"]
      PROVE  DOMAIN Merge(Default, f).keys = DOMAIN t /\ \A n \in DOMAIN t : Merge(Default, f).keys[n] = t[n]
  <2>1. Merge(Default, f).keys = Over(t, rest) /\ DOMAIN rest = {}
    BY <1>3, <1>4, <1>8
  <2>. HIDE DEF t, rest
  <2>. QED  BY <2>1 DEF Over
<1>. HIDE DEF t, rest, under, lowKeys, included
<1>. QED  BY <1>4, <1>6, <1>7, <1>8

(* The bindings a table gives.                                              *)
BoundNames(t) == {n \in DOMAIN t \ Modifying(DOMAIN t) : t[n] # "disable"}
Pauses(t) == {n[1] : n \in {m \in Modifying(DOMAIN t) : t[m] = "pause"}}
Disables(t) == \E n \in Modifying(DOMAIN t) : t[n] = "disable"

(* The bindings, in some order. *)
Binds(keys, t) ==
  \E b : /\ Lists(b, BoundNames(t)) /\ DOMAIN keys = 1..Cardinality(BoundNames(t))
         /\ keys = [i \in 1..Cardinality(BoundNames(t)) |-> [key |-> b[i][1], cmd |-> t[b[i]]]]

LEMMA ValidatedParts ==
  ASSUME NEW m, IsTable(m.keys)
  PROVE  /\ Validated(m).settings = m.settings
         /\ Validated(m).rules = UNION m.rules
         /\ Validated(m).pause = IF Pauses(m.keys) = {} /\ ~Disables(m.keys) THEN {"Cmd"} ELSE Pauses(m.keys)
         /\ Binds(Validated(m).keys, m.keys)
<1>1. BoundNames(m.keys) \in SUBSET DOMAIN m.keys
  BY DEF BoundNames
<1>2. IsFiniteSet(BoundNames(m.keys))
  BY <1>1, FS_Subset DEF IsTable
<1>. DEFINE b == SetToSeq(BoundNames(m.keys))
<1>3. Lists(b, BoundNames(m.keys))
  BY <1>2, SetToSeqLists
<1>4. DOMAIN b = 1..Cardinality(BoundNames(m.keys))
  BY <1>3 DEF Lists
<1>5. Validated(m).keys = [i \in DOMAIN b |-> [key |-> b[i][1], cmd |-> m.keys[b[i]]]]
  BY DEF Validated, BoundNames
<1>6. /\ Validated(m).settings = m.settings
      /\ Validated(m).rules = UNION m.rules
      /\ Validated(m).pause = IF Pauses(m.keys) = {} /\ ~Disables(m.keys) THEN {"Cmd"} ELSE Pauses(m.keys)
  BY DEF Validated, Pauses, Disables
<1>. HIDE DEF b
<1>7. Binds(Validated(m).keys, m.keys)
  BY <1>3, <1>4, <1>5 DEF Binds
<1>. QED  BY <1>6, <1>7

LEMMA LoadIs ==
  ASSUME NEW f, NEW c \in Load(f)
  PROVE  /\ f.toml /\ c = Validated(Merge(Default, f)) /\ Load(f) = {c}
         /\ \A n \in DOMAIN Merge(Default, f).keys \ Modifying(DOMAIN Merge(Default, f).keys) :
              Merge(Default, f).keys[n] # "pause"
BY DEF Load

LEMMA LoadGood ==
  ASSUME NEW f, GoodFile(f), NEW c \in Load(f)
  PROVE  GoodConfig(c)
<1>. PICK m : m = Merge(Default, f)
  OBVIOUS
<1>. PICK t : t = m.keys
  OBVIOUS
<1>1. /\ IsTable(t) /\ m.settings = Over(f.settings, Default.settings)
      /\ c = Validated(m) /\ \A n \in DOMAIN t \ Modifying(DOMAIN t) : t[n] # "pause"
  BY MergeGood, LoadIs
<1>5. IsTable(m.keys) /\ c = Validated(m)
  BY <1>1
<1>6. c.pause = IF Pauses(t) = {} /\ ~Disables(t) THEN {"Cmd"} ELSE Pauses(t)
  BY <1>5, ValidatedParts
<1>7. Binds(c.keys, t)
  BY <1>5, ValidatedParts
<1>2. Shown \cup Hidden \subseteq DOMAIN c.settings /\ c.settings = [s \in DOMAIN c.settings |-> c.settings[s]]
  <2>1. c.settings = Over(f.settings, Default.settings)
    BY <1>1, ValidatedParts
  <2>. PICK d : d = Over(f.settings, Default.settings)
    OBVIOUS
  <2>2. DOMAIN Default.settings \subseteq DOMAIN d /\ d = [s \in DOMAIN d |-> d[s]]
    BY DEF Over
  <2>. QED  BY <2>1, <2>2, ContentsAssumption
<1>3. c.pause \subseteq Modifiers
  <2>1. Pauses(t) \subseteq Modifiers /\ "Cmd" \in Modifiers
    BY DEF Pauses, Modifying, Modifiers
  <2>. QED  BY <1>6, <2>1
<1>4. c.keys \in Seq(Keys)
  <2>1. PICK b, n : /\ Lists(b, BoundNames(t)) /\ n = Cardinality(BoundNames(t))
                    /\ c.keys = [i \in 1..n |-> [key |-> b[i][1], cmd |-> t[b[i]]]]
    BY <1>7 DEF Binds
  <2>2. n \in Nat
    <3>1. BoundNames(t) \in SUBSET DOMAIN t /\ IsFiniteSet(DOMAIN t)
      BY <1>1 DEF BoundNames, IsTable
    <3>2. IsFiniteSet(BoundNames(t))
      BY <3>1, FS_Subset
    <3>. QED  BY <2>1, <3>2, FS_CardinalityType
  <2>3. ASSUME NEW i \in 1..n PROVE c.keys[i] \in Keys
    <3>1. b[i] \in BoundNames(t)
      BY <2>1 DEF Lists
    <3>2. b[i][1] \in Chords /\ t[b[i]] \in DOMAIN Id
      BY <1>1, <3>1 DEF BoundNames, IsTable, Modifying
    <3>3. c.keys[i] = [key |-> b[i][1], cmd |-> t[b[i]]]
      BY <2>1
    <3>. QED  BY <3>2, <3>3 DEF Keys
  <2>. QED  BY <2>1, <2>2, <2>3
<1>. QED  BY <1>2, <1>3, <1>4 DEF GoodConfig

LEMMA DefaultGood == GoodConfig(DefaultConfig) /\ DefaultConfig \in Load(Default)
<1>1. DefaultConfig \in Load(Default)
  BY ContentsAssumption DEF DefaultConfig
<1>2. GoodFile(Default)
  BY ContentsAssumption DEF GoodFile
<1>. QED  BY <1>1, <1>2, LoadGood

LEMMA CommandsKnown ==
  ASSUME NEW c, GoodConfig(c), NEW id
  PROVE  CommandOf(c, id) \subseteq DOMAIN Id
<1>. DEFINE last(keys) == {keys[i].cmd : i \in
            {j \in DOMAIN keys : Described(keys[j].cmd) = id
                /\ \A k \in j + 1 .. Len(keys) : Described(keys[k].cmd) # id}}
<1>1. ASSUME NEW d, GoodConfig(d) PROVE last(d.keys) \subseteq DOMAIN Id
  <2>1. \A i \in DOMAIN d.keys : d.keys[i].cmd \in DOMAIN Id
    <3>1. d.keys \in Seq(Keys)
      BY <1>1 DEF GoodConfig
    <3>2. \A i \in DOMAIN d.keys : d.keys[i] \in Keys
      BY <3>1
    <3>. QED  BY <3>2 DEF Keys
  <2>. QED  BY <2>1
<1>2. CommandOf(c, id) \in {last(c.keys), last(DefaultConfig.keys)}
  BY DEF CommandOf
<1>. HIDE DEF last
<1>. QED  BY <1>1, <1>2, DefaultGood

-----------------------------------------------------------------------------
(* Rows, sorted, and the keys they become. *)

LEMMA Joined ==
  ASSUME NEW S, NEW p \in Seq(S), NEW s \in Seq(S)
  PROVE  /\ p \o s \in Seq(S) /\ Len(p \o s) = Len(p) + Len(s)
         /\ \A i \in 1..Len(p) : i \in DOMAIN (p \o s) /\ (p \o s)[i] = p[i]
         /\ \A i \in DOMAIN (p \o s) : i \notin 1..Len(p) => (p \o s)[i] = s[i - Len(p)] /\ i - Len(p) \in 1..Len(s)
         /\ \A j \in 1..Len(s) : (p \o s)[Len(p) + j] = s[j] /\ Len(p) + j \in DOMAIN (p \o s) /\ Len(p) + j \notin 1..Len(p)
<1>. PICK n, k : n = Len(p) /\ k = Len(s)
  OBVIOUS
<1>1. n \in Nat /\ k \in Nat
  OBVIOUS
<1>2. p \o s \in Seq(S) /\ Len(p \o s) = n + k
  OBVIOUS
<1>3. \A i \in 1..n + k : (p \o s)[i] = IF i <= n THEN p[i] ELSE s[i - n]
  OBVIOUS
<1>4. DOMAIN (p \o s) = 1..n + k
  BY <1>2
<1>. PICK r : r = p \o s
  OBVIOUS
<1>5. DOMAIN r = 1..n + k /\ \A i \in 1..n + k : r[i] = IF i <= n THEN p[i] ELSE s[i - n]
  BY <1>3, <1>4
<1>6. \A i \in 1..n : i \in DOMAIN r /\ r[i] = p[i]
  BY <1>1, <1>5
<1>7. \A i \in DOMAIN r : i \notin 1..n => r[i] = s[i - n] /\ i - n \in 1..k
  BY <1>1, <1>5
<1>8. ASSUME NEW j \in 1..k PROVE r[n + j] = s[j] /\ n + j \in DOMAIN r /\ n + j \notin 1..n
  <2>1. n + j \in 1..n + k /\ n + j \notin 1..n /\ (n + j) - n = j
    BY <1>1
  <2>. QED  BY <1>5, <1>7, <2>1
<1>. QED  BY <1>2, <1>6, <1>7, <1>8

(* The rows of a configuration: its keys, and then its pauses. *)
LEMMA RowsParts ==
  ASSUME NEW c, GoodConfig(c), NEW n, n = Len(c.keys)
  PROVE  /\ n \in Nat /\ IsRows(Rows(c)) /\ n <= Len(Rows(c))
         /\ \A i \in 1..n : Rows(c)[i] = [key |-> c.keys[i].key, id |-> Id[c.keys[i].cmd]]
         /\ \A i \in DOMAIN Rows(c) : i \notin 1..n => Rows(c)[i].id = "pause" /\ Rows(c)[i].key \in c.pause
         /\ \A m \in c.pause : \E i \in DOMAIN Rows(c) : i \notin 1..n /\ Rows(c)[i].key = m
<1>1. n \in Nat /\ c.keys \in Seq(Keys) /\ c.pause \subseteq Modifiers
  BY DEF GoodConfig
<1>. DEFINE P == {[key |-> m, id |-> "pause"] : m \in c.pause}
            p == [i \in 1..n |-> [key |-> c.keys[i].key, id |-> Id[c.keys[i].cmd]]]
            s == SetToSeq(P)
<1>2. IsFiniteSet(P)
  <2>1. P \in SUBSET {[key |-> "Cmd", id |-> "pause"], [key |-> "Ctrl", id |-> "pause"]}
    BY <1>1 DEF Modifiers
  <2>2. IsFiniteSet({[key |-> "Cmd", id |-> "pause"]} \cup {[key |-> "Ctrl", id |-> "pause"]})
    BY FS_Singleton, FS_Union
  <2>3. {[key |-> "Cmd", id |-> "pause"], [key |-> "Ctrl", id |-> "pause"]}
          = {[key |-> "Cmd", id |-> "pause"]} \cup {[key |-> "Ctrl", id |-> "pause"]}
    OBVIOUS
  <2>. HIDE DEF P
  <2>. QED  BY <2>1, <2>2, <2>3, FS_Subset
<1>3. ASSUME NEW i \in 1..n
      PROVE  p[i] \in Row /\ p[i].id # "pause" /\ p[i].key \in Chords
  <2>1. c.keys[i] \in Keys
    BY <1>1
  <2>2. c.keys[i].key \in Chords /\ c.keys[i].cmd \in DOMAIN Id
    BY <2>1 DEF Keys
  <2>3. p[i] = [key |-> c.keys[i].key, id |-> Id[c.keys[i].cmd]]
    OBVIOUS
  <2>. HIDE DEF p
  <2>. QED  BY <2>2, <2>3, ContentsAssumption DEF Row, Identifiers
<1>4. PICK k : /\ k = Cardinality(P) /\ k \in Nat /\ s \in [1..k -> P]
               /\ \A x \in P : \E i \in 1..k : s[i] = x
  <2>. HIDE DEF P, s
  <2>. QED  BY <1>2, SetToSeqLists, FS_CardinalityType DEF Lists, s
<1>5. \A x \in P : x \in Row /\ x.id = "pause" /\ x.key \in c.pause
  BY <1>1 DEF Row, Identifiers
<1>6. p \in Seq(Row) /\ Len(p) = n /\ DOMAIN p = 1..n
  <2>1. p \in [1..n -> Row]
    BY <1>3
  <2>2. DOMAIN p = 1..n
    OBVIOUS
  <2>. HIDE DEF p
  <2>. QED  BY <1>1, <2>1, <2>2
<1>7. s \in Seq(Row) /\ Len(s) = k /\ DOMAIN s = 1..k
  <2>1. s \in [1..k -> Row]
    <3>. HIDE DEF s, P
    <3>. QED  BY <1>4, <1>5
  <2>. HIDE DEF s, P
  <2>. QED  BY <1>4, <2>1
<1>8. Rows(c) = p \o s
  BY DEF Rows, Described
<1>9. \A m \in c.pause : [key |-> m, id |-> "pause"] \in P
  OBVIOUS
<1>10. PICK r : r = Rows(c)
  OBVIOUS
<1>11. \A i \in 1..n : p[i] = [key |-> c.keys[i].key, id |-> Id[c.keys[i].cmd]]
  OBVIOUS
<1>. HIDE DEF p, s, P
<1>19. r = p \o s
  BY <1>8, <1>10
<1>12. /\ r \in Seq(Row) /\ Len(r) = n + k /\ DOMAIN r = 1..n + k
       /\ \A i \in 1..n : i \in DOMAIN r /\ r[i] = p[i]
  <2>1. /\ r \in Seq(Row) /\ Len(r) = n + k
        /\ \A i \in 1..n : i \in DOMAIN r /\ r[i] = p[i]
    BY <1>6, <1>7, <1>19, Joined
  <2>. QED  BY <2>1
<1>13. /\ \A i \in 1..n + k : i \notin 1..n => r[i] = s[i - n] /\ i - n \in 1..k
       /\ \A j \in 1..k : r[n + j] = s[j] /\ n + j \in 1..n + k /\ n + j \notin 1..n
  <2>1. /\ \A i \in DOMAIN r : i \notin 1..n => r[i] = s[i - n] /\ i - n \in 1..k
        /\ \A j \in 1..k : r[n + j] = s[j] /\ n + j \in DOMAIN r /\ n + j \notin 1..n
    <3>1. p \in Seq(Row) /\ s \in Seq(Row)
      BY <1>6, <1>7
    <3>2. \A i \in DOMAIN (p \o s) : i \notin 1..Len(p) => (p \o s)[i] = s[i - Len(p)] /\ i - Len(p) \in 1..Len(s)
      BY <3>1, Joined
    <3>3. \A j \in 1..Len(s) : /\ (p \o s)[Len(p) + j] = s[j] /\ Len(p) + j \in DOMAIN (p \o s)
                                /\ Len(p) + j \notin 1..Len(p)
      BY <3>1, Joined
    <3>4. Len(p) = n /\ Len(s) = k
      BY <1>6, <1>7
    <3>. QED  BY <1>19, <3>2, <3>3, <3>4
  <2>. QED  BY <1>12, <2>1
<1>14. ASSUME NEW i \in DOMAIN r, i \notin 1..n PROVE r[i].id = "pause" /\ r[i].key \in c.pause
  <2>1. r[i] = s[i - n] /\ i - n \in 1..k
    BY <1>12, <1>13, <1>14
  <2>2. s[i - n] \in P
    BY <1>4, <2>1
  <2>. QED  BY <1>5, <2>1, <2>2
<1>15. \A m \in c.pause : \E i \in DOMAIN r : i \notin 1..n /\ r[i].key = m
  <2>1. ASSUME NEW m \in c.pause PROVE \E i \in DOMAIN r : i \notin 1..n /\ r[i].key = m
    <3>1. PICK j \in 1..k : s[j] = [key |-> m, id |-> "pause"]
      BY <1>4, <1>9
    <3>2. n + j \in DOMAIN r /\ n + j \notin 1..n /\ r[n + j].key = m
      BY <1>12, <1>13, <3>1
    <3>. QED  BY <3>2
  <2>. QED  BY <2>1
<1>16. \A i \in DOMAIN r : r[i].key \in Modifiers <=> r[i].id = "pause"
  <2>1. ASSUME NEW i \in DOMAIN r PROVE r[i].key \in Modifiers <=> r[i].id = "pause"
    <3>1. CASE i \in 1..n
      BY <1>3, <1>12, <3>1, ContentsAssumption
    <3>2. CASE i \notin 1..n
      BY <1>1, <1>14, <3>2
    <3>. QED  BY <3>1, <3>2
  <2>. QED  BY <2>1
<1>17. IsRows(r)
  BY <1>12, <1>16 DEF IsRows
<1>18. n <= Len(r)
  BY <1>1, <1>4, <1>12
<1>. QED  BY <1>1, <1>10, <1>11, <1>12, <1>14, <1>15, <1>17, <1>18

(* Sorting puts rows into another order, and nothing else. *)
Reorders(new, old) ==
  \E o \in [DOMAIN old -> DOMAIN old] :
    /\ \A i, j \in DOMAIN old : o[i] = o[j] => i = j
    /\ \A j \in DOMAIN old : \E i \in DOMAIN old : o[i] = j
    /\ new = [i \in DOMAIN old |-> old[o[i]]]

LEMMA SortedRows ==
  ASSUME NEW rows, IsRows(rows)
  PROVE  Reorders(Sorted(rows), rows) /\ IsRows(Sorted(rows))
<1>1. PICK n \in Nat : DOMAIN rows = 1..n /\ Len(rows) = n /\ \A i \in 1..n : rows[i] \in Row
  BY DEF IsRows
<1>2. IsFiniteSet(1..n) /\ Cardinality(1..n) = n
  BY <1>1, FS_Interval
<1>. DEFINE B == {p \in (1..n) \X (1..n) :
                     \/ Rank[rows[p[1]].id] < Rank[rows[p[2]].id]
                     \/ Rank[rows[p[1]].id] = Rank[rows[p[2]].id] /\ p[1] < p[2]}
            rank == [i \in 1..n |-> Rank[rows[i].id]]
            o == InOrder(1..n, B)
<1>3. rank \in [1..n -> Nat]
  BY <1>1, ContentsAssumption DEF Row
<1>4. \A i, j \in 1..n : <<i, j>> \in B <=> rank[i] < rank[j] \/ (rank[i] = rank[j] /\ i < j)
  OBVIOUS
<1>5. IsOrder(1..n, B)
  <2>. HIDE DEF B, rank
  <2>1. \A i \in 1..n : <<i, i>> \notin B
    BY <1>3, <1>4
  <2>2. \A i, j \in 1..n : i # j => <<i, j>> \in B \/ <<j, i>> \in B
    BY <1>3, <1>4
  <2>3. \A i, j, k \in 1..n : <<i, j>> \in B /\ <<j, k>> \in B => <<i, k>> \in B
    BY <1>3, <1>4
  <2>. QED  BY <2>1, <2>2, <2>3 DEF IsOrder
<1>6. Lists(o, 1..n)
  <2>. HIDE DEF B
  <2>. QED  BY <1>2, <1>5, InOrderLists
<1>7. Sorted(rows) = [i \in 1..n |-> rows[o[i]]]
  BY <1>1 DEF Sorted
<1>. HIDE DEF o, B
<1>8. /\ o \in [1..n -> 1..n] /\ \A i, j \in 1..n : o[i] = o[j] => i = j
      /\ \A j \in 1..n : \E i \in 1..n : o[i] = j
  BY <1>2, <1>6 DEF Lists
<1>9. Reorders(Sorted(rows), rows)
  <2>1. Sorted(rows) = [i \in DOMAIN rows |-> rows[o[i]]]
    BY <1>1, <1>7
  <2>2. /\ o \in [DOMAIN rows -> DOMAIN rows]
        /\ \A i, j \in DOMAIN rows : o[i] = o[j] => i = j
        /\ \A j \in DOMAIN rows : \E i \in DOMAIN rows : o[i] = j
    BY <1>1, <1>8
  <2>. QED  BY <2>1, <2>2 DEF Reorders
<1>. PICK r : r = Sorted(rows)
  OBVIOUS
<1>10. DOMAIN r = 1..n /\ \A i \in 1..n : r[i] = rows[o[i]] /\ o[i] \in 1..n
  BY <1>7, <1>8
<1>11. r \in [1..n -> Row]
  BY <1>1, <1>7, <1>8
<1>12. r \in Seq(Row)
  BY <1>11
<1>13. \A i \in DOMAIN r : r[i].key \in Modifiers <=> r[i].id = "pause"
  BY <1>1, <1>10 DEF IsRows
<1>. QED  BY <1>9, <1>12, <1>13 DEF IsRows

LEMMA FromConfigGood ==
  ASSUME NEW c, GoodConfig(c)
  PROVE  GoodView(FromConfig(c))
<1>1. IsRows(Sorted(Rows(c)))
  BY RowsParts, SortedRows
<1>2. "titled" \notin {Rule(r) : r \in c.rules}
  BY DEF Rule
<1>. QED  BY <1>1, <1>2 DEF GoodView, FromConfig

(* The rows that become keys of the program. *)
Kept(rows, c) ==
  {i \in DOMAIN rows : rows[i].id # "pause" /\ IsHotkey(rows[i].key) /\ CommandOf(c, rows[i].id) # {}}
CommandFor(c, id) == CHOOSE cmd \in CommandOf(c, id) : TRUE

(* Which keys come of which rows. *)
Builds(keys, rows, c) ==
  \E o : /\ Lists(o, Kept(rows, c)) /\ DOMAIN keys = 1..Cardinality(Kept(rows, c))
         /\ keys = [k \in 1..Cardinality(Kept(rows, c)) |->
                      [key |-> rows[o[k]].key, cmd |-> CommandFor(c, rows[o[k]].id)]]

LEMMA KeysBuilt ==
  ASSUME NEW rows, IsRows(rows), NEW c, GoodConfig(c)
  PROVE  /\ Builds(BuildKeys(rows, c), rows, c) /\ BuildKeys(rows, c) \in Seq(Keys)
         /\ IsFiniteSet(Kept(rows, c)) /\ Cardinality(Kept(rows, c)) \in Nat
<1>. DEFINE K == Kept(rows, c)
            B == {p \in K \X K : p[1] < p[2]}
            o == InOrder(K, B)
<1>1. PICK n \in Nat : DOMAIN rows = 1..n /\ \A i \in 1..n : rows[i] \in Row
  BY DEF IsRows
<1>2. K \in SUBSET (1..n)
  BY <1>1 DEF Kept
<1>3. IsFiniteSet(K) /\ Cardinality(K) \in Nat
  <2>1. IsFiniteSet(1..n)
    BY FS_Interval
  <2>2. IsFiniteSet(K)
    <3>. HIDE DEF K
    <3>. QED  BY <1>2, <2>1, FS_Subset
  <2>. HIDE DEF K
  <2>. QED  BY <2>2, FS_CardinalityType
<1>4. IsOrder(K, B)
  <2>. HIDE DEF K
  <2>. QED  BY <1>2 DEF IsOrder
<1>5. Lists(o, K)
  <2>. HIDE DEF K, B
  <2>. QED  BY <1>3, <1>4, InOrderLists
<1>6. DOMAIN o = 1..Cardinality(K)
  <2>. HIDE DEF K, o
  <2>. QED  BY <1>5 DEF Lists
<1>7. BuildKeys(rows, c) = [k \in DOMAIN o |-> [key |-> rows[o[k]].key, cmd |-> CommandFor(c, rows[o[k]].id)]]
  BY DEF BuildKeys, Kept, CommandFor
<1>8. \A i \in K : rows[i].key \in Chords /\ CommandFor(c, rows[i].id) \in DOMAIN Id
  BY CommandsKnown DEF Kept, IsHotkey, CommandFor
<1>. HIDE DEF K, o
<1>9. \A k \in 1..Cardinality(K) : o[k] \in K
  BY <1>5 DEF Lists
<1>10. BuildKeys(rows, c) \in [1..Cardinality(K) -> Keys]
  <2>1. \A k \in 1..Cardinality(K) : [key |-> rows[o[k]].key, cmd |-> CommandFor(c, rows[o[k]].id)] \in Keys
    BY <1>8, <1>9 DEF Keys
  <2>. QED  BY <1>6, <1>7, <2>1
<1>11. BuildKeys(rows, c) \in Seq(Keys)
  BY <1>3, <1>10
<1>12. Builds(BuildKeys(rows, c), rows, c)
  BY <1>5, <1>6, <1>7 DEF Builds, K
<1>. QED  BY <1>3, <1>11, <1>12 DEF K

LEMMA ApplyGood ==
  ASSUME NEW v, GoodView(v), NEW c, GoodConfig(c)
  PROVE  GoodConfig(ApplyToConfig(v, c))
<1>. PICK d : d = ApplyToConfig(v, c)
  OBVIOUS
<1>1. /\ d.settings = Over(v.settings, c.settings) /\ d.keys = BuildKeys(v.rows, c)
      /\ d.pause = IF Paused(v.rows) = {} THEN c.pause ELSE Paused(v.rows)
  BY DEF ApplyToConfig
<1>2. d.keys \in Seq(Keys)
  BY <1>1, KeysBuilt DEF GoodView
<1>3. d.pause \subseteq Modifiers
  <2>1. Paused(v.rows) \subseteq Modifiers
    BY DEF Paused, GoodView, IsRows
  <2>. QED  BY <1>1, <2>1 DEF GoodConfig
<1>4. Shown \cup Hidden \subseteq DOMAIN d.settings /\ d.settings = [s \in DOMAIN d.settings |-> d.settings[s]]
  BY <1>1 DEF GoodConfig, Over
<1>. QED  BY <1>2, <1>3, <1>4 DEF GoodConfig

-----------------------------------------------------------------------------
(* The keys that are written. *)

LEMMA Largest ==
  ASSUME NEW n \in Nat, NEW P \in SUBSET (1..n), P # {}
  PROVE  \E m \in P : \A k \in P : k <= m
<1>. DEFINE T == {l \in Nat : n - l \in P}
<1>1. T \subseteq Nat /\ T # {}
  <2>1. PICK k \in P : TRUE
    OBVIOUS
  <2>2. n - k \in Nat /\ n - (n - k) = k
    OBVIOUS
  <2>. QED  BY <2>1, <2>2
<1>2. PICK l \in T : \A y \in T : ~ (<<y, l>> \in OpToRel(<, Nat))
  <2>. HIDE DEF T
  <2>. QED  BY <1>1, WFMin, NatLessThanWellFounded
<1>3. \A y \in T : ~(y < l)
  BY <1>2 DEF OpToRel
<1>4. ASSUME NEW k \in P PROVE k <= n - l
  <2>1. n - k \in Nat /\ n - (n - k) = k
    OBVIOUS
  <2>2. n - k \in T
    BY <2>1
  <2>3. ~(n - k < l)
    BY <1>3, <2>2
  <2>. QED  BY <2>3
<1>. QED  BY <1>4

(* What the preferences take for the configuration of a file. *)
Loaded(f) == CHOOSE c \in (IF Load(f) = {} THEN {DefaultConfig} ELSE Load(f)) : TRUE
Known(rows, c) == {i \in DOMAIN rows : rows[i].id # "pause" /\ CommandOf(c, rows[i].id) # {}}
Off(rows, c) == IF Paused(rows) = {} /\ c.pause = {} THEN {"Cmd"} ELSE {}

(* The table t has the commands of the known rows, the pauses and the       *)
(* modifier that is off.                                                    *)
Tabulates(t, rows, c) ==
  /\ DOMAIN t = {Written(rows[i].key) : i \in Known(rows, c)} \cup {Written(m) : m \in Paused(rows) \cup Off(rows, c)}
  /\ \A i \in Known(rows, c) : \E j \in Known(rows, c) :
       rows[j].key = rows[i].key /\ t[Written(rows[i].key)] = CommandFor(c, rows[j].id)
  /\ \A m \in Paused(rows) : t[Written(m)] = "pause"
  /\ \A m \in Off(rows, c) : t[Written(m)] = "disable"

LEMMA LoadedGood == ASSUME NEW f, GoodFile(f) PROVE GoodConfig(Loaded(f))
<1>1. CASE Load(f) = {}
  BY <1>1, DefaultGood DEF Loaded
<1>2. CASE Load(f) # {}
  <2>1. Loaded(f) \in Load(f)
    BY <1>2 DEF Loaded
  <2>. QED  BY <2>1, LoadGood
<1>. QED  BY <1>1, <1>2

LEMMA PausedRows ==
  ASSUME NEW rows, IsRows(rows)
  PROVE  /\ Paused(rows) \subseteq Modifiers
         /\ \A i \in DOMAIN rows : rows[i].id # "pause" => rows[i].key \in Chords
         /\ Paused(rows) = {} <=> \A i \in DOMAIN rows : rows[i].id # "pause"
<1>1. \A i \in DOMAIN rows : rows[i] \in Row /\ (rows[i].key \in Modifiers <=> rows[i].id = "pause")
  BY DEF IsRows
<1>. QED  BY <1>1, ContentsAssumption DEF Paused, Row

LEMMA KeysWritten ==
  ASSUME NEW v, GoodView(v), NEW f, GoodFile(f)
  PROVE  \/ /\ KeysToWrite(v, f) = {}
            /\ v.rows = << >> \/ (Known(v.rows, Loaded(f)) = {} /\ Paused(v.rows) = {} /\ Loaded(f).pause # {})
         \/ /\ v.rows # << >>
            /\ \E t : KeysToWrite(v, f) = {t} /\ Tabulates(t, v.rows, Loaded(f))
<1>. DEFINE rows == v.rows
            loaded == CHOOSE c \in (IF Load(f) = {} THEN {DefaultConfig} ELSE Load(f)) : TRUE
            known == {i \in DOMAIN rows : rows[i].id # "pause" /\ CommandOf(loaded, rows[i].id) # {}}
            chord(i) == Written(rows[i].key)
            row(name) == CHOOSE i \in known : chord(i) = name /\ \A j \in known : j > i => chord(j) # name
            command(name) == CHOOSE cmd \in CommandOf(loaded, rows[row(name)].id) : TRUE
            off == IF Paused(rows) = {} /\ loaded.pause = {} THEN {"Cmd"} ELSE {}
            held == Over([n \in {Written(m) : m \in Paused(rows)} |-> "pause"],
                         [n \in {Written(m) : m \in off} |-> "disable"])
            chords == [n \in {chord(i) : i \in known} |-> command(n)]
            table == Over(chords, held)
<1>1. KeysToWrite(v, f) = IF rows = << >> \/ DOMAIN table = {} THEN {} ELSE {table}
  BY DEF KeysToWrite
<1>2. loaded = Loaded(f) /\ known = Known(rows, Loaded(f)) /\ off = Off(rows, Loaded(f))
  BY DEF Loaded, Known, Off
<1>3. IsRows(rows)
  BY DEF GoodView
<1>4. \A i \in known : i \in DOMAIN rows /\ rows[i].key \in Chords
  BY <1>3, PausedRows
<1>5. Paused(rows) \subseteq Modifiers /\ off \subseteq Modifiers /\ (off # {} => Paused(rows) = {})
  BY <1>3, PausedRows DEF Modifiers
<1>6. /\ DOMAIN chords = {chord(i) : i \in known} /\ \A n \in DOMAIN chords : chords[n] = command(n)
      /\ DOMAIN held = {Written(m) : m \in Paused(rows) \cup off}
      /\ \A m \in Paused(rows) : held[Written(m)] = "pause"
      /\ \A m \in off : held[Written(m)] = "disable"
  <2>1. DOMAIN chords = {chord(i) : i \in known} /\ \A n \in DOMAIN chords : chords[n] = command(n)
    <3>. HIDE DEF known, chord, command
    <3>. QED  OBVIOUS
  <2>5. PICK P, Q : P = Paused(rows) /\ Q = off
    OBVIOUS
  <2>. DEFINE a == [n \in {Written(m) : m \in P} |-> "pause"]
              b == [n \in {Written(m) : m \in Q} |-> "disable"]
  <2>2. DOMAIN held = {Written(m) : m \in P} \cup {Written(m) : m \in Q}
    BY <2>5 DEF Over
  <2>3. \A m \in P : held[Written(m)] = "pause"
    BY <2>5 DEF Over
  <2>4. \A m \in Q : held[Written(m)] = "disable"
    <3>1. Q # {} => P = {}
      BY <1>5, <2>5
    <3>. HIDE DEF off
    <3>. QED  BY <2>5, <3>1 DEF Over
  <2>6. {Written(m) : m \in P \cup Q} = {Written(m) : m \in P} \cup {Written(m) : m \in Q}
    OBVIOUS
  <2>. HIDE DEF held, chords, off, known, command, chord
  <2>. QED  BY <2>1, <2>2, <2>3, <2>4, <2>5, <2>6
<1>7. \A k \in Chords : \A m \in Modifiers : Written(k) # Written(m)
  BY ContentsAssumption DEF Written
<1>8. \A i \in known : row(chord(i)) \in known /\ chord(row(chord(i))) = chord(i)
  <2>1. PICK n \in Nat : DOMAIN rows = 1..n
    BY <1>3 DEF IsRows
  <2>2. known \in SUBSET (1..n)
    BY <2>1
  <2>. HIDE DEF known
  <2>3. ASSUME NEW i \in known
        PROVE  \E k \in known : chord(k) = chord(i) /\ \A j \in known : j > k => chord(j) # chord(i)
    <3>. PICK S \in SUBSET (1..n) : S = {k \in known : chord(k) = chord(i)}
      BY <2>2
    <3>1. PICK m \in S : \A k \in S : k <= m
      BY Largest
    <3>. HIDE DEF chord
    <3>2. \A j \in known : j > m => chord(j) # chord(i)
      BY <2>2, <3>1
    <3>. QED  BY <3>1, <3>2
  <2>. HIDE DEF chord
  <2>. QED  BY <2>3
<1>9. \A i \in known : command(chord(i)) = CommandFor(loaded, rows[row(chord(i))].id)
  BY DEF CommandFor
<1>10. Tabulates(table, rows, loaded)
  <2>. HIDE DEF chords, held, row, known, loaded, off, command
  <2>1. DOMAIN table = DOMAIN chords \cup DOMAIN held
    BY DEF Over
  <2>2. DOMAIN table = {Written(rows[i].key) : i \in known} \cup {Written(m) : m \in Paused(rows) \cup off}
    BY <1>6, <2>1
  <2>3. \A i \in known : table[chord(i)] = command(chord(i))
    BY <1>6, <2>1 DEF Over
  <2>4. \A m \in Modifiers : Written(m) \notin DOMAIN chords
    BY <1>4, <1>6, <1>7
  <2>5. \A m \in Paused(rows) : table[Written(m)] = "pause"
    BY <1>5, <1>6, <2>4 DEF Over
  <2>6. \A m \in off : table[Written(m)] = "disable"
    BY <1>5, <1>6, <2>4 DEF Over
  <2>7. \A i \in known : \E j \in known : rows[j].key = rows[i].key /\ table[Written(rows[i].key)] = CommandFor(loaded, rows[j].id)
    <3>1. ASSUME NEW i \in known
          PROVE  \E j \in known : rows[j].key = rows[i].key /\ table[Written(rows[i].key)] = CommandFor(loaded, rows[j].id)
      <4>1. row(chord(i)) \in known /\ rows[row(chord(i))].key = rows[i].key
        BY <1>8 DEF Written
      <4>. HIDE DEF table
      <4>. QED  BY <1>9, <2>3, <4>1
    <3>. QED  BY <3>1
  <2>. HIDE DEF table
  <2>. QED  BY <1>2, <2>2, <2>5, <2>6, <2>7 DEF Tabulates
<1>11. DOMAIN table = {} => known = {} /\ Paused(rows) = {} /\ off = {}
  <2>. HIDE DEF table, known, off, loaded
  <2>1. DOMAIN table = {Written(rows[i].key) : i \in known} \cup {Written(m) : m \in Paused(rows) \cup off}
    BY <1>2, <1>10 DEF Tabulates
  <2>. HIDE DEF rows
  <2>. QED  BY <2>1
<1>12. off = {} /\ Paused(rows) = {} => loaded.pause # {}
  OBVIOUS
<1>. HIDE DEF table, known, off, loaded
<1>. QED  BY <1>1, <1>2, <1>10, <1>11, <1>12

LEMMA TableWritten ==
  ASSUME NEW rows, IsRows(rows), NEW c, GoodConfig(c), NEW t, Tabulates(t, rows, c)
  PROVE  IsTable(t)
<1>. PICK K, P, Q : K = Known(rows, c) /\ P = Paused(rows) /\ Q = Off(rows, c)
  OBVIOUS
<1>1. /\ DOMAIN t = {Written(rows[i].key) : i \in K} \cup {Written(m) : m \in P \cup Q}
      /\ \A i \in K : \E j \in K : rows[j].key = rows[i].key /\ t[Written(rows[i].key)] = CommandFor(c, rows[j].id)
      /\ \A m \in P : t[Written(m)] = "pause"
      /\ \A m \in Q : t[Written(m)] = "disable"
  BY DEF Tabulates
<1>2. /\ \A i \in K : i \in DOMAIN rows /\ rows[i].key \in Chords /\ CommandFor(c, rows[i].id) \in DOMAIN Id
      /\ P \subseteq Modifiers /\ Q \subseteq Modifiers
  BY PausedRows, CommandsKnown DEF Known, Off, Modifiers, CommandFor
<1>3. IsFiniteSet(DOMAIN t)
  <2>1. PICK n \in Nat : DOMAIN rows = 1..n
    BY DEF IsRows
  <2>. DEFINE A == {Written(rows[i].key) : i \in 1..n}
              M == {Written("Cmd"), Written("Ctrl")}
  <2>2. IsFiniteSet(A)
    <3>. DEFINE g == [i \in 1..n |-> Written(rows[i].key)]
    <3>1. g \in Surjection(1..n, A)
      BY DEF Surjection
    <3>2. IsFiniteSet(1..n)
      BY FS_Interval
    <3>. HIDE DEF g, A
    <3>. QED  BY <3>1, <3>2, FS_Surjection
  <2>3. IsFiniteSet(M)
    <3>1. IsFiniteSet({Written("Cmd")} \cup {Written("Ctrl")})
      BY FS_Singleton, FS_Union
    <3>2. M = {Written("Cmd")} \cup {Written("Ctrl")}
      OBVIOUS
    <3>. QED  BY <3>1, <3>2
  <2>4. IsFiniteSet(A \cup M)
    BY <2>2, <2>3, FS_Union
  <2>5. DOMAIN t \in SUBSET (A \cup M)
    BY <1>1, <1>2, <2>1 DEF Modifiers
  <2>. HIDE DEF A, M
  <2>. QED  BY <2>4, <2>5, FS_Subset
<1>4. ASSUME NEW n \in DOMAIN t
      PROVE  n[1] \in Chords \cup Modifiers /\ t[n] \in DOMAIN Id \cup {"pause", "disable"}
  <2>1. \A k : Written(k)[1] = k
    BY DEF Written
  <2>2. CASE \E i \in K : n = Written(rows[i].key)
    BY <1>1, <1>2, <2>1, <2>2
  <2>3. CASE \E m \in P \cup Q : n = Written(m)
    BY <1>1, <1>2, <2>1, <2>3
  <2>. QED  BY <1>1, <2>2, <2>3
<1>. QED  BY <1>3, <1>4 DEF IsTable

LEMMA WriteGood ==
  ASSUME NEW v, GoodView(v), NEW f, GoodFile(f)
  PROVE  GoodFile(WritePreferences(v, f))
<1>1. \A t \in KeysToWrite(v, f) : IsTable(t)
  BY KeysWritten, TableWritten, LoadedGood DEF GoodView
<1>2. WritePreferences(v, f).keys \in {{}, f.keys, KeysToWrite(v, f)}
  BY DEF WritePreferences
<1>. QED  BY <1>1, <1>2 DEF GoodFile

-----------------------------------------------------------------------------
(* What there is, is always in order. *)

(* Only such configurations, views and files are ever there.                *)
GoodMail(q) == \A i \in DOMAIN q : \A c \in q[i].config : GoodConfig(c)
GoodPort(q) == \A i \in DOMAIN q : GoodConfig(q[i])

Contents ==
  /\ GoodFile(file) /\ GoodConfig(current)
  /\ GoodMail(inbox["wm"]) /\ GoodPort(port)
  /\ \A x \in client : GoodConfig(x.config)
  /\ \A v \in view : GoodView(v)

LEMMA MailParts ==
  ASSUME NEW q, IsQueue(q), GoodMail(q)
  PROVE  /\ \A c : GoodConfig(c) => GoodMail(Append(q, ConfigUpdated(c)))
         /\ GoodMail(Append(q, HotkeysActive))
         /\ q # << >> => GoodMail(Tail(q)) /\ \A c \in Head(q).config : GoodConfig(c)
<1>1. ASSUME NEW m, \A c \in m.config : GoodConfig(c) PROVE GoodMail(Append(q, m))
  <2>. PICK p, n : p = Append(q, m) /\ n = Len(q)
    OBVIOUS
  <2>1. n \in Nat /\ DOMAIN q = 1..n /\ DOMAIN p = 1..n + 1 /\ (\A i \in 1..n : p[i] = q[i]) /\ p[n + 1] = m
    BY Push
  <2>2. ASSUME NEW i \in DOMAIN p PROVE \A c \in p[i].config : GoodConfig(c)
    <3>1. i \in 1..n \/ i = n + 1
      BY <2>1
    <3>. QED  BY <1>1, <2>1, <3>1 DEF GoodMail
  <2>. QED  BY <2>2 DEF GoodMail
<1>2. ASSUME q # << >> PROVE GoodMail(Tail(q)) /\ \A c \in Head(q).config : GoodConfig(c)
  <2>. PICK p, n : p = Tail(q) /\ n = Len(q)
    OBVIOUS
  <2>1. /\ n \in Nat \ {0} /\ DOMAIN q = 1..n /\ Head(q) = q[1] /\ DOMAIN p = 1..n - 1
        /\ \A i \in 1..n - 1 : p[i] = q[i + 1]
    BY <1>2, Pop
  <2>2. 1 \in 1..n /\ \A i \in 1..n - 1 : i + 1 \in 1..n
    BY <2>1
  <2>. QED  BY <2>1, <2>2 DEF GoodMail
<1>3. \A c : GoodConfig(c) => \A d \in ConfigUpdated(c).config : GoodConfig(d)
  BY Messages
<1>4. \A d \in HotkeysActive.config : GoodConfig(d)
  BY DEF HotkeysActive
<1>. QED  BY <1>1, <1>2, <1>3, <1>4

LEMMA PortParts ==
  ASSUME NEW q, IsQueue(q), GoodPort(q)
  PROVE  /\ \A c : GoodConfig(c) => GoodPort(Append(q, c))
         /\ q # << >> => GoodPort(Tail(q)) /\ GoodPort(Front(q)) /\ GoodConfig(Head(q))
<1>1. ASSUME NEW c, GoodConfig(c) PROVE GoodPort(Append(q, c))
  <2>. PICK p, n : p = Append(q, c) /\ n = Len(q)
    OBVIOUS
  <2>1. n \in Nat /\ DOMAIN q = 1..n /\ DOMAIN p = 1..n + 1 /\ (\A i \in 1..n : p[i] = q[i]) /\ p[n + 1] = c
    BY Push
  <2>2. ASSUME NEW i \in DOMAIN p PROVE GoodConfig(p[i])
    <3>1. i \in 1..n \/ i = n + 1
      BY <2>1
    <3>. QED  BY <1>1, <2>1, <3>1 DEF GoodPort
  <2>. QED  BY <2>2 DEF GoodPort
<1>2. ASSUME q # << >> PROVE GoodPort(Tail(q)) /\ GoodConfig(Head(q))
  <2>. PICK p, n : p = Tail(q) /\ n = Len(q)
    OBVIOUS
  <2>1. /\ n \in Nat \ {0} /\ DOMAIN q = 1..n /\ Head(q) = q[1] /\ DOMAIN p = 1..n - 1
        /\ \A i \in 1..n - 1 : p[i] = q[i + 1]
    BY <1>2, Pop
  <2>2. 1 \in 1..n /\ \A i \in 1..n - 1 : i + 1 \in 1..n
    BY <2>1
  <2>. QED  BY <2>1, <2>2 DEF GoodPort
<1>3. GoodPort(Front(q))
  <2>1. Len(q) \in Nat /\ DOMAIN q = 1..Len(q)
    BY Push
  <2>2. Front(q) = [i \in 1..Len(q) - 1 |-> q[i]] \/ Front(q) = SubSeq(q, 1, Len(q) - 1)
    BY DEF Front
  <2>3. PICK S : q \in Seq(S)
    BY DEF IsQueue
  <2>4. DOMAIN Front(q) = 1..Len(q) - 1 /\ \A i \in 1..Len(q) - 1 : Front(q)[i] = q[i] /\ i \in 1..Len(q)
    BY <2>1, <2>2, <2>3
  <2>. QED  BY <2>1, <2>4 DEF GoodPort
<1>. QED  BY <1>1, <1>2, <1>3

LEMMA ContentsSaved ==
  ASSUME Shape, Contents, NEW v, GoodView(v), SaveToConfig(v)
  PROVE  Contents'
<1>. PICK c : c = ApplyToConfig(v, current)
  OBVIOUS
<1>1. GoodConfig(c)
  BY ApplyGood DEF Contents
<1>2. /\ current' = c /\ inbox' = Send(inbox, {"wm"}, ConfigUpdated(c)) /\ view' = {v}
      /\ UNCHANGED <<client, port>>
  BY DEF SaveToConfig
<1>3. file' \in {file, WritePreferences(v, file)}
  BY DEF SaveToConfig
<1>4. GoodFile(file')
  BY <1>3, WriteGood DEF Contents
<1>5. inbox'["wm"] = Append(inbox["wm"], ConfigUpdated(c)) /\ IsQueue(inbox["wm"])
  BY <1>2, ActorsDiffer DEF Send, Shape
<1>6. GoodMail(inbox'["wm"])
  BY <1>1, <1>5, MailParts DEF Contents
<1>. QED  BY <1>1, <1>2, <1>4, <1>6 DEF Contents

LEMMA ContentsChanged ==
  ASSUME Contents, NEW v, GoodView(v), Changed(v)
  PROVE  Contents'
BY DEF Contents, Changed, programVars, clientVars

LEMMA RowChanged ==
  ASSUME NEW v, GoodView(v), NEW i \in DOMAIN v.rows, NEW key \in Chords \cup Modifiers,
         key \in Modifiers <=> v.rows[i].id = "pause"
  PROVE  LET w == [v EXCEPT !.rows[i].key = key] IN
         /\ GoodView(w) /\ DOMAIN w.rows = DOMAIN v.rows
         /\ \A j \in DOMAIN v.rows : w.rows[j].id = v.rows[j].id
                                     /\ w.rows[j].key = IF j = i THEN key ELSE v.rows[j].key
<1>. DEFINE rows == [v.rows EXCEPT ![i] = [@ EXCEPT !.key = key]]
            w == [v EXCEPT !.rows = rows]
<1>1. [v EXCEPT !.rows[i].key = key] = w
  OBVIOUS
<1>2. v.rows \in Seq(Row) /\ \A j \in DOMAIN v.rows : v.rows[j] \in Row /\ (v.rows[j].key \in Modifiers <=> v.rows[j].id = "pause")
  BY DEF GoodView, IsRows
<1>. PICK r : r = [v.rows[i] EXCEPT !.key = key]
  OBVIOUS
<1>3. r \in Row /\ r.key = key /\ r.id = v.rows[i].id
  BY <1>2 DEF Row
<1>4. rows = [v.rows EXCEPT ![i] = r]
  OBVIOUS
<1>5. rows \in Seq(Row) /\ DOMAIN rows = DOMAIN v.rows
  <2>. HIDE DEF rows
  <2>. QED  BY <1>2, <1>3, <1>4
<1>6. \A j \in DOMAIN v.rows : rows[j] = IF j = i THEN r ELSE v.rows[j]
  BY <1>4
<1>7. IsRows(rows)
  <2>. HIDE DEF rows
  <2>. QED  BY <1>2, <1>3, <1>5, <1>6 DEF IsRows
<1>8. w.settings = v.settings /\ w.rules = v.rules /\ w.rows = rows
        /\ w = [settings |-> w.settings, rules |-> w.rules, rows |-> w.rows]
  <2>. HIDE DEF rows
  <2>. QED  BY DEF GoodView
<1>. HIDE DEF rows, w
<1>9. GoodView(w)
  BY <1>7, <1>8 DEF GoodView
<1>10. DOMAIN w.rows = DOMAIN v.rows
       /\ \A j \in DOMAIN v.rows : w.rows[j].id = v.rows[j].id
                                   /\ w.rows[j].key = IF j = i THEN key ELSE v.rows[j].key
  BY <1>3, <1>5, <1>6, <1>8
<1>. QED  BY <1>1, <1>9, <1>10

LEMMA ContentsHotkey ==
  ASSUME Shape, Contents, NEW id \in Identifiers, NEW key \in Chords \cup Modifiers, UpdateHotkey(id, key)
  PROVE  Contents'
<1>1. PICK v \in view : \E i \in DOMAIN v.rows :
         /\ v.rows[i].id = id /\ (key \in Modifiers <=> id = "pause")
         /\ SaveToConfig([v EXCEPT !.rows[i].key = key])
  BY DEF UpdateHotkey
<1>2. PICK i \in DOMAIN v.rows :
         /\ v.rows[i].id = id /\ (key \in Modifiers <=> id = "pause")
         /\ SaveToConfig([v EXCEPT !.rows[i].key = key])
  BY <1>1
<1>3. GoodView(v)
  BY DEF Contents
<1>4. GoodView([v EXCEPT !.rows[i].key = key])
  BY <1>2, <1>3, RowChanged
<1>. QED  BY <1>2, <1>4, ContentsSaved

LEMMA ContentsWindow ==
  ASSUME Shape, Contents,
         \/ OpenPreferences \/ DebouncedSave
         \/ \E s \in Shown : ChangeSetting(s)
         \/ \E rules \in {{}, {"app"}} : ChangeRules(rules)
  PROVE  Contents'
<1>1. CASE OpenPreferences
  <2>1. GoodView(FromConfig(current))
    BY FromConfigGood DEF Contents
  <2>. QED  BY <1>1, <2>1 DEF OpenPreferences, Contents, programVars, clientVars
<1>2. CASE DebouncedSave
  <2>1. PICK v \in view : SaveToConfig(v)
    BY <1>2 DEF DebouncedSave
  <2>2. GoodView(v)
    BY DEF Contents
  <2>. QED  BY <2>1, <2>2, ContentsSaved
<1>3. ASSUME NEW s \in Shown, ChangeSetting(s) PROVE Contents'
  <2>1. PICK v \in view : Changed([v EXCEPT !.settings[s] = ~@])
    BY <1>3 DEF ChangeSetting
  <2>2. GoodView(v)
    BY DEF Contents
  <2>. DEFINE set == [v.settings EXCEPT ![s] = ~@]
              w == [v EXCEPT !.settings = set]
  <2>3. [v EXCEPT !.settings[s] = ~@] = w
    OBVIOUS
  <2>4. set = [x \in Shown |-> set[x]]
    BY <2>2 DEF GoodView
  <2>5. w.settings = set /\ w.rules = v.rules /\ w.rows = v.rows
        /\ w = [settings |-> w.settings, rules |-> w.rules, rows |-> w.rows]
    <3>. HIDE DEF set
    <3>. QED  BY <2>2 DEF GoodView
  <2>. HIDE DEF set, w
  <2>6. GoodView(w)
    BY <2>2, <2>4, <2>5 DEF GoodView
  <2>7. Changed(w)
    BY <2>1, <2>3
  <2>. QED  BY <2>6, <2>7, ContentsChanged
<1>4. ASSUME NEW rules \in {{}, {"app"}}, ChangeRules(rules) PROVE Contents'
  <2>1. PICK v \in view : Changed([v EXCEPT !.rules = rules])
    BY <1>4 DEF ChangeRules
  <2>2. GoodView(v)
    BY DEF Contents
  <2>. PICK w : w = [v EXCEPT !.rules = rules]
    OBVIOUS
  <2>5. w.settings = v.settings /\ w.rules = rules /\ w.rows = v.rows
        /\ w = [settings |-> w.settings, rules |-> w.rules, rows |-> w.rows]
    BY <2>2 DEF GoodView
  <2>6. GoodView(w)
    BY <2>2, <2>5 DEF GoodView
  <2>. QED  BY <2>1, <2>6, ContentsChanged
<1>. QED  BY <1>1, <1>2, <1>3, <1>4

LEMMA ContentsMail ==
  ASSUME Shape, Contents,
         \/ WmConfigUpdated \/ WmHotkeysActive \/ SmConfigUpdated
         \/ \E a \in Listeners \cup {"reactor"} : Received(a)
  PROVE  Contents'
<1>. PICK q : q = inbox["wm"]
  OBVIOUS
<1>1. IsQueue(q) /\ GoodMail(q)
  BY ActorsDiffer DEF Shape, Contents
<1>2. CASE WmConfigUpdated
  <2>1. PICK c \in Head(q).config : current' = c /\ inbox' = Send(Rest("wm"), Listeners \cup {"sm"}, ConfigUpdated(c))
    BY <1>2 DEF WmConfigUpdated
  <2>2. q # << >> /\ UNCHANGED <<file, windowVars, clientVars>>
    BY <1>2 DEF WmConfigUpdated, Take
  <2>3. GoodConfig(c) /\ GoodMail(Tail(q))
    BY <1>1, <2>1, <2>2, MailParts
  <2>4. inbox'["wm"] = Tail(q)
    BY <2>1, <2>2, ActorsDiffer, RestShape DEF Send
  <2>. QED  BY <2>1, <2>2, <2>3, <2>4 DEF Contents, windowVars, clientVars
<1>3. CASE WmHotkeysActive /\ ~Ended
  <2>1. q # << >> /\ inbox' = Rest("wm") /\ UNCHANGED <<file, current, windowVars, clientVars>>
    BY <1>3 DEF WmHotkeysActive, Take
  <2>2. inbox'["wm"] = Tail(q)
    BY <2>1, ActorsDiffer, RestShape
  <2>3. GoodMail(Tail(q))
    BY <1>1, <2>1, MailParts
  <2>. QED  BY <2>1, <2>2, <2>3 DEF Contents, windowVars, clientVars
<1>4. CASE SmConfigUpdated
  <2>1. /\ inbox["sm"] # << >> /\ UNCHANGED <<file, current, windowVars, clientVars>>
        /\ inbox' = Send(Send(Rest("sm"), {"reactor"}, Head(inbox["sm"])), {"wm"}, HotkeysActive)
    BY <1>4 DEF SmConfigUpdated, Take
  <2>2. inbox'["wm"] = Append(q, HotkeysActive)
    <3>1. Rest("sm")["wm"] = q
      BY <2>1, ActorsDiffer, RestShape
    <3>. QED  BY <2>1, <3>1, ActorsDiffer DEF Send
  <2>3. GoodMail(inbox'["wm"])
    BY <1>1, <2>2, MailParts
  <2>. QED  BY <2>1, <2>3 DEF Contents, windowVars, clientVars
<1>5. ASSUME NEW a \in Listeners \cup {"reactor"}, Received(a) PROVE Contents'
  <2>1. inbox[a] # << >> /\ inbox' = Rest(a) /\ UNCHANGED <<file, current, windowVars, clientVars>>
    BY <1>5 DEF Received, Take
  <2>2. inbox'["wm"] = q
    BY <2>1, ActorsDiffer, RestShape
  <2>. QED  BY <1>1, <2>1, <2>2 DEF Contents, windowVars, clientVars
<1>6. CASE Ended
  <2>1. DOMAIN << >> = {}
    OBVIOUS
  <2>2. GoodMail(<< >>) /\ GoodPort(<< >>)
    BY <2>1 DEF GoodMail, GoodPort
  <2>3. inbox'["wm"] = << >> /\ port' = << >> /\ current' = DefaultConfig /\ view' = {} /\ file' = file
    BY <1>6, ActorsDiffer DEF Ended
  <2>4. client' \in {{}, client}
    BY <1>6 DEF Ended
  <2>. QED  BY <2>2, <2>3, <2>4, DefaultGood DEF Contents
<1>. QED  BY <1>2, <1>3, <1>4, <1>5, <1>6

LEMMA ContentsOther ==
  ASSUME Shape, Contents,
         \/ \E f \in Files : Edit(f)
         \/ Quit \/ Start \/ Watch \/ UpdateConfig \/ SendRequest \/ OnRequest \/ TimeOut
  PROVE  Contents'
<1>1. ASSUME NEW f \in Files, Edit(f) PROVE Contents'
  <2>1. GoodFile(f)
    BY ContentsAssumption DEF GoodFile
  <2>. QED  BY <1>1, <2>1 DEF Edit, Contents, programVars, windowVars
<1>2. CASE Quit
  <2>1. DOMAIN << >> = {}
    OBVIOUS
  <2>2. GoodMail(<< >>) /\ GoodPort(<< >>)
    BY <2>1 DEF GoodMail, GoodPort
  <2>3. inbox'["wm"] = << >> /\ port' = << >> /\ current' = DefaultConfig /\ view' = {} /\ file' = file
    BY <1>2, ActorsDiffer DEF Quit, Ended
  <2>4. client' \in {{}, client}
    BY <1>2 DEF Quit, Ended
  <2>. QED  BY <2>2, <2>3, <2>4, DefaultGood DEF Contents
<1>3. CASE Start
  <2>1. PICK c \in Load(file) : current' = Started(c).current /\ inbox' = Started(c).inbox
    BY <1>3 DEF Start
  <2>2. GoodConfig(c)
    BY <2>1, LoadGood DEF Contents
  <2>. PICK w : w = <<HotkeysActive>>
    OBVIOUS
  <2>3. current' = c /\ inbox'["wm"] = w
    BY <2>1, ActorsDiffer DEF Started
  <2>4. GoodMail(w)
    BY DEF GoodMail, HotkeysActive
  <2>. QED  BY <1>3, <2>2, <2>3, <2>4 DEF Start, Contents, windowVars, clientVars
<1>4. CASE Watch
  BY <1>4 DEF Watch, Contents, programVars, windowVars
<1>5. CASE UpdateConfig
  <2>1. client' = {[config |-> c, sent |-> FALSE] : c \in Load(file)} /\ UNCHANGED <<file, programVars, windowVars, port>>
    BY <1>5 DEF UpdateConfig
  <2>2. \A x \in client' : GoodConfig(x.config)
    BY <2>1, LoadGood DEF Contents
  <2>. QED  BY <2>1, <2>2 DEF Contents, programVars, windowVars
<1>6. CASE SendRequest
  <2>1. PICK x \in client :
          /\ client' = {} \/ client' = {[x EXCEPT !.sent = TRUE]}
          /\ port' = port \/ port' = Append(port, x.config)
    BY <1>6 DEF SendRequest
  <2>2. GoodConfig(x.config) /\ IsQueue(port) /\ GoodPort(port)
    BY DEF Contents, Shape
  <2>3. [x EXCEPT !.sent = TRUE].config = x.config
    OBVIOUS
  <2>4. GoodPort(port') /\ \A y \in client' : GoodConfig(y.config)
    BY <2>1, <2>2, <2>3, PortParts
  <2>. QED  BY <1>6, <2>4 DEF SendRequest, Contents, programVars, windowVars
<1>7. CASE OnRequest
  <2>1. /\ port # << >> /\ inbox' = Send(inbox, {"wm"}, ConfigUpdated(Head(port))) /\ port' = Tail(port)
        /\ UNCHANGED <<file, current, windowVars>>
    BY <1>7 DEF OnRequest
  <2>2. client' \in {{}, client}
    BY <1>7 DEF OnRequest
  <2>3. GoodConfig(Head(port)) /\ GoodPort(Tail(port)) /\ IsQueue(inbox["wm"]) /\ GoodMail(inbox["wm"])
    BY <2>1, PortParts, ActorsDiffer DEF Contents, Shape
  <2>4. inbox'["wm"] = Append(inbox["wm"], ConfigUpdated(Head(port)))
    BY <2>1, ActorsDiffer DEF Send, Shape
  <2>5. GoodMail(inbox'["wm"])
    BY <2>3, <2>4, MailParts
  <2>. QED  BY <2>1, <2>2, <2>3, <2>5 DEF Contents, windowVars
<1>8. CASE TimeOut
  <2>1. client' = {} /\ port' \in {port, Front(port)} /\ UNCHANGED <<file, programVars, windowVars>>
    BY <1>8 DEF TimeOut
  <2>2. GoodPort(port')
    <3>1. IsQueue(port) /\ GoodPort(port)
      BY DEF Contents, Shape
    <3>2. CASE port = << >>
      <4>1. Front(port) = << >>
        BY <3>2 DEF Front
      <4>. QED  BY <2>1, <3>1, <3>2, <4>1
    <3>3. CASE port # << >>
      BY <2>1, <3>1, <3>3, PortParts
    <3>. QED  BY <3>2, <3>3
  <2>. QED  BY <2>1, <2>2 DEF Contents, programVars, windowVars
<1>. QED  BY <1>1, <1>2, <1>3, <1>4, <1>5, <1>6, <1>7, <1>8

LEMMA NextContents ==
  ASSUME Shape, Contents, [Next]_vars
  PROVE  Contents'
<1>1. CASE UNCHANGED vars
  BY <1>1 DEF vars, programVars, windowVars, clientVars, Contents
<1>. QED  BY <1>1, ContentsMail, ContentsWindow, ContentsHotkey, ContentsOther DEF Next

LEMMA InitContents == Init => Contents
<1>. SUFFICES ASSUME Init PROVE Contents
  OBVIOUS
<1>1. PICK c \in Load(file) : current = Started(c).current /\ inbox = Started(c).inbox
  BY DEF Init
<1>2. GoodFile(file)
  BY ContentsAssumption DEF Init, GoodFile
<1>3. GoodConfig(c)
  BY <1>1, <1>2, LoadGood
<1>. PICK w : w = <<HotkeysActive>>
  OBVIOUS
<1>4. current = c /\ inbox["wm"] = w
  BY <1>1, ActorsDiffer DEF Started
<1>5. GoodMail(w)
  BY DEF GoodMail, HotkeysActive
<1>6. DOMAIN << >> = {}
  OBVIOUS
<1>7. GoodPort(port)
  BY <1>6 DEF Init, GoodPort
<1>. QED  BY <1>2, <1>3, <1>4, <1>5, <1>7 DEF Init, Contents

-----------------------------------------------------------------------------
(* Applied as it is shown. *)

(* Of a configuration that can be shown, each identifier has one command.   *)
LEMMA OwnCommand ==
  ASSUME NEW c, GoodConfig(c), Showable(c), NEW j \in DOMAIN c.keys
  PROVE  CommandOf(c, Id[c.keys[j].cmd]) = {c.keys[j].cmd}
<1>. DEFINE keys == c.keys
            id == Id[keys[j].cmd]
            Named == {k \in DOMAIN keys : Described(keys[k].cmd) = id}
            Latest == {k \in DOMAIN keys : Described(keys[k].cmd) = id
                         /\ \A l \in k + 1 .. Len(keys) : Described(keys[l].cmd) # id}
            cmds == {keys[k].cmd : k \in Latest}
<1>1. keys \in Seq(Keys)
  BY DEF GoodConfig
<1>2. PICK n \in Nat : n = Len(keys) /\ DOMAIN keys = 1..n
  BY <1>1
<1>3. Named \in SUBSET (1..n) /\ j \in Named
  BY <1>2 DEF Described
<1>4. PICK m \in Named : \A k \in Named : k <= m
  <2>. HIDE DEF Named
  <2>. QED  BY <1>3, Largest
<1>5. m \in Latest
  BY <1>2, <1>4
<1>6. \A k \in Latest : keys[k].cmd = keys[j].cmd
  BY DEF Showable, Described
<1>7. cmds = {keys[j].cmd}
  <2>. HIDE DEF Latest
  <2>. QED  BY <1>5, <1>6
<1>8. cmds # {} => CommandOf(c, id) = cmds
  BY DEF CommandOf
<1>. HIDE DEF cmds
<1>. QED  BY <1>7, <1>8

(* What the preferences show of a configuration, row by row.                *)
Shows(rows, c, o) ==
  /\ \A i \in DOMAIN rows : o[i] \in 1..Len(c.keys) =>
       rows[i].key = c.keys[o[i]].key /\ rows[i].id = Id[c.keys[o[i]].cmd]
  /\ \A i \in DOMAIN rows : o[i] \notin 1..Len(c.keys) => rows[i].id = "pause" /\ rows[i].key \in c.pause
  /\ \A m \in c.pause : \E i \in DOMAIN rows : o[i] \notin 1..Len(c.keys) /\ rows[i].key = m
  /\ \A i, j \in DOMAIN rows : o[i] = o[j] => i = j
  /\ \A j \in 1..Len(c.keys) : \E i \in DOMAIN rows : o[i] = j

LEMMA SortedShows ==
  ASSUME NEW c, GoodConfig(c)
  PROVE  \E o : Shows(Sorted(Rows(c)), c, o)
<1>. PICK rows, s, n : rows = Rows(c) /\ s = Sorted(rows) /\ n = Len(c.keys)
  OBVIOUS
<1>1. /\ n \in Nat /\ IsRows(rows) /\ n <= Len(rows)
      /\ \A i \in 1..n : rows[i] = [key |-> c.keys[i].key, id |-> Id[c.keys[i].cmd]]
      /\ \A i \in DOMAIN rows : i \notin 1..n => rows[i].id = "pause" /\ rows[i].key \in c.pause
      /\ \A m \in c.pause : \E i \in DOMAIN rows : i \notin 1..n /\ rows[i].key = m
  BY RowsParts
<1>2. 1..n \subseteq DOMAIN rows
  BY <1>1 DEF IsRows
<1>3. Reorders(s, rows)
  BY <1>1, SortedRows
<1>4. PICK o \in [DOMAIN rows -> DOMAIN rows] :
        /\ \A i, j \in DOMAIN rows : o[i] = o[j] => i = j
        /\ \A j \in DOMAIN rows : \E i \in DOMAIN rows : o[i] = j
        /\ s = [i \in DOMAIN rows |-> rows[o[i]]]
  BY <1>3 DEF Reorders
<1>5. DOMAIN s = DOMAIN rows /\ \A i \in DOMAIN rows : s[i] = rows[o[i]] /\ o[i] \in DOMAIN rows
  BY <1>4
<1>6. ASSUME NEW i \in DOMAIN s, o[i] \in 1..n
      PROVE  s[i].key = c.keys[o[i]].key /\ s[i].id = Id[c.keys[o[i]].cmd]
  <2>1. s[i] = [key |-> c.keys[o[i]].key, id |-> Id[c.keys[o[i]].cmd]]
    BY <1>1, <1>5, <1>6
  <2>. QED  BY <2>1
<1>7. ASSUME NEW i \in DOMAIN s, o[i] \notin 1..n
      PROVE  s[i].id = "pause" /\ s[i].key \in c.pause
  <2>1. s[i] = rows[o[i]] /\ o[i] \in DOMAIN rows
    BY <1>5
  <2>2. rows[o[i]].id = "pause" /\ rows[o[i]].key \in c.pause
    BY <1>1, <1>7, <2>1
  <2>. QED  BY <2>1, <2>2
<1>8. ASSUME NEW m \in c.pause
      PROVE  \E i \in DOMAIN s : o[i] \notin 1..n /\ s[i].key = m
  <2>1. PICK j \in DOMAIN rows : j \notin 1..n /\ rows[j].key = m
    BY <1>1
  <2>2. PICK i \in DOMAIN rows : o[i] = j
    BY <1>4
  <2>3. i \in DOMAIN s /\ s[i] = rows[j]
    BY <1>5, <2>2
  <2>. QED  BY <2>1, <2>2, <2>3
<1>9. \A j \in 1..n : \E i \in DOMAIN s : o[i] = j
  BY <1>2, <1>4, <1>5
<1>10. Shows(s, c, o)
  BY <1>4, <1>5, <1>6, <1>7, <1>8, <1>9 DEF Shows
<1>. QED  BY <1>10

LEMMA PauseShown ==
  ASSUME NEW c, GoodConfig(c)
  PROVE  Paused(FromConfig(c).rows) = c.pause
<1>. PICK s : s = Sorted(Rows(c))
  OBVIOUS
<1>1. PICK o : Shows(s, c, o)
  BY SortedShows
<1>2. FromConfig(c).rows = s
  BY DEF FromConfig
<1>3. \A i \in DOMAIN s : o[i] \in 1..Len(c.keys) => s[i].id # "pause"
  <2>1. c.keys \in Seq(Keys)
    BY DEF GoodConfig
  <2>3. \A i \in 1..Len(c.keys) : c.keys[i] \in Keys
    BY <2>1
  <2>2. \A i \in 1..Len(c.keys) : c.keys[i].cmd \in DOMAIN Id
    BY <2>3 DEF Keys
  <2>. QED  BY <1>1, <2>2, ContentsAssumption DEF Shows
<1>. QED  BY <1>1, <1>2, <1>3 DEF Shows, Paused

LEMMA KeysKept ==
  ASSUME NEW c, GoodConfig(c), Showable(c), NEW keys, keys = BuildKeys(FromConfig(c).rows, c)
  PROVE  /\ Len(keys) = Len(c.keys)
         /\ {<<keys[i].key, keys[i].cmd>> : i \in DOMAIN keys} = Bindings(c)
<1>. PICK s, n, K : s = Sorted(Rows(c)) /\ n = Len(c.keys) /\ K = Kept(s, c)
  OBVIOUS
<1>1. PICK o : Shows(s, c, o)
  BY SortedShows
<1>2. FromConfig(c).rows = s
  BY DEF FromConfig
<1>3. IsRows(s)
  BY RowsParts, SortedRows
<1>4. n \in Nat /\ c.keys \in Seq(Keys) /\ DOMAIN c.keys = 1..n /\ \A i \in 1..n : c.keys[i] \in Keys
  BY DEF GoodConfig
<1>5. K = {i \in DOMAIN s : o[i] \in 1..n}
  <2>1. ASSUME NEW i \in DOMAIN s, o[i] \in 1..n PROVE i \in K
    <3>1. s[i].key = c.keys[o[i]].key /\ s[i].id = Id[c.keys[o[i]].cmd] /\ c.keys[o[i]] \in Keys
      BY <1>1, <1>4, <2>1 DEF Shows
    <3>2. s[i].id # "pause"
      BY <3>1, ContentsAssumption DEF Keys
    <3>3. IsHotkey(s[i].key)
      BY <1>4, <2>1, <3>1 DEF Showable, IsHotkey, Keys
    <3>4. CommandOf(c, s[i].id) # {}
      <4>1. PICK j \in DOMAIN c.keys : j = o[i]
        BY <1>4, <2>1
      <4>2. CommandOf(c, Id[c.keys[j].cmd]) = {c.keys[j].cmd}
        BY OwnCommand
      <4>. QED  BY <3>1, <4>1, <4>2
    <3>. QED  BY <3>2, <3>3, <3>4 DEF Kept
  <2>2. \A i \in K : i \in DOMAIN s /\ o[i] \in 1..n
    BY <1>1 DEF Kept, Shows
  <2>. QED  BY <2>1, <2>2
<1>6. \A i \in K : s[i].key = c.keys[o[i]].key /\ CommandFor(c, s[i].id) = c.keys[o[i]].cmd
  <2>1. ASSUME NEW i \in K PROVE s[i].key = c.keys[o[i]].key /\ CommandFor(c, s[i].id) = c.keys[o[i]].cmd
    <3>1. s[i].key = c.keys[o[i]].key /\ s[i].id = Id[c.keys[o[i]].cmd] /\ o[i] \in DOMAIN c.keys
      BY <1>1, <1>4, <1>5 DEF Shows
    <3>2. CommandOf(c, s[i].id) = {c.keys[o[i]].cmd}
      BY <3>1, OwnCommand
    <3>. QED  BY <3>1, <3>2 DEF CommandFor
  <2>. QED  BY <2>1
<1>7. /\ Builds(keys, s, c) /\ keys \in Seq(Keys)
      /\ IsFiniteSet(K) /\ Cardinality(K) \in Nat
  BY <1>2, <1>3, KeysBuilt
<1>8. Cardinality(K) = n
  <2>. DEFINE place == [i \in K |-> o[i]]
  <2>1. place \in [K -> 1..n] /\ \A i, j \in K : place[i] = place[j] => i = j
    BY <1>1, <1>5 DEF Shows
  <2>2. \A j \in 1..n : \E i \in K : place[i] = j
    BY <1>1, <1>5 DEF Shows
  <2>. HIDE DEF place
  <2>3. place \in Bijection(K, 1..n)
    BY <2>1, <2>2 DEF Bijection, Injection, Surjection, IsInjective
  <2>4. IsFiniteSet(1..n) /\ Cardinality(1..n) = n
    BY <1>4, FS_Interval
  <2>5. place \in Bijection(K, 1..n) /\ IsFiniteSet(K)
    BY <1>7, <2>3
  <2>6. Cardinality(K) = Cardinality(1..n)
    BY <2>5, FS_Bijection DEF ExistsBijection
  <2>. QED  BY <2>4, <2>6
<1>9. PICK q : /\ Lists(q, K) /\ DOMAIN keys = 1..n
               /\ keys = [k \in 1..n |-> [key |-> s[q[k]].key, cmd |-> CommandFor(c, s[q[k]].id)]]
  BY <1>7, <1>8 DEF Builds
<1>10. Len(keys) = n
  BY <1>4, <1>7, <1>9
<1>11. \A k \in 1..n : q[k] \in K /\ <<keys[k].key, keys[k].cmd>> = <<c.keys[o[q[k]]].key, c.keys[o[q[k]]].cmd>>
  <2>1. \A k \in 1..n : q[k] \in K
    BY <1>8, <1>9 DEF Lists
  <2>2. ASSUME NEW k \in 1..n
        PROVE  keys[k].key = c.keys[o[q[k]]].key /\ keys[k].cmd = c.keys[o[q[k]]].cmd
    <3>1. keys[k] = [key |-> s[q[k]].key, cmd |-> CommandFor(c, s[q[k]].id)]
      BY <1>9
    <3>2. keys[k].key = s[q[k]].key /\ keys[k].cmd = CommandFor(c, s[q[k]].id)
      BY <3>1
    <3>. QED  BY <1>6, <2>1, <3>2
  <2>. QED  BY <2>1, <2>2
<1>12. ASSUME NEW k \in DOMAIN keys PROVE <<keys[k].key, keys[k].cmd>> \in Bindings(c)
  BY <1>4, <1>5, <1>9, <1>11 DEF Bindings
<1>13. ASSUME NEW j \in DOMAIN c.keys
       PROVE  <<c.keys[j].key, c.keys[j].cmd>> \in {<<keys[i].key, keys[i].cmd>> : i \in DOMAIN keys}
  <2>1. PICK i \in K : o[i] = j
    BY <1>1, <1>4, <1>5 DEF Shows
  <2>2. PICK k \in 1..n : q[k] = i
    BY <1>8, <1>9 DEF Lists
  <2>. QED  BY <1>9, <1>11, <2>1, <2>2
<1>. DEFINE B == {<<keys[i].key, keys[i].cmd>> : i \in DOMAIN keys}
<1>14. B \subseteq Bindings(c)
  BY <1>12
<1>15. Bindings(c) \subseteq B
  BY <1>13 DEF Bindings
<1>16. Len(keys) = Len(c.keys) /\ B = Bindings(c)
  BY <1>10, <1>14, <1>15
<1>. QED  BY <1>16

(* Applied as it is shown, a configuration is kept.                         *)
LEMMA AppliedKeeps ==
  ASSUME NEW c, GoodConfig(c), Showable(c), NEW d, d = ApplyToConfig(FromConfig(c), c)
  PROVE  /\ d.settings = c.settings /\ d.rules = c.rules /\ d.pause = c.pause
         /\ Bindings(d) = Bindings(c) /\ Len(d.keys) = Len(c.keys)
<1>. PICK v : v = FromConfig(c)
  OBVIOUS
<1>1. /\ d.settings = Over(v.settings, c.settings) /\ d.rules = {Rule(r) : r \in v.rules}
      /\ d.keys = BuildKeys(v.rows, c)
      /\ d.pause = IF Paused(v.rows) = {} THEN c.pause ELSE Paused(v.rows)
  BY DEF ApplyToConfig
<1>2. v.settings = [s \in Shown |-> c.settings[s]] /\ v.rules = {Rule(r) : r \in c.rules}
  BY DEF FromConfig
<1>3. d.settings = c.settings
  <2>1. Shown \subseteq DOMAIN c.settings /\ c.settings = [s \in DOMAIN c.settings |-> c.settings[s]]
    BY DEF GoodConfig
  <2>2. d.settings = [s \in DOMAIN c.settings |-> c.settings[s]]
    BY <1>1, <1>2, <2>1 DEF Over
  <2>. QED  BY <2>1, <2>2
<1>4. d.rules = c.rules
  <2>1. \A r \in c.rules : Rule(r) = r
    BY DEF Showable, Rule
  <2>. QED  BY <1>1, <1>2, <2>1
<1>5. d.pause = c.pause
  BY <1>1, PauseShown
<1>6. Len(d.keys) = Len(c.keys) /\ Bindings(d) = Bindings(c)
  <2>. PICK keys : keys = d.keys
    OBVIOUS
  <2>1. keys = BuildKeys(FromConfig(c).rows, c)
    BY <1>1
  <2>2. /\ Len(keys) = Len(c.keys)
        /\ {<<keys[i].key, keys[i].cmd>> : i \in DOMAIN keys} = Bindings(c)
    BY <2>1, KeysKept
  <2>3. Bindings(d) = {<<keys[i].key, keys[i].cmd>> : i \in DOMAIN keys}
    BY DEF Bindings
  <2>. QED  BY <2>2, <2>3
<1>. QED  BY <1>3, <1>4, <1>5, <1>6

LEMMA KeepsIfGood == Contents => PreferencesKeep
<1>. SUFFICES ASSUME Contents, NEW c \in {current} \cup Load(file), Showable(c)
              PROVE  LET d == ApplyToConfig(FromConfig(c), c) IN
                       /\ d.settings = c.settings /\ d.rules = c.rules /\ d.pause = c.pause
                       /\ Bindings(d) = Bindings(c) /\ Len(d.keys) = Len(c.keys)
  BY DEF PreferencesKeep
<1>1. GoodConfig(c)
  BY LoadGood DEF Contents
<1>. QED  BY <1>1, AppliedKeeps

-----------------------------------------------------------------------------
(* What is loaded of what was written. *)

(* The rows of a window that has the commands of a configuration.           *)
FreshFor(rows, c) ==
  /\ {rows[i].id : i \in DOMAIN rows} = {Rows(c)[i].id : i \in DOMAIN Rows(c)}
  /\ \A i \in DOMAIN rows : rows[i].key \notin Plain

LEMMA FreshRows ==
  ASSUME NEW c, GoodConfig(c), Showable(c), NEW rows, IsRows(rows), FreshFor(rows, c)
  PROVE  /\ Known(rows, c) = {i \in DOMAIN rows : rows[i].id # "pause"}
         /\ Kept(rows, c) = Known(rows, c)
         /\ Paused(rows) = {} <=> c.pause = {}
         /\ DOMAIN rows = {} => c.keys = << >>
<1>. PICK r, n : r = Rows(c) /\ n = Len(c.keys)
  OBVIOUS
<1>1. /\ n \in Nat /\ IsRows(r) /\ n <= Len(r)
      /\ \A i \in 1..n : r[i] = [key |-> c.keys[i].key, id |-> Id[c.keys[i].cmd]]
      /\ \A i \in DOMAIN r : i \notin 1..n => r[i].id = "pause" /\ r[i].key \in c.pause
      /\ \A m \in c.pause : \E i \in DOMAIN r : i \notin 1..n /\ r[i].key = m
  BY RowsParts
<1>2. {rows[i].id : i \in DOMAIN rows} = {r[i].id : i \in DOMAIN r}
  BY DEF FreshFor
<1>3. /\ c.keys \in Seq(Keys) /\ DOMAIN c.keys = 1..n /\ \A i \in 1..n : c.keys[i] \in Keys
  BY DEF GoodConfig
<1>4. \A i \in 1..n : r[i].id = Id[c.keys[i].cmd] /\ r[i].id # "pause"
  <2>1. ASSUME NEW i \in 1..n PROVE r[i].id = Id[c.keys[i].cmd] /\ r[i].id # "pause"
    <3>2. r[i] = [key |-> c.keys[i].key, id |-> Id[c.keys[i].cmd]]
      BY <1>1
    <3>1. r[i].id = Id[c.keys[i].cmd] /\ c.keys[i] \in Keys
      BY <1>3, <3>2
    <3>. QED  BY <3>1, ContentsAssumption DEF Keys
  <2>. QED  BY <2>1
<1>5. ASSUME NEW i \in DOMAIN rows, rows[i].id # "pause" PROVE CommandOf(c, rows[i].id) # {}
  <2>1. PICK j \in DOMAIN r : r[j].id = rows[i].id
    BY <1>2
  <2>2. j \in DOMAIN c.keys /\ rows[i].id = Id[c.keys[j].cmd]
    BY <1>1, <1>3, <1>4, <1>5, <2>1
  <2>3. CommandOf(c, Id[c.keys[j].cmd]) = {c.keys[j].cmd}
    BY <2>2, OwnCommand
  <2>. QED  BY <2>2, <2>3
<1>6. Known(rows, c) = {i \in DOMAIN rows : rows[i].id # "pause"}
  BY <1>5 DEF Known
<1>7. \A i \in DOMAIN rows : rows[i].id # "pause" => IsHotkey(rows[i].key)
  BY PausedRows DEF IsHotkey, FreshFor
<1>8. Kept(rows, c) = Known(rows, c)
  BY <1>7 DEF Known, Kept
<1>9. 1..n \subseteq DOMAIN r
  BY <1>1 DEF IsRows
<1>10. (\A i \in DOMAIN r : r[i].id # "pause") <=> c.pause = {}
  <2>1. ASSUME NEW m \in c.pause PROVE \E i \in DOMAIN r : r[i].id = "pause"
    BY <1>1, <2>1
  <2>2. ASSUME NEW i \in DOMAIN r, r[i].id = "pause" PROVE c.pause # {}
    <3>1. i \notin 1..n
      BY <1>4, <2>2
    <3>. QED  BY <1>1, <3>1
  <2>. QED  BY <2>1, <2>2
<1>11. (\A i \in DOMAIN rows : rows[i].id # "pause") <=> (\A i \in DOMAIN r : r[i].id # "pause")
  BY <1>2
<1>12. Paused(rows) = {} <=> c.pause = {}
  BY <1>10, <1>11, PausedRows
<1>13. DOMAIN rows = {} => c.keys = << >>
  <2>1. ASSUME DOMAIN rows = {} PROVE DOMAIN r = {}
    BY <1>2, <2>1
  <2>2. DOMAIN r = {} => n = 0
    BY <1>1, <1>9
  <2>. QED  BY <1>3, <2>1, <2>2
<1>. QED  BY <1>6, <1>8, <1>12, <1>13

(* What is loaded of the keys the preferences write.                        *)
LEMMA TablePause ==
  ASSUME NEW c, GoodConfig(c), Showable(c), NEW rows, IsRows(rows), FreshFor(rows, c),
         NEW t, Tabulates(t, rows, c)
  PROVE  /\ (IF Pauses(t) = {} /\ ~Disables(t) THEN {"Cmd"} ELSE Pauses(t))
              = (IF Paused(rows) = {} THEN c.pause ELSE Paused(rows))
         /\ BoundNames(t) = {Written(rows[i].key) : i \in Known(rows, c)}
         /\ \A n \in DOMAIN t \ Modifying(DOMAIN t) : t[n] # "pause"
<1>. PICK K, P, Q : K = Known(rows, c) /\ P = Paused(rows) /\ Q = Off(rows, c)
  OBVIOUS
<1>1. /\ DOMAIN t = {Written(rows[i].key) : i \in K} \cup {Written(m) : m \in P \cup Q}
      /\ \A i \in K : \E j \in K : rows[j].key = rows[i].key /\ t[Written(rows[i].key)] = CommandFor(c, rows[j].id)
      /\ \A m \in P : t[Written(m)] = "pause"
      /\ \A m \in Q : t[Written(m)] = "disable"
  BY DEF Tabulates
<1>2. /\ \A i \in K : i \in DOMAIN rows /\ rows[i].key \in Chords /\ CommandFor(c, rows[i].id) \in DOMAIN Id
      /\ P \subseteq Modifiers /\ Q \subseteq Modifiers
  BY PausedRows, CommandsKnown DEF Known, Off, Modifiers, CommandFor
<1>3. \A k : Written(k)[1] = k
  BY DEF Written
<1>4. \A i \in K : t[Written(rows[i].key)] \in DOMAIN Id
  BY <1>1, <1>2
<1>5. Modifying(DOMAIN t) = {Written(m) : m \in P \cup Q}
  <2>1. \A m \in P \cup Q : Written(m) \in DOMAIN t /\ Written(m)[1] \in Modifiers
    BY <1>1, <1>2, <1>3
  <2>2. \A i \in K : Written(rows[i].key)[1] \notin Modifiers
    BY <1>2, <1>3, ContentsAssumption
  <2>. QED  BY <1>1, <2>1, <2>2 DEF Modifying
<1>6. \A i \in K : Written(rows[i].key) \notin Modifying(DOMAIN t)
  BY <1>2, <1>3, ContentsAssumption DEF Modifying
<1>7. BoundNames(t) = {Written(rows[i].key) : i \in K}
  <2>1. ASSUME NEW i \in K PROVE Written(rows[i].key) \in BoundNames(t)
    BY <1>1, <1>4, <1>6, ContentsAssumption DEF BoundNames
  <2>2. ASSUME NEW n \in BoundNames(t) PROVE \E i \in K : n = Written(rows[i].key)
    BY <1>1, <1>5 DEF BoundNames
  <2>. QED  BY <2>1, <2>2
<1>8. \A n \in DOMAIN t \ Modifying(DOMAIN t) : t[n] # "pause"
  BY <1>1, <1>4, <1>5, ContentsAssumption
<1>9. Q # {} => P = {}
  BY DEF Off
<1>10. Pauses(t) = P
  <2>1. ASSUME NEW m \in P PROVE m \in Pauses(t)
    <3>1. Written(m) \in Modifying(DOMAIN t) /\ t[Written(m)] = "pause" /\ Written(m)[1] = m
      BY <1>1, <1>3, <1>5
    <3>. QED  BY <3>1 DEF Pauses
  <2>2. ASSUME NEW m \in Pauses(t) PROVE m \in P
    <3>1. PICK n \in Modifying(DOMAIN t) : t[n] = "pause" /\ n[1] = m
      BY DEF Pauses
    <3>2. PICK l \in P \cup Q : n = Written(l)
      BY <1>5, <3>1
    <3>3. l = m
      BY <1>3, <3>1, <3>2
    <3>. QED  BY <1>1, <3>1, <3>2, <3>3
  <2>. QED  BY <2>1, <2>2
<1>11. Disables(t) <=> Q # {}
  <2>1. ASSUME NEW m \in Q PROVE Disables(t)
    <3>1. Written(m) \in Modifying(DOMAIN t) /\ t[Written(m)] = "disable"
      BY <1>1, <1>5
    <3>. QED  BY <3>1 DEF Disables
  <2>2. ASSUME Disables(t) PROVE Q # {}
    <3>1. PICK n \in Modifying(DOMAIN t) : t[n] = "disable"
      BY <2>2 DEF Disables
    <3>2. PICK l \in P \cup Q : n = Written(l)
      BY <1>5, <3>1
    <3>. QED  BY <1>1, <3>1, <3>2
  <2>. QED  BY <2>1, <2>2
<1>12. P = {} <=> c.pause = {}
  BY FreshRows
<1>13. Q = IF P = {} /\ c.pause = {} THEN {"Cmd"} ELSE {}
  BY DEF Off
<1>14. (IF Pauses(t) = {} /\ ~Disables(t) THEN {"Cmd"} ELSE Pauses(t))
              = (IF P = {} THEN c.pause ELSE P)
  BY <1>10, <1>11, <1>12, <1>13
<1>. QED  BY <1>7, <1>8, <1>14

BindingsOf(keys) == {<<keys[i].key, keys[i].cmd>> : i \in DOMAIN keys}

LEMMA TableBindings ==
  ASSUME NEW c, GoodConfig(c), Showable(c), NEW rows, IsRows(rows), FreshFor(rows, c),
         NEW t, Tabulates(t, rows, c), NEW keys, Binds(keys, t),
         NEW built, built = BuildKeys(rows, c), ~Twice(built)
  PROVE  BindingsOf(keys) = BindingsOf(built)
<1>. PICK K, N, n : K = Known(rows, c) /\ N = BoundNames(t) /\ n = Cardinality(K)
  OBVIOUS
<1>1. K = Kept(rows, c)
  BY FreshRows
<1>2. N = {Written(rows[i].key) : i \in K}
  BY TablePause
<1>3. \A i \in K : \E j \in K : rows[j].key = rows[i].key /\ t[Written(rows[i].key)] = CommandFor(c, rows[j].id)
  BY DEF Tabulates
<1>4. Builds(built, rows, c)
  BY KeysBuilt
<1>5. PICK o : /\ Lists(o, K) /\ DOMAIN built = 1..n
               /\ built = [k \in 1..n |-> [key |-> rows[o[k]].key, cmd |-> CommandFor(c, rows[o[k]].id)]]
  BY <1>1, <1>4 DEF Builds
<1>6. PICK b, l : /\ Lists(b, N) /\ l = Cardinality(N) /\ DOMAIN keys = 1..l
                  /\ keys = [i \in 1..l |-> [key |-> b[i][1], cmd |-> t[b[i]]]]
  BY DEF Binds
<1>7. /\ \A k \in 1..n : o[k] \in K
      /\ \A i \in K : \E k \in 1..n : o[k] = i
  BY <1>5 DEF Lists
<1>8. ASSUME NEW k \in 1..n
      PROVE  built[k].key = rows[o[k]].key /\ built[k].cmd = CommandFor(c, rows[o[k]].id)
  <2>1. built[k] = [key |-> rows[o[k]].key, cmd |-> CommandFor(c, rows[o[k]].id)]
    BY <1>5
  <2>. QED  BY <2>1
<1>9. ASSUME NEW i \in K, NEW j \in K, rows[i].key = rows[j].key PROVE i = j
  <2>1. PICK k \in 1..n, m \in 1..n : o[k] = i /\ o[m] = j
    BY <1>7
  <2>2. built[k].key = built[m].key
    BY <1>8, <1>9, <2>1
  <2>3. k = m
    BY <1>5, <2>2 DEF Twice
  <2>. QED  BY <2>1, <2>3
<1>10. \A i \in K : t[Written(rows[i].key)] = CommandFor(c, rows[i].id)
  BY <1>3, <1>9
<1>11. /\ \A k \in 1..l : b[k] \in N
       /\ \A x \in N : \E k \in 1..l : b[k] = x
  BY <1>6 DEF Lists
<1>12. ASSUME NEW k \in 1..l PROVE keys[k].key = b[k][1] /\ keys[k].cmd = t[b[k]]
  <2>1. keys[k] = [key |-> b[k][1], cmd |-> t[b[k]]]
    BY <1>6
  <2>. QED  BY <2>1
<1>13. \A k : Written(k)[1] = k
  BY DEF Written
<1>14. ASSUME NEW k \in DOMAIN keys
       PROVE  \E m \in DOMAIN built : built[m].key = keys[k].key /\ built[m].cmd = keys[k].cmd
  <2>1. k \in 1..l
    BY <1>6
  <2>2. PICK i \in K : b[k] = Written(rows[i].key)
    BY <1>2, <1>11, <2>1
  <2>3. PICK m \in 1..n : o[m] = i
    BY <1>7
  <2>4. keys[k].key = rows[i].key /\ keys[k].cmd = CommandFor(c, rows[i].id)
    BY <1>10, <1>12, <1>13, <2>1, <2>2
  <2>. QED  BY <1>5, <1>8, <2>3, <2>4
<1>15. ASSUME NEW m \in DOMAIN built
       PROVE  \E k \in DOMAIN keys : built[m].key = keys[k].key /\ built[m].cmd = keys[k].cmd
  <2>. PICK i : i = o[m]
    OBVIOUS
  <2>1. m \in 1..n /\ i \in K
    BY <1>5, <1>7
  <2>2. Written(rows[i].key) \in N
    BY <1>2, <2>1
  <2>3. PICK k \in 1..l : b[k] = Written(rows[i].key)
    BY <1>11, <2>2
  <2>4. keys[k].key = rows[i].key /\ keys[k].cmd = CommandFor(c, rows[i].id)
    BY <1>10, <1>12, <1>13, <2>1, <2>3
  <2>. QED  BY <1>6, <1>8, <2>1, <2>3, <2>4
<1>16. BindingsOf(keys) \subseteq BindingsOf(built)
  BY <1>14 DEF BindingsOf
<1>17. BindingsOf(built) \subseteq BindingsOf(keys)
  BY <1>15 DEF BindingsOf
<1>. QED  BY <1>16, <1>17

(* What a restart would load, and what runs.                                *)
Keeps(c, d, old) ==
  /\ \A s \in Shown \cup Hidden : c.settings[s] = d.settings[s] \/ (s \notin Saved /\ d.settings[s] # old.settings[s])
  /\ BindingsOf(c.keys) = BindingsOf(d.keys) /\ c.rules = d.rules /\ c.pause = d.pause

LEMMA SettingsWritten ==
  ASSUME NEW v, GoodView(v), NEW f, NEW c, GoodConfig(c), c.settings = Over(f.settings, Default.settings), f.toml,
         NEW e, e.settings = Over(WritePreferences(v, f).settings, Default.settings),
         NEW d, d.settings = Over(v.settings, c.settings)
  PROVE  \A s \in Shown \cup Hidden :
            e.settings[s] = d.settings[s] \/ (s \notin Saved /\ d.settings[s] # c.settings[s])
<1>. TAKE s \in Shown \cup Hidden
<1>1. s \in DOMAIN Default.settings /\ s \in DOMAIN c.settings
  BY ContentsAssumption DEF GoodConfig
<1>2. v.settings = [x \in Shown |-> v.settings[x]]
  BY DEF GoodView
<1>. PICK w : w = [x \in Saved |-> v.settings[x]]
  OBVIOUS
<1>3. DOMAIN w = Saved /\ \A x \in Saved : w[x] = v.settings[x]
  OBVIOUS
<1>4. WritePreferences(v, f).settings = Over(w, f.settings)
  BY DEF WritePreferences
<1>5. DOMAIN v.settings = Shown
  BY <1>2
<1>6. d.settings[s] = IF s \in Shown THEN v.settings[s] ELSE c.settings[s]
  BY <1>1, <1>5 DEF Over
<1>7. c.settings[s] = IF s \in DOMAIN f.settings THEN f.settings[s] ELSE Default.settings[s]
  BY <1>1 DEF Over
<1>8. e.settings[s] = IF s \in Saved THEN v.settings[s] ELSE c.settings[s]
  <2>. PICK g : g = Over(w, f.settings)
    OBVIOUS
  <2>1. /\ DOMAIN g = Saved \cup DOMAIN f.settings
        /\ s \in DOMAIN g => g[s] = IF s \in Saved THEN w[s] ELSE f.settings[s]
    BY <1>3 DEF Over
  <2>2. e.settings[s] = IF s \in DOMAIN g THEN g[s] ELSE Default.settings[s]
    BY <1>1, <1>4 DEF Over
  <2>. QED  BY <1>3, <1>7, <2>1, <2>2
<1>9. Saved \subseteq Shown /\ Shown \cap Hidden = {}
  BY SettingsAssumption
<1>. QED  BY <1>6, <1>8, <1>9

(* A file without keys to write keeps its own.                              *)
LEMMA OldKeys ==
  ASSUME NEW f, NEW g, g.keys = f.keys,
         MergeSettings(Default, g)["default_keys"] = MergeSettings(Default, f)["default_keys"]
  PROVE  Merge(Default, g).keys = Merge(Default, f).keys
BY DEF Merge

LEMMA SameKeys ==
  ASSUME NEW m, NEW k, m.keys = k.keys
  PROVE  Validated(m).keys = Validated(k).keys
BY DEF Validated

LEMMA RestartLoads ==
  ASSUME NEW v, GoodView(v), NEW f, GoodFile(f), NEW c, Load(f) = {c}, Showable(c), FreshFor(v.rows, c),
         ~c.settings["default_keys"], NEW d, d = ApplyToConfig(v, c), ~Twice(d.keys)
  PROVE  \E e \in Load(WritePreferences(v, f)) : Keeps(e, d, c)
<1>. PICK g : g = WritePreferences(v, f)
  OBVIOUS
<1>. PICK mf, mg, e : mf = Merge(Default, f) /\ mg = Merge(Default, g) /\ e = Validated(mg)
  OBVIOUS
<1>. PICK rows : rows = v.rows
  OBVIOUS
<1>1. GoodConfig(c) /\ f.toml /\ c = Validated(mf) /\ Loaded(f) = c
  <2>1. c \in Load(f)
    OBVIOUS
  <2>2. Loaded(f) = c
    BY DEF Loaded
  <2>. QED  BY <2>1, <2>2, LoadGood, LoadIs
<1>2. \A n \in DOMAIN mf.keys \ Modifying(DOMAIN mf.keys) : mf.keys[n] # "pause"
  BY LoadIs
<1>3. GoodFile(g)
  BY WriteGood
<1>4. /\ IsTable(mf.keys) /\ mf.settings = Over(f.settings, Default.settings)
      /\ IsTable(mg.keys) /\ mg.settings = Over(g.settings, Default.settings)
      /\ mg.rules = IF g.rules # {} THEN g.rules ELSE Default.rules
  BY <1>3, MergeGood
<1>5. /\ c.settings = mf.settings
      /\ c.pause = IF Pauses(mf.keys) = {} /\ ~Disables(mf.keys) THEN {"Cmd"} ELSE Pauses(mf.keys)
  BY <1>1, <1>4, ValidatedParts
<1>6. /\ e.settings = mg.settings /\ e.rules = UNION mg.rules
      /\ e.pause = IF Pauses(mg.keys) = {} /\ ~Disables(mg.keys) THEN {"Cmd"} ELSE Pauses(mg.keys)
      /\ Binds(e.keys, mg.keys)
  BY <1>4, ValidatedParts
<1>7. /\ d.settings = Over(v.settings, c.settings) /\ d.rules = {Rule(r) : r \in v.rules}
      /\ d.keys = BuildKeys(rows, c)
      /\ d.pause = IF Paused(rows) = {} THEN c.pause ELSE Paused(rows)
  BY DEF ApplyToConfig
<1>8. /\ g.toml = TRUE /\ g.rules = IF v.rules = {} THEN {} ELSE {v.rules}
      /\ g.keys = IF KeysToWrite(v, f) = {} THEN f.keys ELSE KeysToWrite(v, f)
  BY <1>1 DEF WritePreferences
<1>9. \A s \in Shown \cup Hidden :
         e.settings[s] = d.settings[s] \/ (s \notin Saved /\ d.settings[s] # c.settings[s])
  <2>1. c.settings = Over(f.settings, Default.settings) /\ e.settings = Over(WritePreferences(v, f).settings, Default.settings)
    BY <1>4, <1>5, <1>6
  <2>. QED  BY <1>1, <1>7, <2>1, SettingsWritten
<1>10. e.rules = d.rules
  <2>1. \A r \in v.rules : Rule(r) = r
    BY DEF GoodView, Rule
  <2>2. d.rules = v.rules
    BY <1>7, <2>1
  <2>3. UNION Default.rules = {}
    BY ContentsAssumption
  <2>4. UNION {v.rules} = v.rules
    OBVIOUS
  <2>. QED  BY <1>4, <1>6, <1>8, <2>2, <2>3, <2>4
<1>11. ~e.settings["default_keys"]
  <2>1. "default_keys" \in Hidden /\ "default_keys" \notin Saved /\ "default_keys" \notin Shown
    BY SettingsAssumption, ContentsAssumption
  <2>2. d.settings["default_keys"] = c.settings["default_keys"]
    BY <1>1, <1>7, <2>1 DEF Over, GoodConfig, GoodView
  <2>. QED  BY <1>9, <2>1, <2>2
<1>12. IsRows(rows) /\ FreshFor(rows, c)
  BY DEF GoodView
<1>13. /\ Known(rows, c) = {i \in DOMAIN rows : rows[i].id # "pause"}
       /\ Kept(rows, c) = Known(rows, c)
       /\ Paused(rows) = {} <=> c.pause = {}
       /\ DOMAIN rows = {} => c.keys = << >>
  BY <1>1, <1>12, FreshRows
<1>14. CASE KeysToWrite(v, f) = {}
  <2>1. rows = << >>
    <3>1. \/ rows = << >> \/ (Known(rows, c) = {} /\ Paused(rows) = {} /\ c.pause # {})
          \/ \E t : KeysToWrite(v, f) = {t}
      BY <1>1, KeysWritten
    <3>. QED  BY <1>13, <1>14, <3>1
  <2>2. DOMAIN rows = {}
    BY <2>1
  <2>3. c.keys = << >> /\ Paused(rows) = {}
    BY <1>13, <2>2 DEF Paused
  <2>4. BindingsOf(d.keys) = {}
    <3>1. Kept(rows, c) = {}
      BY <2>2 DEF Kept
    <3>2. Builds(d.keys, rows, c)
      BY <1>1, <1>7, <1>12, KeysBuilt
    <3>3. DOMAIN d.keys = 1..Cardinality({})
      BY <3>1, <3>2 DEF Builds
    <3>4. DOMAIN d.keys = {}
      BY <3>3, FS_EmptySet
    <3>. QED  BY <3>4 DEF BindingsOf
  <2>5. mg.keys = mf.keys
    <3>1. g.keys = f.keys
      BY <1>8, <1>14
    <3>2. MergeSettings(Default, g) = e.settings /\ MergeSettings(Default, f) = c.settings
      BY <1>4, <1>5, <1>6 DEF MergeSettings
    <3>3. MergeSettings(Default, g)["default_keys"] = MergeSettings(Default, f)["default_keys"]
      <4>1. "default_keys" \in Hidden /\ "default_keys" \notin Saved /\ "default_keys" \notin Shown
        BY SettingsAssumption, ContentsAssumption
      <4>2. d.settings["default_keys"] = c.settings["default_keys"]
        BY <1>1, <1>7, <4>1 DEF Over, GoodConfig, GoodView
      <4>. QED  BY <1>9, <3>2, <4>1, <4>2
    <3>. QED  BY <3>1, <3>3, OldKeys
  <2>6. e.keys = c.keys /\ e.pause = c.pause
    <3>3. e.keys = c.keys
      BY <1>1, <2>5, SameKeys
    <3>. QED  BY <1>5, <1>6, <2>5, <3>3
  <2>7. BindingsOf(e.keys) = {}
    BY <2>3, <2>6 DEF BindingsOf
  <2>8. Keeps(e, d, c)
    BY <1>7, <1>9, <1>10, <2>3, <2>4, <2>6, <2>7 DEF Keeps
  <2>9. e \in Load(g)
    BY <1>2, <1>8, <2>5 DEF Load
  <2>. QED  BY <2>8, <2>9
<1>15. CASE KeysToWrite(v, f) # {}
  <2>1. PICK t : KeysToWrite(v, f) = {t} /\ Tabulates(t, rows, c)
    BY <1>1, <1>15, KeysWritten
  <2>2. g.keys = {t}
    BY <1>8, <2>1
  <2>3. DOMAIN mg.keys = DOMAIN t /\ \A n \in DOMAIN t : mg.keys[n] = t[n]
    <3>1. ~Over(g.settings, Default.settings)["default_keys"]
      BY <1>4, <1>6, <1>11
    <3>2. \E u \in g.keys : DOMAIN Merge(Default, g).keys = DOMAIN u
                              /\ \A n \in DOMAIN u : Merge(Default, g).keys[n] = u[n]
      BY <1>3, <2>2, <3>1, MergeGood
    <3>. QED  BY <2>2, <3>2
  <2>. PICK k : k = mg.keys
    OBVIOUS
  <2>4. Tabulates(k, rows, c)
    BY <2>1, <2>3 DEF Tabulates
  <2>5. e.pause = d.pause
    BY <1>1, <1>6, <1>7, <1>12, <2>4, TablePause
  <2>6. \A n \in DOMAIN k \ Modifying(DOMAIN k) : k[n] # "pause"
    BY <1>1, <1>12, <2>4, TablePause
  <2>7. Binds(e.keys, k)
    BY <1>6
  <2>8. BindingsOf(e.keys) = BindingsOf(d.keys)
    BY <1>1, <1>7, <1>12, <2>4, <2>7, TableBindings
  <2>9. Keeps(e, d, c)
    BY <1>9, <1>10, <2>5, <2>8 DEF Keeps
  <2>10. e \in Load(g)
    BY <1>8, <2>6 DEF Load
  <2>. QED  BY <2>9, <2>10
<1>. QED  BY <1>14, <1>15

-----------------------------------------------------------------------------
(* Who saves. *)

(* Only the window sends a configuration without having been asked to.      *)
LEMMA OnlySaved ==
  ASSUME Shape, ~alive => view = {}, [Next]_vars, Saves
  PROVE  DebouncedSave \/ \E id \in Identifiers, key \in Chords \cup Modifiers : UpdateHotkey(id, key)
<1>. PICK q, s : q = inbox["wm"] /\ s = inbox["sm"]
  OBVIOUS
<1>1. /\ IsQueue(q) /\ IsQueue(s) /\ view # {} /\ alive /\ port' = port
      /\ Len(inbox'["wm"]) > Len(q) /\ inbox'["sm"] = s
      /\ Len(q) \in Nat /\ Len(s) \in Nat
  <2>1. IsQueue(q) /\ IsQueue(s)
    BY ActorsDiffer DEF Shape
  <2>2. Len(q) \in Nat /\ Len(s) \in Nat
    BY <2>1, Push
  <2>. QED  BY <2>1, <2>2 DEF Saves
<1>2. ~(inbox' = inbox)
  BY <1>1
<1>3. ~(\E a \in Actors : inbox[a] # << >> /\ inbox'["wm"] = Rest(a)["wm"])
  <2>. SUFFICES ASSUME NEW a \in Actors, inbox[a] # << >>, inbox'["wm"] = Rest(a)["wm"] PROVE FALSE
    OBVIOUS
  <2>1. CASE a = "wm"
    <3>1. q # << >> /\ inbox'["wm"] = Tail(q)
      BY <2>1, RestShape
    <3>2. Len(Tail(q)) = Len(q) - 1
      BY <1>1, <3>1, Pop
    <3>. QED  BY <1>1, <3>1, <3>2
  <2>2. CASE a # "wm"
    <3>1. inbox'["wm"] = q
      BY <2>2, ActorsDiffer, RestShape
    <3>. QED  BY <1>1, <3>1
  <2>. QED  BY <2>1, <2>2
<1>4. ~Ended
  <2>1. ASSUME Ended PROVE inbox'["wm"] = << >>
    BY <2>1, ActorsDiffer DEF Ended
  <2>2. Len(<< >>) = 0
    OBVIOUS
  <2>. QED  BY <1>1, <2>1, <2>2
<1>5. ~WmConfigUpdated
  <2>1. ASSUME WmConfigUpdated PROVE inbox["wm"] # << >> /\ inbox'["wm"] = Rest("wm")["wm"]
    <3>1. PICK c : inbox' = Send(Rest("wm"), Listeners \cup {"sm"}, ConfigUpdated(c))
      BY <2>1 DEF WmConfigUpdated
    <3>2. "wm" \notin Listeners \cup {"sm"}
      BY ActorsDiffer
    <3>. QED  BY <2>1, <3>1, <3>2, ActorsDiffer DEF WmConfigUpdated, Take, Send
  <2>. QED  BY <1>3, <2>1, ActorsDiffer
<1>6. ~WmHotkeysActive
  <2>1. ASSUME WmHotkeysActive PROVE inbox["wm"] # << >> /\ inbox' = Rest("wm")
    BY <1>4, <2>1 DEF WmHotkeysActive, Take
  <2>. QED  BY <1>3, <2>1, ActorsDiffer
<1>7. ~SmConfigUpdated
  <2>. SUFFICES ASSUME SmConfigUpdated PROVE FALSE
    OBVIOUS
  <2>1. inbox["sm"] # << >> /\ inbox' = Send(Send(Rest("sm"), {"reactor"}, Head(inbox["sm"])), {"wm"}, HotkeysActive)
    BY DEF SmConfigUpdated, Take
  <2>2. Rest("sm")["sm"] = Tail(s)
    BY <2>1, ActorsDiffer, RestShape
  <2>3. inbox'["sm"] = Tail(s)
    BY <2>1, <2>2, ActorsDiffer DEF Send
  <2>4. Len(Tail(s)) = Len(s) - 1
    BY <1>1, <2>1, Pop
  <2>5. s = Tail(s)
    BY <1>1, <2>3
  <2>6. Len(s) = Len(s) - 1
    BY <2>4, <2>5
  <2>. QED  BY <1>1, <2>6
<1>8. ~(\E a \in Listeners \cup {"reactor"} : Received(a))
  <2>. SUFFICES ASSUME NEW a \in Listeners \cup {"reactor"}, Received(a) PROVE FALSE
    OBVIOUS
  <2>1. inbox[a] # << >> /\ inbox' = Rest(a)
    BY DEF Received, Take
  <2>. QED  BY <1>3, <2>1, ActorsDiffer
<1>9. ~OpenPreferences /\ ~(\E x \in Shown : ChangeSetting(x)) /\ ~(\E x \in {{}, {"app"}} : ChangeRules(x))
  BY <1>2 DEF OpenPreferences, ChangeSetting, ChangeRules, Changed, programVars
<1>10. ~(\E f \in Files : Edit(f)) /\ ~Watch /\ ~UpdateConfig /\ ~SendRequest /\ ~TimeOut
  BY <1>2 DEF Edit, Watch, UpdateConfig, SendRequest, TimeOut, programVars
<1>11. ~Quit /\ ~Start
  BY <1>1, <1>4 DEF Quit, Start
<1>12. ~OnRequest
  <2>. SUFFICES ASSUME OnRequest PROVE FALSE
    OBVIOUS
  <2>1. port # << >> /\ port' = Tail(port) /\ IsQueue(port)
    BY DEF OnRequest, Shape
  <2>2. Len(port) \in Nat /\ Len(Tail(port)) = Len(port) - 1
    BY <2>1, Pop
  <2>. QED  BY <1>1, <2>1, <2>2
<1>13. vars' # vars
  BY <1>2 DEF vars, programVars
<1>. QED  BY <1>5, <1>6, <1>7, <1>8, <1>9, <1>10, <1>11, <1>12, <1>13 DEF Next

(* What is saved has the commands of the window it was shown in.            *)
LEMMA SavedIsFresh ==
  ASSUME Shape, Contents, ~alive => view = {}, [Next]_vars, Saves, Fresh
  PROVE  \E v : GoodView(v) /\ FreshFor(v.rows, current) /\ SaveToConfig(v)
<1>1. \A v \in view : GoodView(v) /\ FreshFor(v.rows, current)
  BY DEF Contents, Fresh, FreshFor
<1>2. CASE DebouncedSave
  BY <1>1, <1>2 DEF DebouncedSave
<1>3. ASSUME NEW id \in Identifiers, NEW key \in Chords \cup Modifiers, UpdateHotkey(id, key)
      PROVE  \E v : GoodView(v) /\ FreshFor(v.rows, current) /\ SaveToConfig(v)
  <2>1. PICK v \in view : \E i \in DOMAIN v.rows :
           /\ v.rows[i].id = id /\ key \notin Plain /\ (key \in Modifiers <=> id = "pause")
           /\ SaveToConfig([v EXCEPT !.rows[i].key = key])
    BY <1>3 DEF UpdateHotkey
  <2>2. PICK i \in DOMAIN v.rows :
           /\ v.rows[i].id = id /\ key \notin Plain /\ (key \in Modifiers <=> id = "pause")
           /\ SaveToConfig([v EXCEPT !.rows[i].key = key])
    BY <2>1
  <2>3. GoodView(v) /\ FreshFor(v.rows, current)
    BY <1>1
  <2>. DEFINE w == [v EXCEPT !.rows[i].key = key]
  <2>4. GoodView(w) /\ DOMAIN w.rows = DOMAIN v.rows
        /\ \A j \in DOMAIN v.rows : w.rows[j].id = v.rows[j].id
                                    /\ w.rows[j].key = IF j = i THEN key ELSE v.rows[j].key
    BY <2>2, <2>3, RowChanged
  <2>. HIDE DEF w
  <2>5. \A x : (\E j \in DOMAIN w.rows : x = w.rows[j].id) <=> (\E j \in DOMAIN v.rows : x = v.rows[j].id)
    BY <2>4
  <2>6. {w.rows[j].id : j \in DOMAIN w.rows} = {v.rows[j].id : j \in DOMAIN v.rows}
    BY <2>5
  <2>7. \A j \in DOMAIN w.rows : w.rows[j].key \notin Plain
    BY <2>2, <2>3, <2>4 DEF FreshFor
  <2>8. FreshFor(w.rows, current)
    BY <2>3, <2>6, <2>7 DEF FreshFor
  <2>9. SaveToConfig(w)
    BY <2>2 DEF w
  <2>. QED  BY <2>4, <2>8, <2>9
<1>. QED  BY <1>2, <1>3, OnlySaved

LEMMA RestartStep ==
  ASSUME Shape, Contents, ~alive => view = {}, [Next]_vars,
         Saves, ~lastError', Load(file) = {current}, Showable(current), Fresh,
         ~current.settings["default_keys"], ~Twice(current'.keys)
  PROVE  \E c \in Load(file') :
            /\ \A s \in Shown \cup Hidden :
                 \/ c.settings[s] = current'.settings[s]
                 \/ s \notin Saved /\ current'.settings[s] # current.settings[s]
            /\ Bindings(c) = Bindings(current')
            /\ c.rules = current'.rules
            /\ c.pause = current'.pause
<1>1. PICK v : GoodView(v) /\ FreshFor(v.rows, current) /\ SaveToConfig(v)
  BY SavedIsFresh
<1>. PICK d : d = ApplyToConfig(v, current)
  OBVIOUS
<1>2. current' = d
  BY <1>1 DEF SaveToConfig
<1>3. file' = WritePreferences(v, file)
  BY <1>1 DEF SaveToConfig
<1>4. \E e \in Load(WritePreferences(v, file)) : Keeps(e, d, current)
  <2>1. ~Twice(d.keys)
    BY <1>2
  <2>2. GoodFile(file)
    BY DEF Contents
  <2>. QED  BY <1>1, <2>1, <2>2, RestartLoads
<1>5. PICK e \in Load(file') : Keeps(e, d, current)
  BY <1>3, <1>4
<1>6. Bindings(e) = Bindings(current')
  BY <1>2, <1>5 DEF Keeps, Bindings, BindingsOf
<1>. QED  BY <1>2, <1>5, <1>6 DEF Keeps

-----------------------------------------------------------------------------
(* What is loaded, sent, shown and written is always a configuration, or a  *)
(* view or a file of one: with every setting, and commands that are known.  *)
THEOREM ContentsInvariant == Spec => []Contents
<1>1. SInv /\ Contents /\ [Next]_vars => Contents'
  BY NextContents DEF SInv
<1>. QED  BY <1>1, InitContents, SettingsInvariant, PTL DEF Spec

(* Applied as they are shown, the preferences change nothing but the order  *)
(* of the keys of a configuration that they can show.                       *)
THEOREM PreferencesKeepHolds == Spec => []PreferencesKeep
<1>. QED  BY KeepsIfGood, ContentsInvariant, PTL

(* When the preferences are saved while file and program agree, a restart   *)
(* loads what runs.                                                         *)
THEOREM RestartKeepsHolds == Spec => RestartKeeps
<1>1. SInv /\ Contents /\ [Next]_vars =>
        [Saves /\ ~lastError' /\ Load(file) = {current} /\ Showable(current) /\ Fresh
           /\ ~current.settings["default_keys"] /\ ~Twice(current'.keys)
         => \E c \in Load(file') :
              /\ \A s \in Shown \cup Hidden :
                   \/ c.settings[s] = current'.settings[s]
                   \/ s \notin Saved /\ current'.settings[s] # current.settings[s]
              /\ Bindings(c) = Bindings(current')
              /\ c.rules = current'.rules
              /\ c.pause = current'.pause]_vars
  BY RestartStep DEF SInv, Client
<1>. QED  BY <1>1, SettingsInvariant, ContentsInvariant, PTL DEF Spec, RestartKeeps
=============================================================================
