------------------------- MODULE LayoutMappingProofs -------------------------
(***************************************************************************)
(* The counts of SpaceLayoutMapping are exact, for every set of spaces,    *)
(* sizes and layouts: layouts are counted by hand (increment_ref and       *)
(* decrement_ref), and one is removed when its count is zero, so this is   *)
(* what keeps a layout that some size remembers.                           *)
(***************************************************************************)
EXTENDS LayoutMapping, FiniteSetTheorems, TLAPS

Typed(m) ==
  /\ m \in [size : Size, active : Layout, retained : BOOLEAN,
            memory : [DOMAIN m.memory -> Layout], refs : [DOMAIN m.refs -> Int]]
  /\ DOMAIN m.memory \subseteq Size /\ IsFiniteSet(DOMAIN m.memory)
  /\ DOMAIN m.refs \subseteq Layout

(* What a space uses it owns. *)
OwnsWhatItUses(m) ==
  m.active \in DOMAIN m.refs /\ \A z \in DOMAIN m.memory : m.memory[z] \in DOMAIN m.refs

Exact(m) == \A l \in DOMAIN m.refs : m.refs[l] = Users(m, l)

Good(m) == Typed(m) /\ OwnsWhatItUses(m) /\ Exact(m)

Apart == \A r, s \in Exposed : r # s => DOMAIN mapping[r].refs \cap DOMAIN mapping[s].refs = {}

(* What a use, or the memory of a size, adds to the count of a layout. *)
Same(k, l) == IF k = l THEN 1 ELSE 0
Held(m, z, k) == IF z \in DOMAIN m.memory /\ m.memory[z] = k THEN 1 ELSE 0

MInv == (\A s \in Exposed : Good(mapping[s])) /\ Apart

-----------------------------------------------------------------------------
(* Those that remember a layout are finitely many, and none if it is not   *)
(* the layout of any size.                                                 *)
LEMMA RememberingFinite ==
  ASSUME NEW m, IsFiniteSet(DOMAIN m.memory), NEW l
  PROVE  IsFiniteSet(Remembering(m, l)) /\ Cardinality(Remembering(m, l)) \in Nat
BY FS_Subset, FS_CardinalityType DEF Remembering

(* A layout in use has users. *)
LEMMA UsedHasUsers ==
  ASSUME NEW m, IsFiniteSet(DOMAIN m.memory), NEW l,
         m.active = l \/ \E z \in DOMAIN m.memory : m.memory[z] = l
  PROVE  Users(m, l) \in Int /\ Users(m, l) > 0
<1>1. IsFiniteSet(Remembering(m, l)) /\ Cardinality(Remembering(m, l)) \in Nat
  BY RememberingFinite
<1>2. CASE m.active = l
  BY <1>1, <1>2 DEF Users
<1>3. CASE \E z \in DOMAIN m.memory : m.memory[z] = l
  <2>1. Remembering(m, l) # {}
    BY <1>3 DEF Remembering
  <2>2. Cardinality(Remembering(m, l)) # 0
    BY <1>1, <2>1, FS_EmptySet
  <2>. QED  BY <1>1, <2>2 DEF Users
<1>. QED  BY <1>2, <1>3

(* A size that comes to remember a layout: the layout has one more that    *)
(* remember it, the layout it remembered before one less.                  *)
LEMMA RememberingAfter ==
  ASSUME NEW m, NEW n, NEW z, NEW l, NEW k,
         IsFiniteSet(DOMAIN m.memory), n.memory = Remember(m.memory, z, l)
  PROVE  Cardinality(Remembering(n, k)) =
           Cardinality(Remembering(m, k)) + Same(k, l) - Held(m, z, k)
<1>. DEFINE R == Remembering(m, k)  Q == Remembering(n, k)
<1>1. IsFiniteSet(R) /\ Cardinality(R) \in Nat
  BY RememberingFinite
<1>2. /\ DOMAIN n.memory = DOMAIN m.memory \cup {z}
      /\ \A y \in DOMAIN n.memory : n.memory[y] = IF y = z THEN l ELSE m.memory[y]
  BY DEF Remember
<1>3. CASE k = l
  <2>1. Q = R \cup {z}
    BY <1>2, <1>3 DEF Remembering
  <2>2. z \in R <=> z \in DOMAIN m.memory /\ m.memory[z] = k
    BY DEF Remembering
  <2>3. Cardinality(Q) = IF z \in R THEN Cardinality(R) ELSE Cardinality(R) + 1
    BY <1>1, <2>1, FS_AddElement
  <2>. QED  BY <1>1, <1>3, <2>2, <2>3 DEF Same, Held
<1>4. CASE k # l
  <2>1. Q = R \ {z}
    BY <1>2, <1>4 DEF Remembering
  <2>2. z \in R <=> z \in DOMAIN m.memory /\ m.memory[z] = k
    BY DEF Remembering
  <2>3. Cardinality(Q) = IF z \in R THEN Cardinality(R) - 1 ELSE Cardinality(R)
    BY <1>1, <2>1, FS_RemoveElement
  <2>. QED  BY <1>1, <1>4, <2>2, <2>3 DEF Same, Held
<1>. QED  BY <1>3, <1>4

-----------------------------------------------------------------------------
(* Counting a layout that is owned leaves the others alone. *)
LEMMA CountedUp ==
  ASSUME NEW D, NEW refs \in [D -> Int], NEW l \in D
  PROVE  /\ Increment(refs, l) \in [D -> Int]
         /\ \A k \in D : Increment(refs, l)[k] = refs[k] + Same(k, l)
<1>1. DOMAIN refs \cup {l} = D
  OBVIOUS
<1>. QED  BY <1>1 DEF Increment, Same

LEMMA CountedDown ==
  ASSUME NEW D, NEW refs \in [D -> Int], NEW l \in D
  PROVE  /\ Decrement(refs, l) \in [D -> Int]
         /\ \A k \in D : Decrement(refs, l)[k] = refs[k] - Same(k, l)
<1>1. DOMAIN refs \cup {l} = D
  OBVIOUS
<1>. QED  BY <1>1 DEF Decrement, Same

(* Users, in numbers. *)
LEMMA UsersSum ==
  ASSUME NEW m, IsFiniteSet(DOMAIN m.memory), NEW l
  PROVE  /\ Cardinality(Remembering(m, l)) \in Nat
         /\ Users(m, l) = Cardinality(Remembering(m, l)) + Same(l, m.active)
BY RememberingFinite DEF Users, Same

(* The first part of activate_size. *)
LEMMA SavedGood ==
  ASSUME NEW m, Good(m)
  PROVE  Good(Saved(m)) /\ DOMAIN Saved(m).refs = DOMAIN m.refs
<1>1. CASE ~m.retained
  BY <1>1 DEF Saved
<1>2. CASE m.retained
  <2>. DEFINE n == Saved(m)  D == DOMAIN m.refs
  <2>1. /\ m.refs \in [D -> Int] /\ m.active \in D /\ m.active \in Layout /\ m.size \in Size
        /\ m.memory \in [DOMAIN m.memory -> Layout]
        /\ \A z \in DOMAIN m.memory : m.memory[z] \in D
        /\ IsFiniteSet(DOMAIN m.memory)
    BY DEF Good, Typed, OwnsWhatItUses
  <2>2. /\ n.size = m.size /\ n.active = m.active /\ n.retained = m.retained
        /\ n.memory = Remember(m.memory, m.size, m.active)
        /\ n.refs = IF m.size \in DOMAIN m.memory
                    THEN Decrement(Increment(m.refs, m.active), m.memory[m.size])
                    ELSE Increment(m.refs, m.active)
        /\ n = [size |-> n.size, active |-> n.active, retained |-> n.retained,
                memory |-> n.memory, refs |-> n.refs]
    BY <1>2 DEF Good, Typed, Saved
  <2>3. /\ n.refs \in [D -> Int]
        /\ \A k \in D : n.refs[k] = m.refs[k] + Same(k, m.active) - Held(m, m.size, k)
    <3>1. /\ Increment(m.refs, m.active) \in [D -> Int]
          /\ \A k \in D : Increment(m.refs, m.active)[k] = m.refs[k] + Same(k, m.active)
      BY <2>1, CountedUp
    <3>2. CASE m.size \in DOMAIN m.memory
      <4>1. m.memory[m.size] \in D
        BY <2>1, <3>2
      <4>. DEFINE r == Increment(m.refs, m.active)
      <4>. HIDE DEF r
      <4>2. r \in [D -> Int] /\ n.refs = Decrement(r, m.memory[m.size])
        BY <2>2, <3>1, <3>2 DEF r
      <4>3. /\ n.refs \in [D -> Int]
            /\ \A k \in D : n.refs[k] = r[k] - Same(k, m.memory[m.size])
        BY <4>1, <4>2, CountedDown
      <4>4. \A k \in D : r[k] = m.refs[k] + Same(k, m.active) /\ m.refs[k] \in Int
        BY <2>1, <3>1 DEF r
      <4>. QED  BY <3>2, <4>3, <4>4 DEF Same, Held
    <3>3. CASE m.size \notin DOMAIN m.memory
      BY <2>1, <2>2, <3>1, <3>3 DEF Same, Held
    <3>. QED  BY <3>2, <3>3
  <2>4. /\ DOMAIN n.memory = DOMAIN m.memory \cup {m.size}
        /\ n.memory \in [DOMAIN n.memory -> Layout]
        /\ \A z \in DOMAIN n.memory : n.memory[z] \in D
        /\ IsFiniteSet(DOMAIN n.memory)
    BY <2>1, <2>2, FS_AddElement DEF Remember
  <2>5. DOMAIN n.refs = D
    BY <2>3
  <2>6. Typed(n)
    BY <2>1, <2>2, <2>3, <2>4, <2>5 DEF Good, Typed
  <2>7. OwnsWhatItUses(n)
    BY <2>1, <2>2, <2>4, <2>5 DEF OwnsWhatItUses
  <2>8. ASSUME NEW k \in D  PROVE n.refs[k] = Users(n, k)
    <3>1. m.refs[k] = Users(m, k) /\ m.refs[k] \in Int
      BY <2>1 DEF Good, Exact
    <3>2. /\ Cardinality(Remembering(m, k)) \in Nat
          /\ Users(m, k) = Cardinality(Remembering(m, k)) + Same(k, m.active)
          /\ Users(n, k) = Cardinality(Remembering(n, k)) + Same(k, n.active)
      BY <2>1, <2>4, UsersSum
    <3>3. Cardinality(Remembering(n, k)) =
            Cardinality(Remembering(m, k)) + Same(k, m.active) - Held(m, m.size, k)
      <4>. HIDE DEF n
      <4>1. IsFiniteSet(DOMAIN m.memory) /\ n.memory = Remember(m.memory, m.size, m.active)
        BY <2>1, <2>2
      <4>. QED  BY <4>1, RememberingAfter
    <3>. QED  BY <2>2, <2>3, <3>1, <3>2, <3>3 DEF Same, Held
  <2>9. Exact(n)
    BY <2>5, <2>8 DEF Exact
  <2>. QED  BY <2>5, <2>6, <2>7, <2>9 DEF Good
<1>. QED  BY <1>1, <1>2

(* Another layout of the space becomes the active one. *)
LEMMA ActiveMoved ==
  ASSUME NEW m, Good(m), NEW l \in DOMAIN m.refs, NEW n,
         n.memory = m.memory, n.active = l,
         n.refs = Decrement(Increment(m.refs, l), m.active)
  PROVE  n.refs \in [DOMAIN m.refs -> Int] /\ Exact(n)
<1>. DEFINE D == DOMAIN m.refs  r == Increment(m.refs, l)
<1>1. m.refs \in [D -> Int] /\ m.active \in D /\ IsFiniteSet(DOMAIN m.memory)
  BY DEF Good, Typed, OwnsWhatItUses
<1>2. r \in [D -> Int] /\ \A k \in D : r[k] = m.refs[k] + Same(k, l)
  BY <1>1, CountedUp
<1>. HIDE DEF r
<1>3. n.refs = Decrement(r, m.active)
  BY DEF r
<1>4. n.refs \in [D -> Int] /\ \A k \in D : n.refs[k] = r[k] - Same(k, m.active)
  BY <1>1, <1>2, <1>3, CountedDown
<1>5. ASSUME NEW k \in D  PROVE n.refs[k] = Users(n, k)
  <2>1. m.refs[k] = Users(m, k) /\ m.refs[k] \in Int
    BY <1>1 DEF Good, Exact
  <2>2. /\ Cardinality(Remembering(m, k)) \in Nat
        /\ Users(m, k) = Cardinality(Remembering(m, k)) + Same(k, m.active)
        /\ Users(n, k) = Cardinality(Remembering(n, k)) + Same(k, n.active)
    BY <1>1, UsersSum
  <2>3. Remembering(n, k) = Remembering(m, k)
    BY DEF Remembering
  <2>. QED  BY <1>2, <1>4, <2>1, <2>2, <2>3 DEF Same
<1>. QED  BY <1>4, <1>5 DEF Exact

(* The second part of activate_size. *)
LEMMA LoadedGood ==
  ASSUME NEW m, Good(m), NEW z \in Size
  PROVE  Good(Loaded(m, z)) /\ DOMAIN Loaded(m, z).refs = DOMAIN m.refs
<1>. DEFINE n == Loaded(m, z)
<1>1. CASE z \notin DOMAIN m.memory
  <2>1. /\ n.size = z /\ n.active = m.active /\ n.retained = FALSE
        /\ n.memory = m.memory /\ n.refs = m.refs
        /\ n = [size |-> n.size, active |-> n.active, retained |-> n.retained,
                memory |-> n.memory, refs |-> n.refs]
    BY <1>1 DEF Good, Typed, Loaded
  <2>2. \A k \in DOMAIN m.refs : Users(n, k) = Users(m, k)
    BY <2>1 DEF Users, Remembering
  <2>. QED  BY <2>1, <2>2 DEF Good, Typed, OwnsWhatItUses, Exact
<1>2. CASE z \in DOMAIN m.memory
  <2>1. /\ n.size = z /\ n.active = m.memory[z] /\ n.retained = FALSE
        /\ n.memory = m.memory
        /\ n.refs = Decrement(Increment(m.refs, m.memory[z]), m.active)
        /\ n = [size |-> n.size, active |-> n.active, retained |-> n.retained,
                memory |-> n.memory, refs |-> n.refs]
    BY <1>2 DEF Good, Typed, Loaded
  <2>2. m.memory[z] \in DOMAIN m.refs
    BY <1>2 DEF Good, OwnsWhatItUses
  <2>3. n.refs \in [DOMAIN m.refs -> Int] /\ Exact(n)
    BY <2>1, <2>2, ActiveMoved
  <2>. QED  BY <2>1, <2>2, <2>3 DEF Good, Typed, OwnsWhatItUses
<1>. QED  BY <1>1, <1>2

(* select_layout *)
LEMMA SelectedGood ==
  ASSUME NEW m, Good(m), NEW l \in DOMAIN m.refs
  PROVE  Good(Selected(m, l)) /\ DOMAIN Selected(m, l).refs = DOMAIN m.refs
<1>. DEFINE n == Selected(m, l)
<1>1. /\ n.size = m.size /\ n.active = l /\ n.retained = TRUE /\ n.memory = m.memory
      /\ n.refs = Decrement(Increment(m.refs, l), m.active)
      /\ n = [size |-> n.size, active |-> n.active, retained |-> n.retained,
              memory |-> n.memory, refs |-> n.refs]
  <2>. DEFINE refs == Decrement(Increment(m.refs, l), m.active)
  <2>1. n = [m EXCEPT !.refs = refs, !.active = l, !.retained = TRUE]
    BY DEF Selected
  <2>2. Typed(m)
    BY DEF Good
  <2>. HIDE DEF n, refs
  <2>3. /\ n.size = m.size /\ n.active = l /\ n.retained = TRUE /\ n.memory = m.memory
        /\ n.refs = refs
        /\ n = [size |-> n.size, active |-> n.active, retained |-> n.retained,
                memory |-> n.memory, refs |-> n.refs]
    BY <2>1, <2>2 DEF Typed
  <2>. QED  BY <2>3 DEF refs
<1>2. n.refs \in [DOMAIN m.refs -> Int] /\ Exact(n)
  BY <1>1, ActiveMoved
<1>. QED  BY <1>1, <1>2 DEF Good, Typed, OwnsWhatItUses

(* The third part of activate_size: no layout in use is collected. *)
LEMMA CollectedGood ==
  ASSUME NEW m, Good(m)
  PROVE  Good(Collected(m)) /\ DOMAIN Collected(m).refs \subseteq DOMAIN m.refs
<1>. DEFINE n == Collected(m)
<1>1. /\ n.size = m.size /\ n.active = m.active /\ n.retained = m.retained
      /\ n.memory = m.memory
      /\ n.refs = [l \in DOMAIN m.refs \ Unused(m) |-> m.refs[l]]
      /\ n = [size |-> n.size, active |-> n.active, retained |-> n.retained,
              memory |-> n.memory, refs |-> n.refs]
  BY DEF Good, Typed, Collected
<1>2. ASSUME NEW l, m.active = l \/ \E z \in DOMAIN m.memory : m.memory[z] = l
      PROVE  l \in DOMAIN m.refs \ Unused(m)
  <2>1. l \in DOMAIN m.refs /\ m.refs[l] = Users(m, l)
    BY <1>2 DEF Good, OwnsWhatItUses, Exact
  <2>2. IsFiniteSet(DOMAIN m.memory)
    BY DEF Good, Typed
  <2>3. Users(m, l) \in Int /\ Users(m, l) > 0
    BY <1>2, <2>2, UsedHasUsers
  <2>. QED  BY <2>1, <2>3 DEF Unused
<1>3. OwnsWhatItUses(n)
  BY <1>1, <1>2 DEF OwnsWhatItUses
<1>4. \A k : Users(n, k) = Users(m, k)
  BY <1>1 DEF Users, Remembering
<1>. QED  BY <1>1, <1>3, <1>4 DEF Good, Typed, Exact

LEMMA ActivatedGood ==
  ASSUME NEW m, Good(m), NEW z \in Size
  PROVE  Good(Activated(m, z)) /\ DOMAIN Activated(m, z).refs \subseteq DOMAIN m.refs
BY SavedGood, LoadedGood, CollectedGood DEF Activated

-----------------------------------------------------------------------------
(* A layout the space does not own is used nowhere. *)
LEMMA NotOwnedNotRemembered ==
  ASSUME NEW m, Good(m), NEW c, c \notin DOMAIN m.refs
  PROVE  Cardinality(Remembering(m, c)) = 0 /\ c # m.active
<1>1. Remembering(m, c) = {} /\ c # m.active
  BY DEF Good, OwnsWhatItUses, Remembering
<1>. QED  BY <1>1, FS_EmptySet

(* A new layout takes the place of the active one, whose count goes down.  *)
LEMMA NewLayoutActive ==
  ASSUME NEW m, Good(m), NEW c, c \notin DOMAIN m.refs, NEW n,
         n.memory = m.memory, n.active = c,
         n.refs = [k \in DOMAIN m.refs \cup {c} |->
                     IF k = c THEN 1 ELSE m.refs[k] - Same(k, m.active)]
  PROVE  n.refs \in [DOMAIN m.refs \cup {c} -> Int] /\ Exact(n)
<1>1. m.refs \in [DOMAIN m.refs -> Int] /\ IsFiniteSet(DOMAIN m.memory)
  BY DEF Good, Typed
<1>2. n.refs \in [DOMAIN m.refs \cup {c} -> Int]
  BY <1>1 DEF Same
<1>3. ASSUME NEW k \in DOMAIN m.refs \cup {c}  PROVE n.refs[k] = Users(n, k)
  <2>1. /\ Cardinality(Remembering(m, k)) \in Nat
        /\ Users(m, k) = Cardinality(Remembering(m, k)) + Same(k, m.active)
        /\ Users(n, k) = Cardinality(Remembering(n, k)) + Same(k, n.active)
    BY <1>1, UsersSum
  <2>2. Remembering(n, k) = Remembering(m, k)
    BY DEF Remembering
  <2>3. CASE k = c
    BY <2>1, <2>2, <2>3, NotOwnedNotRemembered DEF Same
  <2>4. CASE k # c
    <3>1. m.refs[k] = Users(m, k) /\ m.refs[k] \in Int
      BY <1>1, <2>4 DEF Good, Exact
    <3>. QED  BY <2>1, <2>2, <2>4, <3>1 DEF Same
  <2>. QED  BY <2>3, <2>4
<1>. QED  BY <1>2, <1>3 DEF Exact

(* prepare_modify *)
LEMMA PreparedGood ==
  ASSUME NEW m, Good(m), NEW c \in Layout, c \notin DOMAIN m.refs
  PROVE  Good(Prepared(m, c)) /\ DOMAIN Prepared(m, c).refs \subseteq DOMAIN m.refs \cup {c}
<1>. DEFINE n == Prepared(m, c)
<1>1. CASE ~Shared(m)
  <2>1. /\ n.size = m.size /\ n.active = m.active /\ n.retained = TRUE
        /\ n.memory = m.memory /\ n.refs = m.refs
        /\ n = [size |-> n.size, active |-> n.active, retained |-> n.retained,
                memory |-> n.memory, refs |-> n.refs]
    BY <1>1 DEF Good, Typed, Prepared
  <2>2. \A k \in DOMAIN m.refs : Users(n, k) = Users(m, k)
    BY <2>1 DEF Users, Remembering
  <2>. QED  BY <2>1, <2>2 DEF Good, Typed, OwnsWhatItUses, Exact
<1>2. CASE Shared(m)
  <2>1. /\ n.size = m.size /\ n.active = c /\ n.retained = TRUE /\ n.memory = m.memory
        /\ n.refs = [k \in DOMAIN m.refs \cup {c} |->
                       IF k = c THEN 1
                       ELSE IF k = m.active THEN m.refs[k] - 1 ELSE m.refs[k]]
        /\ n = [size |-> n.size, active |-> n.active, retained |-> n.retained,
                memory |-> n.memory, refs |-> n.refs]
    BY <1>2 DEF Good, Typed, Prepared
  <2>2. n.refs = [k \in DOMAIN m.refs \cup {c} |->
                    IF k = c THEN 1 ELSE m.refs[k] - Same(k, m.active)]
    BY <2>1 DEF Same, Good, Typed
  <2>3. n.refs \in [DOMAIN m.refs \cup {c} -> Int] /\ Exact(n)
    BY <2>1, <2>2, NewLayoutActive
  <2>. QED  BY <2>1, <2>3 DEF Good, Typed, OwnsWhatItUses
<1>. QED  BY <1>1, <1>2

(* replace_active_layout *)
LEMMA ReplacedGood ==
  ASSUME NEW m, Good(m), NEW c \in Layout, c \notin DOMAIN m.refs
  PROVE  Good(Replaced(m, c)) /\ DOMAIN Replaced(m, c).refs \subseteq DOMAIN m.refs \cup {c}
<1>. DEFINE n == Replaced(m, c)
            r == [k \in DOMAIN m.refs \cup {c} |-> IF k = c THEN 1 ELSE m.refs[k]]
<1>1. /\ n.size = m.size /\ n.active = c /\ n.retained = TRUE /\ n.memory = m.memory
      /\ n.refs = Decrement(r, m.active)
      /\ n = [size |-> n.size, active |-> n.active, retained |-> n.retained,
              memory |-> n.memory, refs |-> n.refs]
  <2>. DEFINE refs == Decrement(r, m.active)
  <2>1. n = [m EXCEPT !.refs = refs, !.active = c, !.retained = TRUE]
    BY DEF Replaced
  <2>2. Typed(m)
    BY DEF Good
  <2>. HIDE DEF n, refs
  <2>3. /\ n.size = m.size /\ n.active = c /\ n.retained = TRUE /\ n.memory = m.memory
        /\ n.refs = refs
        /\ n = [size |-> n.size, active |-> n.active, retained |-> n.retained,
                memory |-> n.memory, refs |-> n.refs]
    BY <2>1, <2>2 DEF Typed
  <2>. QED  BY <2>3 DEF refs
<1>2. m.active \in DOMAIN m.refs /\ c # m.active /\ m.refs \in [DOMAIN m.refs -> Int]
  BY DEF Good, Typed, OwnsWhatItUses
<1>3. DOMAIN r \cup {m.active} = DOMAIN m.refs \cup {c}
  BY <1>2
<1>4. n.refs = [k \in DOMAIN m.refs \cup {c} |->
                  IF k = c THEN 1 ELSE m.refs[k] - Same(k, m.active)]
  BY <1>1, <1>2, <1>3 DEF Decrement, Same
<1>5. n.refs \in [DOMAIN m.refs \cup {c} -> Int] /\ Exact(n)
  BY <1>1, <1>4, NewLayoutActive
<1>. QED  BY <1>1, <1>5 DEF Good, Typed, OwnsWhatItUses

(* A layout just made is used once, by its space. *)
LEMMA NewMappingGood ==
  ASSUME NEW z \in Size, NEW l \in Layout
  PROVE  Good(NewMapping(z, l)) /\ DOMAIN NewMapping(z, l).refs = {l}
<1>. DEFINE n == NewMapping(z, l)
<1>1. /\ n.size = z /\ n.active = l /\ n.retained = FALSE
      /\ DOMAIN n.memory = {} /\ n.memory \in [DOMAIN n.memory -> Layout]
      /\ DOMAIN n.refs = {l} /\ n.refs[l] = 1 /\ n.refs \in [DOMAIN n.refs -> Int]
      /\ n = [size |-> n.size, active |-> n.active, retained |-> n.retained,
              memory |-> n.memory, refs |-> n.refs]
  BY DEF NewMapping
<1>2. Remembering(n, l) = {}
  BY <1>1 DEF Remembering
<1>3. Users(n, l) = 1
  BY <1>1, <1>2, FS_EmptySet DEF Users
<1>4. IsFiniteSet(DOMAIN n.memory)
  BY <1>1, FS_EmptySet
<1>. HIDE DEF n
<1>5. Typed(n) /\ OwnsWhatItUses(n) /\ Exact(n)
  BY <1>1, <1>3, <1>4 DEF Typed, OwnsWhatItUses, Exact
<1>. QED  BY <1>1, <1>5 DEF Good, n

-----------------------------------------------------------------------------
(* A step of one space leaves the others alone, and gives it no layout     *)
(* that another owns.                                                      *)
LEMMA BecomesGood ==
  ASSUME MInv, NEW s, NEW m, Becomes(s, m), Good(m),
         \A r \in Exposed : r # s => DOMAIN mapping[r].refs \cap DOMAIN m.refs = {}
  PROVE  MInv'
<1>1. /\ Exposed' = Exposed \cup {s}
      /\ \A r \in Exposed' : mapping'[r] = IF r = s THEN m ELSE mapping[r]
  BY DEF Becomes, Exposed
<1>2. \A r \in Exposed' : Good(mapping'[r])
  BY <1>1 DEF MInv
<1>3. Apart'
  BY <1>1 DEF MInv, Apart
<1>. QED  BY <1>2, <1>3 DEF MInv

(* What a space owns, and a layout just made, are not another's. *)
LEMMA NewLayoutOwned ==
  ASSUME MInv, NEW l \in Layout, NewLayout(l), NEW r \in Exposed
  PROVE  l \notin DOMAIN mapping[r].refs
<1>1. DOMAIN mapping[r].refs \subseteq Owned /\ DOMAIN mapping[r].refs \subseteq Layout
  BY DEF Owned, MInv, Good, Typed
<1>. QED  BY <1>1, LayoutAssumption DEF NewLayout

LEMMA ExposeStep ==
  ASSUME MInv, NEW s \in Space, NEW z \in Size, MapExpose(s, z)
  PROVE  MInv'
<1>1. CASE s \in Exposed /\ Becomes(s, Activated(mapping[s], z))
  <2>1. /\ Good(Activated(mapping[s], z))
        /\ DOMAIN Activated(mapping[s], z).refs \subseteq DOMAIN mapping[s].refs
    BY <1>1, ActivatedGood DEF MInv
  <2>. QED  BY <1>1, <2>1, BecomesGood DEF MInv, Apart
<1>2. ASSUME NEW l \in Layout, s \notin Exposed, NewLayout(l),
             Becomes(s, Activated(NewMapping(z, l), z))
      PROVE  MInv'
  <2>1. Good(NewMapping(z, l)) /\ DOMAIN NewMapping(z, l).refs = {l}
    BY NewMappingGood
  <2>2. /\ Good(Activated(NewMapping(z, l), z))
        /\ DOMAIN Activated(NewMapping(z, l), z).refs \subseteq {l}
    BY <2>1, ActivatedGood
  <2>3. \A r \in Exposed : l \notin DOMAIN mapping[r].refs
    BY <1>2, NewLayoutOwned
  <2>. QED  BY <1>2, <2>2, <2>3, BecomesGood
<1>. QED  BY <1>1, <1>2 DEF MapExpose

LEMMA OwnStep ==
  ASSUME MInv, NEW s \in Exposed, MapSelect(s) \/ MapModify(s) \/ MapReplace(s)
  PROVE  MInv'
<1>. DEFINE m == mapping[s]
<1>1. Good(m) /\ \A r \in Exposed : r # s => DOMAIN mapping[r].refs \cap DOMAIN m.refs = {}
  BY DEF MInv, Apart
<1>2. ASSUME NEW l \in DOMAIN m.refs, Becomes(s, Selected(m, l))  PROVE MInv'
  BY <1>1, <1>2, SelectedGood, BecomesGood
<1>3. ASSUME NEW l \in Layout, NewLayout(l), Becomes(s, Prepared(m, l))  PROVE MInv'
  <2>1. \A r \in Exposed : l \notin DOMAIN mapping[r].refs
    BY <1>3, NewLayoutOwned
  <2>2. /\ Good(Prepared(m, l))
        /\ DOMAIN Prepared(m, l).refs \subseteq DOMAIN m.refs \cup {l}
    BY <1>1, <2>1, PreparedGood
  <2>. QED  BY <1>1, <1>3, <2>1, <2>2, BecomesGood
<1>4. ASSUME NEW l \in Layout, NewLayout(l), Becomes(s, Replaced(m, l))  PROVE MInv'
  <2>1. \A r \in Exposed : l \notin DOMAIN mapping[r].refs
    BY <1>4, NewLayoutOwned
  <2>2. /\ Good(Replaced(m, l))
        /\ DOMAIN Replaced(m, l).refs \subseteq DOMAIN m.refs \cup {l}
    BY <1>1, <2>1, ReplacedGood
  <2>. QED  BY <1>1, <1>4, <2>1, <2>2, BecomesGood
<1>. QED  BY <1>2, <1>3, <1>4 DEF MapSelect, MapModify, MapReplace

-----------------------------------------------------------------------------
(* The invariant of the mappings: every space's is typed, uses what it     *)
(* owns and counts it exactly, and no two own the same layout.             *)
THEOREM MappingInvariant == MappingSpec => []MInv
<1>1. MappingInit => MInv
  BY DEF MappingInit, MInv, Apart, Exposed
<1>2. MInv /\ [MappingNext]_mapping => MInv'
  <2>1. ASSUME MInv, MappingNext  PROVE MInv'
    BY <2>1, ExposeStep, OwnStep DEF MappingNext
  <2>2. ASSUME MInv, UNCHANGED mapping  PROVE MInv'
    BY <2>2 DEF MInv, Apart, Exposed
  <2>. QED  BY <2>1, <2>2
<1>. QED  BY <1>1, <1>2, PTL DEF MappingSpec

(* CountsExact: the count of every layout is the number of its users, so   *)
(* that collecting those at zero removes the unused ones and no others.    *)
THEOREM CountsExactHolds == MappingSpec => []CountsExact
<1>1. MInv => CountsExact
  BY DEF MInv, Good, Exact, CountsExact
<1>. QED  BY <1>1, MappingInvariant, PTL

(* UsedAreOwned: active and remembered layouts belong to their space, and  *)
(* to no other.                                                            *)
THEOREM UsedAreOwnedHolds == MappingSpec => []UsedAreOwned
<1>1. MInv => UsedAreOwned
  BY DEF MInv, Apart, Good, OwnsWhatItUses, UsedAreOwned
<1>. QED  BY <1>1, MappingInvariant, PTL

(* MappingSound: layouts are counted right and not shared between spaces.  *)
THEOREM MappingSoundHolds == MappingSpec => []MappingSound
<1>1. CountsExact /\ UsedAreOwned => MappingSound
  BY DEF MappingSound
<1>. QED  BY <1>1, CountsExactHolds, UsedAreOwnedHolds, PTL
=============================================================================
