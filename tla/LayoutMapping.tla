---------------------------- MODULE LayoutMapping ----------------------------
(***************************************************************************)
(* The layouts of each space, by screen size (SpaceLayoutMapping in        *)
(* src/model/layout_mapping.rs): which layout is active, which one each    *)
(* screen size remembers, and a count of the users of each, by which       *)
(* layouts are removed that nobody uses.                                   *)
(*                                                                         *)
(* A mapping m has the fields                                              *)
(*   size      active_size                                                 *)
(*   active    active_layout                                               *)
(*   retained  active_save_state                                           *)
(*   memory    the layouts remembered, a function on some sizes            *)
(*   refs      layouts: the count of each layout the space owns            *)
(* Layouts are numbers, given out in increasing order, so that the order   *)
(* of layouts in the IndexMap is that of the numbers.                      *)
(***************************************************************************)
EXTENDS Integers, FiniteSets

CONSTANTS
  Space,    \* spaces
  Size,     \* screen sizes
  Layout    \* bound: ids of layouts

ASSUME LayoutAssumption == Layout \subseteq Nat

VARIABLE mapping    \* the mapping of each space that was exposed

Increment(refs, l) ==
  [k \in DOMAIN refs \cup {l} |->
     IF k # l THEN refs[k] ELSE IF l \in DOMAIN refs THEN refs[l] + 1 ELSE 1]
Decrement(refs, l) ==
  [k \in DOMAIN refs \cup {l} |->
     IF k # l THEN refs[k] ELSE IF l \in DOMAIN refs THEN refs[l] - 1 ELSE 0]

Remember(memory, z, l) == [y \in DOMAIN memory \cup {z} |-> IF y = z THEN l ELSE memory[y]]

(* A layout just made for a space. *)
NewMapping(z, l) ==
  [size |-> z, active |-> l, retained |-> FALSE,
   memory |-> [y \in {} |-> l], refs |-> [k \in {l} |-> 1]]

(* A bug: the layout a size no longer remembers keeps its count. *)
SavedOverwrites(m) ==
  IF ~m.retained THEN m
  ELSE [m EXCEPT !.memory = Remember(m.memory, m.size, m.active),
                 !.refs = Increment(m.refs, m.active)]

(* activate_size, the first part: the active layout is remembered for the  *)
(* size it was used with, if it was retained.                              *)
Saved(m) ==
  IF ~m.retained THEN m
  ELSE [m EXCEPT !.memory = Remember(m.memory, m.size, m.active),
                 !.refs = IF m.size \in DOMAIN m.memory
                          THEN Decrement(Increment(m.refs, m.active), m.memory[m.size])
                          ELSE Increment(m.refs, m.active)]

(* The second part: the layout the new size remembers, if any, is used.    *)
Loaded(m, z) ==
  IF z \notin DOMAIN m.memory THEN [m EXCEPT !.retained = FALSE, !.size = z]
  ELSE [m EXCEPT !.retained = FALSE, !.size = z, !.active = m.memory[z],
                 !.refs = Decrement(Increment(m.refs, m.memory[z]), m.active)]

(* The third: layouts without users are removed. *)
Unused(m) == {l \in DOMAIN m.refs : m.refs[l] <= 0}

Collected(m) == [m EXCEPT !.refs = [l \in DOMAIN m.refs \ Unused(m) |-> m.refs[l]]]

Activated(m, z) == Collected(Loaded(Saved(m), z))

(* select_layout, of a layout of the space, as it asserts. *)
Selected(m, l) ==
  [m EXCEPT !.refs = Decrement(Increment(m.refs, l), m.active), !.active = l, !.retained = TRUE]

(* change_layout_index_filtered, among Tree layouts: the next layout or    *)
(* the one before, round about.                                            *)
Beside(m, forward) ==
  LET ls == DOMAIN m.refs
      Lowest(S) == CHOOSE l \in S : \A k \in S : l <= k
      Highest(S) == CHOOSE l \in S : \A k \in S : l >= k
      later == {l \in ls : l > m.active}
      sooner == {l \in ls : l < m.active}
  IN IF forward THEN IF later # {} THEN Lowest(later) ELSE Lowest(ls)
     ELSE IF sooner # {} THEN Highest(sooner) ELSE Highest(ls)
Cycled(m, forward) ==
  IF Cardinality(DOMAIN m.refs) <= 1 THEN m ELSE Selected(m, Beside(m, forward))

(* A bug: off by one. *)
SharedByMore(m) == m.active \in DOMAIN m.refs /\ m.refs[m.active] > 2

(* prepare_modify: a layout that is used elsewhere is cloned. *)
Shared(m) == m.active \in DOMAIN m.refs /\ m.refs[m.active] > 1

Prepared(m, clone) ==
  IF ~Shared(m) THEN [m EXCEPT !.retained = TRUE]
  ELSE [m EXCEPT !.refs = [k \in DOMAIN m.refs \cup {clone} |->
                             IF k = clone THEN 1
                             ELSE IF k = m.active THEN m.refs[k] - 1 ELSE m.refs[k]],
                 !.active = clone, !.retained = TRUE]

(* replace_active_layout *)
Replaced(m, new) ==
  [m EXCEPT !.refs = Decrement([k \in DOMAIN m.refs \cup {new} |->
                                  IF k = new THEN 1 ELSE m.refs[k]], m.active),
            !.active = new, !.retained = TRUE]

-----------------------------------------------------------------------------
(* What happens to the mappings, whatever the layouts hold. *)

Exposed == DOMAIN mapping
Owned == UNION {DOMAIN mapping[s].refs : s \in Exposed}
NewLayout(l) == \A k \in Owned : l > k

Becomes(s, m) == mapping' = [r \in Exposed \cup {s} |-> IF r = s THEN m ELSE mapping[r]]

MappingInit == mapping = [s \in {} |-> NewMapping(s, 0)]

MapExpose(s, z) ==
  \/ s \in Exposed /\ Becomes(s, Activated(mapping[s], z))
  \/ /\ s \notin Exposed
     /\ \E l \in Layout : NewLayout(l) /\ Becomes(s, Activated(NewMapping(z, l), z))
MapSelect(s) == \E l \in DOMAIN mapping[s].refs : Becomes(s, Selected(mapping[s], l))
MapModify(s) == \E l \in Layout : NewLayout(l) /\ Becomes(s, Prepared(mapping[s], l))
MapReplace(s) == \E l \in Layout : NewLayout(l) /\ Becomes(s, Replaced(mapping[s], l))

MappingNext ==
  \/ \E s \in Space, z \in Size : MapExpose(s, z)
  \/ \E s \in Exposed : MapSelect(s) \/ MapModify(s) \/ MapReplace(s)

(* The mappings change by the operations of SpaceLayoutMapping and in no   *)
(* other way, whatever event or command the layout manager handles; each   *)
(* takes a layout of the space or one just made.                           *)
MappingSpec == MappingInit /\ [][MappingNext]_mapping

-----------------------------------------------------------------------------
(* How many use a layout of a space: the sizes that remember it, and the   *)
(* space itself.                                                           *)
Remembering(m, l) == {z \in DOMAIN m.memory : m.memory[z] = l}
Users(m, l) == Cardinality(Remembering(m, l)) + (IF m.active = l THEN 1 ELSE 0)

(* The count of a layout is the number of its users: so no layout in use   *)
(* is removed, and one out of use is.                                      *)
CountsExact == \A s \in Exposed : \A l \in DOMAIN mapping[s].refs :
                 mapping[s].refs[l] = Users(mapping[s], l)

(* What a space uses is its own: the active layout and those remembered    *)
(* are layouts of the space, and no layout belongs to two spaces.          *)
UsedAreOwned ==
  /\ \A s \in Exposed : LET m == mapping[s] IN
       m.active \in DOMAIN m.refs /\ \A z \in DOMAIN m.memory : m.memory[z] \in DOMAIN m.refs
  /\ \A r, s \in Exposed : r # s => DOMAIN mapping[r].refs \cap DOMAIN mapping[s].refs = {}

(* The bookkeeping is sound: counts are exact and layouts are not shared   *)
(* between spaces.                                                         *)
MappingSound == CountsExact /\ UsedAreOwned
=============================================================================
