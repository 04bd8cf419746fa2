---------------------------- MODULE PcurAbstract ----------------------------
(***************************************************************************)
(* What a persistent cursor promises, in terms of the ordered key set of   *)
(* an index and nothing of pages, blocks or latches.                       *)
(*                                                                         *)
(* A position of the cursor is a point of the key line: 2*k is the record  *)
(* with key k, an odd number is a gap between keys.  Two points denote the *)
(* same place when no key of the index lies between them.  apos is NONE    *)
(* when the cursor is not positioned (no mtr holds its page).  stored is   *)
(* the position saved by store_position: <<key, relative position>>.      *)
(***************************************************************************)
EXTENDS Integers, FiniteSets

CONSTANTS Key, NONE

VARIABLES index, apos, stored, ret

avars == <<index, apos, stored, ret>>

MaxK == CHOOSE m \in Key : \A k \in Key : k <= m
Top == 2 * MaxK + 1
Gap == {2 * i - 1 : i \in 0..(MaxK + 1)}
RecPoint(k) == 2 * k
Point == {RecPoint(k) : k \in Key} \cup Gap
IsRec(x) == x % 2 = 0
Sentinel == {"BEFORE_FIRST_IN_TREE", "AFTER_LAST_IN_TREE"}

\* Keys of the index strictly between two points.
Between(x, y) == {j \in index : x < 2 * j /\ 2 * j < y}

\* A point the cursor may be at: a gap, or a record of the index.
Valid(x) == IsRec(x) => x \div 2 \in index

\* The places just before / just after x: nothing of the index in between.
Below(x) == {y \in Point : y < x /\ Valid(y) /\ Between(y, x) = {}}
Above(x) == {y \in Point : y > x /\ Valid(y) /\ Between(x, y) = {}}

\* What store_position may save at x: the record itself, or for a gap the
\* record before it (AFTER) or after it (BEFORE); an empty index saves a
\* sentinel.
StoreOf(x) ==
    IF IsRec(x) THEN {<<x \div 2, "ON">>}
    ELSE IF index = {} THEN {<<NONE, s>> : s \in Sentinel}
    ELSE {<<j, "AFTER">> : j \in {j \in index : 2 * j < x /\ Between(2 * j, x) = {}}}
         \cup {<<j, "BEFORE">> : j \in {j \in index : 2 * j > x /\ Between(x, 2 * j) = {}}}

\* restore_position's promise, as <<position, return value>> pairs: TRUE
\* exactly when the saved record is still in the index, and then on it;
\* otherwise as close as possible on the saved side.
Restored(s) ==
    CASE s[2] = "ON" /\ s[1] \in index -> {<<RecPoint(s[1]), TRUE>>}
      [] s[2] \in {"ON", "BEFORE"}     -> {<<y, FALSE>> : y \in Below(RecPoint(s[1]))}
      [] s[2] = "AFTER"                -> {<<y, FALSE>> : y \in Above(RecPoint(s[1]))}
      [] s[2] = "BEFORE_FIRST_IN_TREE" -> {<<-1, FALSE>>}
      [] s[2] = "AFTER_LAST_IN_TREE"   -> {<<Top, FALSE>>}

Init ==
    /\ index \in SUBSET Key
    /\ apos = NONE
    /\ stored = NONE
    /\ ret = NONE

\* Open the cursor anywhere; what was saved is forgotten.
Open ==
    /\ apos' \in {y \in Point : Valid(y)}
    /\ stored' = NONE
    /\ ret' = NONE
    /\ UNCHANGED index

\* Move to a neighbouring place (or the same place on another page).
Move ==
    /\ apos # NONE
    /\ apos' \in {y \in Point : /\ Valid(y)
                               /\ Between(IF y < apos THEN y ELSE apos,
                                          IF y < apos THEN apos ELSE y) = {}}
    /\ stored' = NONE
    /\ ret' = NONE
    /\ UNCHANGED index

Store ==
    /\ apos # NONE
    /\ stored' \in StoreOf(apos)
    /\ ret' = NONE
    /\ UNCHANGED <<index, apos>>

\* The cursor loses its position (its mtr commits or it releases its
\* leaf), possibly saving it first.
Release ==
    /\ apos' = NONE
    /\ stored' \in {stored} \cup (IF apos = NONE THEN {} ELSE StoreOf(apos))
    /\ ret' = NONE
    /\ UNCHANGED index

Restore ==
    /\ stored # NONE
    /\ \E r \in Restored(stored) :
         /\ apos' = r[1]
         /\ ret' = r[2]
         /\ stored' \in {stored, NONE} \cup StoreOf(r[1])
    /\ UNCHANGED index

\* Other sessions insert or delete a key; the record under a positioned
\* cursor is not removed.
Modify ==
    /\ \E k \in Key :
         /\ index' \in {index \cup {k}, index \ {k}}
         /\ apos = RecPoint(k) => k \in index'
    /\ UNCHANGED <<apos, stored, ret>>

Next == Open \/ Move \/ Store \/ Release \/ Restore \/ Modify

Spec == Init /\ [][Next]_avars

====
