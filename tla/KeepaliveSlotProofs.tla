------------------------- MODULE KeepaliveSlotProofs -------------------------
(***************************************************************************)
(* The keepalive wakeup slot (module KeepaliveSlot), for every interval.   *)
(*   - WholeSeconds: for an interval of whole seconds, at any resolution,  *)
(*     subtracting one second and testing "<" is the same as testing "<=" *)
(*     on the interval, so the slot is the one the comment promises;       *)
(*   - SlotSecondsThm: hence SlotMatchesInterval holds when the interval   *)
(*     is counted in seconds;                                              *)
(*   - SlotTooShortThm: the keepaliveslot_fraction run for every           *)
(*     frequency and resolution: an interval less than a second above a    *)
(*     frequency gets that frequency, a slot shorter than the interval.    *)
(***************************************************************************)
EXTENDS KeepaliveSlot, TLAPS

\* The frequencies below one hour, the ones the chain of "<" tests names.
Tested == Frequencies \ {3600}

\* Min picks the element every other one is at least.
LEMMA MinIs ==
    ASSUME NEW S \in SUBSET Int, NEW m \in S, \A y \in S : m <= y
    PROVE  Min(S) = m
<1>1. \E x \in S : \A y \in S : x <= y
  OBVIOUS
<1>2. Min(S) \in S /\ \A y \in S : Min(S) <= y
  BY <1>1 DEF Min
<1>3. Min(S) \in Int /\ Min(S) <= m /\ m <= Min(S)
  BY <1>2
<1>4. QED
  BY <1>3

\* For whole seconds, "interval - 1s < f" is "interval <= f".
LEMMA WholeSecondsSets ==
    ASSUME Res \in Nat \ {0}, NEW k \in Nat \ {0}
    PROVE  {f \in Tested : k * Res - Res < f * Res}
             = {f \in Frequencies : k * Res <= f * Res} \ {3600}
<1>1. \A f \in Int : (k * Res - Res < f * Res) <=> (k <= f)
  <2> SUFFICES ASSUME NEW f \in Int
               PROVE  (k * Res - Res < f * Res) <=> (k <= f)
    OBVIOUS
  <2>1. k * Res - Res = (k - 1) * Res
    OBVIOUS
  <2>2. ((k - 1) * Res < f * Res) <=> (k - 1 < f)
    OBVIOUS
  <2>3. QED
    BY <2>1, <2>2
<1>2. \A f \in Int : (k * Res <= f * Res) <=> (k <= f)
  OBVIOUS
<1>3. QED
  BY <1>1, <1>2 DEF Tested, Frequencies

\* One hour is the longest frequency: dropping it from a set of frequencies
\* keeps the shortest one, unless only one hour was left.
LEMMA MinWithoutHour ==
    ASSUME NEW S \in SUBSET Frequencies, S \ {3600} # {}
    PROVE  Min(S \ {3600}) = Min(S)
<1>0. \E y \in S : y # 3600
  <2>1. SUFFICES ASSUME \A y \in S : y = 3600 PROVE FALSE
    OBVIOUS
  <2>2. S \ {3600} = {}
    BY <2>1
  <2>3. QED
    BY <2>2
<1>1. PICK m \in (S \ {3600}) : \A y \in (S \ {3600}) : m <= y
  <2> USE DEF Frequencies
  <2>1. CASE 30 \in (S \ {3600})
    BY <2>1
  <2>2. CASE 30 \notin (S \ {3600}) /\ 150 \in (S \ {3600})
    BY <2>2
  <2>3. CASE {30, 150} \cap (S \ {3600}) = {} /\ 300 \in (S \ {3600})
    BY <2>3
  <2>4. CASE {30, 150, 300} \cap (S \ {3600}) = {} /\ 600 \in (S \ {3600})
    BY <2>4
  <2>5. CASE {30, 150, 300, 600} \cap (S \ {3600}) = {} /\ 900 \in (S \ {3600})
    BY <2>5
  <2>6. CASE {30, 150, 300, 600, 900} \cap (S \ {3600}) = {}
    <3>1. \A y \in (S \ {3600}) : y = 1800
      BY <2>6
    <3>2. PICK y \in S : y # 3600
      BY <1>0
    <3>3. 1800 \in (S \ {3600})
      BY <3>1, <3>2
    <3>4. QED
      BY <3>1, <3>3
  <2>7. QED
    BY <2>1, <2>2, <2>3, <2>4, <2>5, <2>6
<1>2. m < 3600
  BY DEF Frequencies
<1>3. \A y \in S : m <= y
  BY <1>1, <1>2 DEF Frequencies
<1>4. S \subseteq Int /\ (S \ {3600}) \subseteq Int
  BY DEF Frequencies
<1>5. Min(S \ {3600}) = m /\ Min(S) = m
  BY <1>1, <1>3, <1>4, MinIs
<1>6. QED
  BY <1>5

\* At any resolution, an interval of a whole number of seconds gets the
\* slot the comment in main() promises: the shortest frequency that is not
\* shorter than the interval, or one hour.
LEMMA WholeSeconds ==
    ASSUME Res \in Nat \ {0}, NEW k \in Nat \ {0}
    PROVE  SlotFor(k * Res) = ReferenceSlot(k * Res)
<1> DEFINE fit == {f \in Frequencies : k * Res <= f * Res}
<1>1. SlotFor(k * Res) = IF fit \ {3600} # {} THEN Min(fit \ {3600})
                                             ELSE 3600
  BY WholeSecondsSets DEF SlotFor, Tested
<1>2. CASE fit \ {3600} # {}
  BY <1>1, <1>2, MinWithoutHour DEF ReferenceSlot
<1>3. CASE fit \ {3600} = {} /\ fit = {}
  BY <1>1, <1>3 DEF ReferenceSlot
<1>4. CASE fit \ {3600} = {} /\ fit # {}
  <2>1. fit = {3600}
    BY <1>4
  <2>2. Min(fit) = 3600
    <3>1. fit \subseteq Int /\ 3600 \in fit /\ \A y \in fit : 3600 <= y
      BY <2>1
    <3>2. QED
      BY <3>1, MinIs
  <2>3. QED
    BY <1>1, <1>4, <2>2 DEF ReferenceSlot
<1>5. QED
  BY <1>2, <1>3, <1>4

\* The slot is chosen once, from the interval, which never changes.
SlotChosen ==
    /\ interval \in 1..MaxInterval
    /\ slot # 0 => slot = SlotFor(interval)

\* With the interval counted in whole seconds (one tick per second) the
\* chain of "<" tests after subtracting one second picks, for every
\* interval, the slot the comment promises: the "<" for "<=" trick is right
\* as long as the interval has no fraction of a second.
THEOREM SlotSecondsThm ==
    ASSUME Res = 1, MaxInterval \in Nat
    PROVE  Spec => []SlotMatchesInterval
<1>1. Init => SlotChosen
  BY DEF Init, SlotChosen
<1>2. SlotChosen /\ [Select]_vars => SlotChosen'
  BY DEF SlotChosen, Select, vars
<1>3. SlotChosen => SlotMatchesInterval
  <2> SUFFICES ASSUME SlotChosen, slot # 0
               PROVE  slot = ReferenceSlot(interval)
    BY DEF SlotMatchesInterval
  <2>1. interval \in Nat \ {0} /\ interval * Res = interval
    BY DEF SlotChosen
  <2>2. SlotFor(interval * Res) = ReferenceSlot(interval * Res)
    BY <2>1, WholeSeconds
  <2>3. slot = SlotFor(interval)
    BY DEF SlotChosen
  <2>4. QED
    BY <2>1, <2>2, <2>3
<1>4. QED
  BY <1>1, <1>2, <1>3, PTL DEF Spec

\* At every resolution finer than a second: an interval that is a fraction
\* of a second longer than one of the tested frequencies gets that
\* frequency as its slot, a wakeup slot shorter than the interval (for
\* 30 s and Res = 10, an interval of 30.1 s is woken every 30 s).
THEOREM SlotTooShortThm ==
    ASSUME Res \in Nat, NEW f \in Tested, NEW iv \in Int,
           f * Res < iv, iv < f * Res + Res
    PROVE  SlotFor(iv) = f /\ SlotFor(iv) * Res < iv
<1> DEFINE below == {g \in Tested : iv - Res < g * Res}
<1>1. f \in below
  BY DEF Tested, Frequencies, below
<1>2. \A g \in below : f <= g
  <2> SUFFICES ASSUME NEW g \in Tested, g < f PROVE g \notin below
    BY DEF Tested, Frequencies, below
  <2>1. g + 1 <= f /\ g \in Int /\ f \in Int
    BY DEF Tested, Frequencies
  <2>2. g * Res + Res <= f * Res
    BY <2>1
  <2>3. g * Res \in Int /\ g * Res <= iv - Res
    BY <2>1, <2>2
  <2>4. QED
    BY <2>3 DEF below
<1>3. Min(below) = f
  <2>1. below \subseteq Int
    BY DEF Tested, Frequencies, below
  <2>2. QED
    BY <1>1, <1>2, <2>1, MinIs
<1>4. SlotFor(iv) = f
  BY <1>1, <1>3 DEF SlotFor, Tested, below
<1>5. QED
  BY <1>4

=============================================================================
